--------------------------- MODULE Scripts_proofs ---------------------------
(***************************************************************************)
(* What the operators' scripts promise: a key that comes back is the key   *)
(* that was split, and opens what was sealed for it (key-split and         *)
(* key-combine); an edit behind the application's back is noticed          *)
(* (tamper-check).  Below them, the tree they and the checkpoints rely on. *)
(***************************************************************************)
EXTENDS TamperCheck, KeyCeremony, Merkle, FiniteSetTheorems, SequenceTheorems,
        WellFoundedInduction, TLAPS
---------------------------------------------------------------------------
(* Keys and sealed ballots                                                 *)

LEMMA PublicInjective ==
  ASSUME NEW a, NEW b, rawPublicOf(a) = rawPublicOf(b)
  PROVE  a = b
BY DEF rawPublicOf

LEMMA KeysDiffer ==
  ASSUME NEW a, NEW b, NEW ea, NEW eb, NEW pa, NEW pb, deriveKey(a, ea, pa) = deriveKey(b, eb, pb)
  PROVE  a = b /\ ea = eb /\ pa = pb
<1>1. deriveKey(a, ea, pa).info[2] = pa /\ deriveKey(b, eb, pb).info[2] = pb
  BY DEF deriveKey
<1>2. QED
  BY <1>1 DEF deriveKey

(* Both ends derive one key.                                               *)
LEMMA SameSecret ==
  ASSUME NEW a, NEW b
  PROVE  diffieHellman(a, rawPublicOf(b)) = diffieHellman(b, rawPublicOf(a))
BY DEF diffieHellman

(* What the browser made opens to what it was made from, whatever the key, *)
(* the choice, the one-time key and the nonce.                             *)
LEMMA SealedOpens ==
  ASSUME NEW k, NEW plain, NEW e, NEW n
  PROVE  openBallot(k, rawPublicOf(k), SealPlain(rawPublicOf(k), plain, e, n)) = Opened(plain)
<1> DEFINE sealed == SealPlain(rawPublicOf(k), plain, e, n)
<1>1. /\ sealed.length = SEALED_BALLOT_LEN /\ sealed.ephemeral = rawPublicOf(e)
      /\ sealed.nonce = n /\ sealed.body.nonce = n /\ sealed.body.plain = plain
      /\ sealed.body.key = deriveKey(diffieHellman(e, rawPublicOf(k)), rawPublicOf(e), rawPublicOf(k))
  BY DEF SealPlain
<1>2. diffieHellman(k, rawPublicOf(e)) = diffieHellman(e, rawPublicOf(k))
  BY SameSecret
<1> HIDE DEF sealed
<1>3. Authentic(sealed, deriveKey(diffieHellman(k, sealed.ephemeral), sealed.ephemeral, rawPublicOf(k)))
  BY <1>1, <1>2 DEF Authentic
<1>4. openBallot(k, rawPublicOf(k), sealed) = Opened(plain)
  BY <1>1, <1>3 DEF openBallot
<1>5. QED
  BY <1>4 DEF sealed

LEMMA ChoiceOpens ==
  ASSUME NEW choice \in Uuids \cup {Abstain}
  PROVE  Opened(Plain(choice)) = choice
<1>1. CASE choice = Abstain
  <2>1. Plain(choice).flag = 0
    BY <1>1 DEF Plain
  <2>2. QED
    BY <1>1, <2>1 DEF Opened
<1>2. CASE choice # Abstain
  <2>1. Plain(choice).flag = 1 /\ Plain(choice).uuid = choice /\ choice \in Uuids
    BY <1>2 DEF Plain
  <2>2. QED
    BY <2>1 DEF Opened
<1>3. QED
  BY <1>1, <1>2

(* Anything sealed differently throws.                                     *)
LEMMA EditedThrows ==
  ASSUME NEW k, NEW choice, NEW n \in Int,
         NEW other \in Edited(sealBallot(rawPublicOf(k), choice, "once", n))
  PROVE  openBallot(k, rawPublicOf(k), other) = Throws
<1> DEFINE sealed == sealBallot(rawPublicOf(k), choice, "once", n)
           Opener(s) == deriveKey(diffieHellman(k, s.ephemeral), s.ephemeral, rawPublicOf(k))
<1>1. /\ sealed.length = SEALED_BALLOT_LEN /\ sealed.nonce = n /\ sealed.body.nonce = n
      /\ sealed.body.key = deriveKey(diffieHellman("once", rawPublicOf(k)), rawPublicOf("once"), rawPublicOf(k))
      /\ sealed = [length |-> SEALED_BALLOT_LEN, ephemeral |-> rawPublicOf("once"), nonce |-> n,
                   body |-> sealed.body]
      /\ sealed.body = [key |-> sealed.body.key, nonce |-> n, plain |-> sealed.body.plain]
  BY DEF sealBallot, SealPlain
<1>2. SEALED_BALLOT_LEN \in Int
  BY DEF SEALED_BALLOT_LEN, EPHEMERAL_PUBKEY_LEN, NONCE_LEN, CIPHERTEXT_LEN
<1>3. PICK s : s = sealed
  OBVIOUS
<1>4. other \in {[s EXCEPT !.length = @ - 1], [s EXCEPT !.nonce = @ + 1],
                 [s EXCEPT !.ephemeral = rawPublicOf("twice")], [s EXCEPT !.body.nonce = @ + 1]}
  BY <1>3 DEF Edited
<1> HIDE DEF sealed
<1>5. other.length # SEALED_BALLOT_LEN \/ ~Authentic(other, Opener(other))
  <2>1. CASE other = [s EXCEPT !.length = @ - 1]
    BY <1>1, <1>2, <1>3, <2>1
  <2>2. CASE other = [s EXCEPT !.nonce = @ + 1]
    <3>1. other.nonce = n + 1 /\ other.body.nonce = n
      BY <1>1, <1>3, <2>2
    <3>2. QED
      BY <3>1 DEF Authentic
  <2>3. CASE other = [s EXCEPT !.ephemeral = rawPublicOf("twice")]
    <3>1. other.ephemeral = rawPublicOf("twice") /\ other.body.key = s.body.key
      BY <1>1, <1>3, <2>3
    <3>2. rawPublicOf("twice") # rawPublicOf("once")
      BY PublicInjective
    <3>3. other.body.key # Opener(other)
      BY <1>1, <1>3, <3>1, <3>2, KeysDiffer
    <3>4. QED
      BY <3>3 DEF Authentic
  <2>4. CASE other = [s EXCEPT !.body.nonce = @ + 1]
    <3>1. other.nonce = n /\ other.body.nonce = n + 1
      BY <1>1, <1>3, <2>4
    <3>2. QED
      BY <3>1 DEF Authentic
  <2>5. QED
    BY <1>4, <2>1, <2>2, <2>3, <2>4
<1>6. QED
  BY <1>5 DEF openBallot

LEMMA ForeignThrows ==
  ASSUME NEW k, NEW j, j # k, NEW choice, NEW n
  PROVE  openBallot(k, rawPublicOf(k), sealBallot(rawPublicOf(j), choice, "once", n)) = Throws
<1>1. PICK s : s = sealBallot(rawPublicOf(j), choice, "once", n)
  OBVIOUS
<1>2. s.body.key = deriveKey(diffieHellman("once", rawPublicOf(j)), rawPublicOf("once"), rawPublicOf(j))
  BY <1>1 DEF sealBallot, SealPlain
<1>3. s.body.key # deriveKey(diffieHellman(k, s.ephemeral), s.ephemeral, rawPublicOf(k))
  BY <1>2, PublicInjective, KeysDiffer
<1>4. QED
  BY <1>1, <1>3 DEF openBallot, Authentic

LEMMA NoChoiceThrows ==
  ASSUME NEW choice
  PROVE  /\ Opened([flag |-> 2, uuid |-> choice]) = Throws
         /\ Opened([flag |-> 1, uuid |-> "no uuid"]) = Throws
<1>1. \A plain : plain.flag = 2 => Opened(plain) = Throws
  BY DEF Opened
<1>2. \A plain : plain.flag = 1 /\ plain.uuid = "no uuid" => Opened(plain) = Throws
  <2>1. \A plain : plain.uuid = "no uuid" => plain.uuid \notin Uuids
    BY UuidsAssumption, Zenon
  <2>2. \A plain : plain.flag = 1 => plain.flag # 0
    OBVIOUS
  <2>3. QED
    BY <2>1, <2>2, Zenon DEF Opened
<1>3. [flag |-> 2, uuid |-> choice].flag = 2
  OBVIOUS
<1>4. [flag |-> 1, uuid |-> "no uuid"].flag = 1 /\ [flag |-> 1, uuid |-> "no uuid"].uuid = "no uuid"
  OBVIOUS
<1>5. QED
  BY <1>1, <1>2, <1>3, <1>4

LEMMA OpeningSound == OpensAsSealed
<1> SUFFICES ASSUME NEW k \in Keys, NEW choice \in Uuids \cup {Abstain}
             PROVE  LET pair   == generateElectionKeyPair(k)
                        Open(sealed) == openBallot(k, pair.publicKey, sealed)
                        sealed == sealBallot(pair.publicKey, choice, "once", 0)
                    IN /\ Open(sealed) = choice
                       /\ \A other \in Edited(sealed) : Open(other) = Throws
                       /\ \A j \in Keys \ {k} : Open(sealBallot(rawPublicOf(j), choice, "once", 0)) = Throws
                       /\ \A plain \in {[flag |-> 2, uuid |-> choice], [flag |-> 1, uuid |-> "no uuid"]} :
                            Open(SealPlain(pair.publicKey, plain, "once", 0)) = Throws
  BY DEF OpensAsSealed
<1>1. generateElectionKeyPair(k).publicKey = rawPublicOf(k)
  BY DEF generateElectionKeyPair
<1>2. openBallot(k, rawPublicOf(k), sealBallot(rawPublicOf(k), choice, "once", 0)) = choice
  BY SealedOpens, ChoiceOpens DEF sealBallot
<1>3. \A other \in Edited(sealBallot(rawPublicOf(k), choice, "once", 0)) :
        openBallot(k, rawPublicOf(k), other) = Throws
  BY EditedThrows
<1>4. \A j \in Keys \ {k} :
        openBallot(k, rawPublicOf(k), sealBallot(rawPublicOf(j), choice, "once", 0)) = Throws
  BY ForeignThrows
<1>5. ASSUME NEW plain \in {[flag |-> 2, uuid |-> choice], [flag |-> 1, uuid |-> "no uuid"]}
      PROVE  openBallot(k, rawPublicOf(k), SealPlain(rawPublicOf(k), plain, "once", 0)) = Throws
  <2>1. Opened(plain) = Throws
    BY NoChoiceThrows, Zenon
  <2>2. QED
    BY <2>1, SealedOpens
<1>6. QED
  BY <1>1, <1>2, <1>3, <1>4, <1>5
---------------------------------------------------------------------------
(* Splitting and combining                                                 *)

LEMMA FunctionIsSeq ==
  ASSUME NEW S, NEW n \in Nat, NEW f \in [1..n -> S]
  PROVE  f \in Seq(S) /\ Len(f) = n
OBVIOUS

LEMMA Appended ==
  ASSUME NEW s, NEW x, Sequence(s)
  PROVE  /\ Sequence(Append(s, x))
         /\ Append(s, x) # <<>>
         /\ \A i \in DOMAIN Append(s, x) : (i \in DOMAIN s /\ Append(s, x)[i] = s[i]) \/ Append(s, x)[i] = x
         /\ \A i \in DOMAIN s : i \in DOMAIN Append(s, x) /\ Append(s, x)[i] = s[i]
<1> DEFINE S == {s[i] : i \in DOMAIN s} \cup {x}
           a == Append(s, x)
<1>1. s \in Seq(S)
  BY DEF Sequence
<1>2. PICK n \in Nat : n = Len(s) /\ DOMAIN s = 1..n
  BY <1>1
<1>3. /\ a \in Seq(S) /\ DOMAIN a = 1..(n + 1) /\ a[n + 1] = x
      /\ \A i \in 1..n : a[i] = s[i]
  BY <1>1, <1>2
<1>4. Len(a) = n + 1 /\ \A i \in 1..Len(a) : a[i] \in {a[m] : m \in DOMAIN a}
  BY <1>3, LenProperties
<1>5. Sequence(a)
  <2> DEFINE T == {a[i] : i \in DOMAIN a}
  <2>1. a \in [1..(n + 1) -> S]
    BY <1>3, <1>4, LenProperties
  <2>2. \A i \in 1..(n + 1) : a[i] \in T
    BY <1>3
  <2>3. a \in [1..(n + 1) -> T]
    <3> HIDE DEF a, S, T
    <3>1. QED
      BY <2>1, <2>2
  <2>4. a \in Seq(T)
    <3>1. n + 1 \in Nat
      OBVIOUS
    <3> HIDE DEF a, T
    <3>2. QED
      BY <2>3, <3>1, FunctionIsSeq
  <2>5. QED
    BY <2>4 DEF Sequence
<1>6. a # <<>>
  BY <1>4, EmptySeq
<1> HIDE DEF a
<1>7. QED
  BY <1>2, <1>3, <1>5, <1>6 DEF a

(* What combine returns has been compared with the checksum it was split   *)
(* under, and is what that checksum stands for.                            *)
LEMMA CombinedIsChecked ==
  ASSUME NEW accepted, combine(accepted) # Error
  PROVE  accepted # <<>> /\ combine(accepted) = accepted[1].checksum
BY DEF combine, ChecksumRight, checksumOf, Error

LEMMA RestoredIsKey ==
  ASSUME SplitsSound, NEW accepted, Restored(accepted) # Error, 1 \in DOMAIN accepted,
         \A j \in DOMAIN accepted : \E i \in DOMAIN splits : accepted[j].checksum = splits[i][1].checksum
  PROVE  \E k \in Keys : /\ KeyText[k] = Restored(accepted)
                         /\ public \in {rawPublicOf(k), None}
                         /\ \E i \in DOMAIN splits : splits[i][1].checksum = Restored(accepted)
<1>1. PICK text : text = combine(accepted)
  OBVIOUS
<1>2. /\ Restored(accepted) = text /\ text # Error
      /\ public = None \/ \E k \in Keys : KeyText[k] = text /\ keyPairMatches(public, k)
  BY <1>1 DEF Restored
<1>3. text = accepted[1].checksum
  BY <1>1, <1>2, CombinedIsChecked
<1>4. PICK i \in DOMAIN splits : splits[i][1].checksum = text
  BY <1>3
<1>5. \E k \in Keys : KeyText[k] = text
  BY <1>4 DEF SplitsSound
<1>6. QED
  BY <1>2, <1>4, <1>5 DEF keyPairMatches

(* Whatever a line does to a share, its checksum is that of a split.       *)
LEMMA LinesChecked ==
  ASSUME SplitsSound, NEW line \in Lines, Decodes(line)
  PROVE  \E i \in DOMAIN splits : line.checksum = splits[i][1].checksum
<1>1. ASSUME NEW s \in Papers
      PROVE  \E i \in DOMAIN splits : s.checksum = splits[i][1].checksum
  BY DEF Papers, SplitsSound
<1>2. line # Rubbish
  BY DEF Decodes, Rubbish
<1>3. CASE line \in Papers
  BY <1>1, <1>3
<1>4. CASE \E s \in Papers : line \in Slips(s)
  <2>1. PICK s \in Papers : line \in Slips(s)
    BY <1>4
  <2>2. DOMAIN s = ShareFields
    BY DEF Papers, SplitsSound
  <2>3. line.checksum = s.checksum
    BY <2>1, <2>2 DEF Slips, ShareFields
  <2>4. QED
    BY <1>1, <2>3
<1>5. line \in UNION {Slips(s) : s \in Papers} => \E s \in Papers : line \in Slips(s)
  OBVIOUS
<1>6. QED
  BY <1>2, <1>3, <1>4, <1>5 DEF Lines

LEMMA SplitSound ==
  ASSUME NEW k \in Keys, NEW n \in Nat, NEW t \in Nat, NEW coeffs, Splittable(KeyText[k], n, t),
         NEW papers, papers = split(KeyText[k], n, t, coeffs)
  PROVE  /\ 1 \in DOMAIN papers
         /\ \A j \in DOMAIN papers : DOMAIN papers[j] = ShareFields /\ papers[j].checksum = KeyText[k]
BY DEF Splittable, split, checksumOf, ShareFields
---------------------------------------------------------------------------
(* A key ceremony                                                          *)

LEMMA CeremonyStart == CeremonyInit => CeremonyInv
<1> SUFFICES ASSUME CeremonyInit PROVE CeremonyInv
  OBVIOUS
<1>1. splits = <<>> /\ shares = <<>> /\ key = Error
  BY DEF CeremonyInit
<1>2. DOMAIN <<>> = {} /\ <<>> \in Seq({})
  BY EmptySeq, LenProperties
<1>3. SplitsSound
  BY <1>1, <1>2 DEF SplitsSound, Sequence
<1>4. SharesSound
  BY <1>1, <1>2 DEF SharesSound, Sequence
<1>5. KeyNeverGarbled
  BY <1>1 DEF KeyNeverGarbled
<1>6. QED
  BY <1>3, <1>4, <1>5 DEF CeremonyInv

LEMMA KeySplitKeeps ==
  ASSUME CeremonyInv, NEW k \in Keys, NEW given, NEW shape \in Shapes, KeySplit(k, given, shape)
  PROVE  CeremonyInv'
<1>1. PICK coeffs : splits' = Append(splits, split(KeyText[k], shape[1], shape[2], coeffs))
  BY DEF KeySplit
<1>2. PICK papers : papers = split(KeyText[k], shape[1], shape[2], coeffs)
  OBVIOUS
<1>3. splits' = Append(splits, papers) /\ UNCHANGED <<public, shares, over, key>>
  BY <1>1, <1>2 DEF KeySplit
<1>4. shape[1] \in Nat /\ shape[2] \in Nat /\ Splittable(KeyText[k], shape[1], shape[2])
  BY SplitsAssumption DEF KeySplit
<1>5. /\ 1 \in DOMAIN papers
      /\ \A j \in DOMAIN papers : DOMAIN papers[j] = ShareFields /\ papers[j].checksum = KeyText[k]
  <2>1. PICK n \in Nat, t \in Nat : n = shape[1] /\ t = shape[2]
    BY <1>4
  <2>2. Splittable(KeyText[k], n, t) /\ papers = split(KeyText[k], n, t, coeffs)
    BY <1>2, <1>4, <2>1
  <2>3. QED
    BY <2>2, SplitSound
<1>6. /\ Sequence(splits')
      /\ \A i \in DOMAIN splits' : (i \in DOMAIN splits /\ splits'[i] = splits[i]) \/ splits'[i] = papers
      /\ \A i \in DOMAIN splits : i \in DOMAIN splits' /\ splits'[i] = splits[i]
  BY <1>3, Appended DEF CeremonyInv, SplitsSound
<1>7. SplitsSound'
  BY <1>5, <1>6 DEF CeremonyInv, SplitsSound, Sequence
<1>8. SharesSound'
  BY <1>3, <1>6 DEF CeremonyInv, SharesSound, Sequence
<1>9. KeyNeverGarbled'
  BY <1>3, <1>6 DEF CeremonyInv, KeyNeverGarbled
<1>10. QED
  BY <1>7, <1>8, <1>9 DEF CeremonyInv

LEMMA TypeLineKeeps ==
  ASSUME CeremonyInv, NEW line \in Lines, TypeLine(line)
  PROVE  CeremonyInv'
<1>1. /\ Decodes(line) /\ shares' = Append(shares, line) /\ UNCHANGED <<splits, public>>
      /\ key' = Error \/ key' = Restored(shares')
  BY DEF TypeLine, Acceptable
<1>2. \E i \in DOMAIN splits : line.checksum = splits[i][1].checksum
  BY <1>1, LinesChecked DEF CeremonyInv
<1>3. /\ Sequence(shares') /\ shares' # <<>>
      /\ \A j \in DOMAIN shares' : (j \in DOMAIN shares /\ shares'[j] = shares[j]) \/ shares'[j] = line
  BY <1>1, Appended DEF CeremonyInv, SharesSound
<1>4. \A j \in DOMAIN shares' : \E i \in DOMAIN splits : shares'[j].checksum = splits[i][1].checksum
  BY <1>2, <1>3 DEF CeremonyInv, SharesSound
<1>5. SplitsSound'
  BY <1>1 DEF CeremonyInv, SplitsSound, Sequence
<1>6. SharesSound'
  BY <1>1, <1>3, <1>4 DEF SharesSound, Sequence
<1>7. 1 \in DOMAIN shares'
  BY <1>3, EmptySeq, LenProperties DEF Sequence
<1>8. PICK accepted : accepted = shares'
  OBVIOUS
<1>9. Restored(accepted)' = Restored(accepted)
  BY <1>1 DEF Restored
<1>10. KeyNeverGarbled'
  <2>1. CASE key' = Error
    BY <2>1 DEF KeyNeverGarbled
  <2>2. CASE key' # Error
    <3>1. key' = Restored(accepted)
      BY <1>1, <1>8, <2>2
    <3>2. \E k \in Keys : /\ KeyText[k] = Restored(accepted)
                          /\ public \in {rawPublicOf(k), None}
                          /\ \E i \in DOMAIN splits : splits[i][1].checksum = Restored(accepted)
      BY <1>4, <1>7, <1>8, <2>2, <3>1, RestoredIsKey DEF CeremonyInv
    <3>3. QED
      BY <1>1, <3>1, <3>2 DEF KeyNeverGarbled
  <2>3. QED
    BY <2>1, <2>2
<1>11. QED
  BY <1>5, <1>6, <1>10 DEF CeremonyInv

LEMMA EmptyLineKeeps ==
  ASSUME CeremonyInv, EmptyLine
  PROVE  CeremonyInv'
<1>1. key' = Restored(shares) /\ UNCHANGED <<splits, public, shares>>
  BY DEF EmptyLine
<1>2. SplitsSound' /\ SharesSound'
  BY <1>1 DEF CeremonyInv, SplitsSound, SharesSound, Sequence
<1>3. KeyNeverGarbled'
  <2>1. CASE Restored(shares) = Error
    BY <1>1, <2>1 DEF KeyNeverGarbled
  <2>2. CASE Restored(shares) # Error
    <3>1. shares # <<>>
      BY <2>2 DEF Restored
    <3>2. 1 \in DOMAIN shares
      BY <3>1, EmptySeq, LenProperties DEF CeremonyInv, SharesSound, Sequence
    <3>3. \E k \in Keys : /\ KeyText[k] = Restored(shares)
                          /\ public \in {rawPublicOf(k), None}
                          /\ \E i \in DOMAIN splits : splits[i][1].checksum = Restored(shares)
      BY <2>2, <3>2, RestoredIsKey DEF CeremonyInv, SharesSound
    <3>4. QED
      BY <1>1, <3>3 DEF KeyNeverGarbled
  <2>3. QED
    BY <2>1, <2>2
<1>4. QED
  BY <1>2, <1>3 DEF CeremonyInv

LEMMA CeremonyStep == CeremonyInv /\ [CeremonyNext]_ceremonyVars => CeremonyInv'
<1> SUFFICES ASSUME CeremonyInv, [CeremonyNext]_ceremonyVars PROVE CeremonyInv'
  OBVIOUS
<1>1. CASE UNCHANGED ceremonyVars
  BY <1>1 DEF ceremonyVars, CeremonyInv, SplitsSound, SharesSound, Sequence, KeyNeverGarbled
<1>2. CASE NewSession
  <2>1. shares' = <<>> /\ key' = Error /\ UNCHANGED <<splits, public>>
    BY <1>2 DEF NewSession
  <2>2. DOMAIN <<>> = {} /\ <<>> \in Seq({})
    BY EmptySeq, LenProperties
  <2>3. SharesSound'
    BY <2>1, <2>2 DEF SharesSound, Sequence
  <2>4. QED
    BY <2>1, <2>3 DEF CeremonyInv, SplitsSound, Sequence, KeyNeverGarbled
<1>3. QED
  BY <1>1, <1>2, KeySplitKeeps, TypeLineKeeps, EmptyLineKeeps DEF CeremonyNext, LineRefused

(* A key that key-combine prints is one that key-split took apart and the  *)
(* one of the public key that was given, for any keys, shares and          *)
(* thresholds, whatever is typed in whatever order.                        *)
THEOREM NoWrongKey == CeremonySpec => []KeyNeverGarbled
<1>1. CeremonyInv => KeyNeverGarbled
  BY DEF CeremonyInv
<1>2. QED
  BY <1>1, CeremonyStart, CeremonyStep, PTL DEF CeremonySpec

(* What was sealed for a key opens under it to the choice that was made,   *)
(* and nothing else opens, for any keys and choices.                       *)
THEOREM BallotsOpenAsSealed == CeremonySpec => []OpensAsSealed
BY OpeningSound, PTL
---------------------------------------------------------------------------
(* The chain over a finished election                                      *)

LEMMA BoxFacts ==
  ASSUME NEW box \in Boxes
  PROVE  box \subseteq BallotRow /\ IsFiniteSet(box) /\ Cardinality(box) \in Nat
<1>1. PICK ids \in SUBSET BallotIds : \E vote \in [ids -> Votes] :
        box = {[id |-> id, vote |-> vote[id]] : id \in ids}
  BY DEF Boxes
<1>2. PICK vote \in [ids -> Votes] : box = {[id |-> id, vote |-> vote[id]] : id \in ids}
  BY <1>1
<1>3. box \subseteq BallotRow
  BY <1>2 DEF BallotRow
<1>4. \A b, c \in box : b.id = c.id => b = c
  BY <1>2
<1> DEFINE f == [b \in box |-> b.id]
<1>5. f \in Injection(box, BallotIds)
  BY <1>3, <1>4 DEF Injection, IsInjective, BallotRow
<1>6. IsFiniteSet(box)
  BY <1>5, FS_Injection, BallotIdsAssumption DEF Injection
<1>7. QED
  BY <1>3, <1>6, FS_CardinalityType

(* The hash of a row continues that of the row before it.                  *)
LEMMA HashContinues ==
  ASSUME NEW s \in 1..3, NEW box, NEW rows
  PROVE  /\ checkpointHash(Body(s, box, rows), HashOf(s - 1, box, rows)) = HashOf(s, box, rows)
         /\ \A b : checkpointHash(b, HashOf(s - 1, box, rows)) = HashOf(s, box, rows)
                     => b = Body(s, box, rows)
<1> DEFINE before == HashOf(s - 1, box, rows)
           after  == HashOf(s, box, rows)
<1>1. PICK n \in Nat : n = s - 1
  OBVIOUS
<1>2. ASSUME NEW S, \A i \in 1..s : Body(i, box, rows) \in S
      PROVE  before \in Seq(S) /\ Len(before) = n /\ after \in Seq(S) /\ Len(after) = s
  <2>1. before \in [1..n -> S] /\ after \in [1..s -> S]
    BY <1>1, <1>2 DEF HashOf
  <2>2. before \in Seq(S) /\ Len(before) = n
    <3> HIDE DEF before
    <3>1. QED
      BY <2>1, FunctionIsSeq
  <2>3. after \in Seq(S) /\ Len(after) = s
    <3>1. s \in Nat
      OBVIOUS
    <3> HIDE DEF after
    <3>2. QED
      BY <2>1, <3>1, FunctionIsSeq
  <2>4. QED
    BY <2>2, <2>3
<1>3. \A i \in 1..n : before[i] = Body(i, box, rows)
  BY <1>1 DEF HashOf
<1>4. \A i \in 1..s : after[i] = Body(i, box, rows)
  BY DEF HashOf
<1>5. ASSUME NEW b
      PROVE  /\ Append(before, b)[s] = b
             /\ b = Body(s, box, rows) => Append(before, b) = after
  <2> DEFINE S == {Body(i, box, rows) : i \in 1..s} \cup {b}
  <2>2. b \in S /\ \A i \in 1..s : Body(i, box, rows) \in S
    OBVIOUS
  <2> HIDE DEF S, before, after
  <2>1. before \in Seq(S) /\ Len(before) = n /\ after \in Seq(S) /\ Len(after) = s
    BY <1>2, <2>2
  <2>3. /\ Append(before, b) \in Seq(S) /\ Len(Append(before, b)) = s
        /\ \A i \in 1..n : Append(before, b)[i] = before[i]
        /\ Append(before, b)[s] = b
    BY <1>1, <2>1, <2>2, AppendProperties
  <2>4. ASSUME b = Body(s, box, rows)
        PROVE  Append(before, b) = after
    <3>1. \A i \in 1..s : Append(before, b)[i] = after[i]
      BY <1>1, <1>3, <1>4, <2>3, <2>4
    <3>2. QED
      BY <2>1, <2>3, <3>1, SeqEqual
  <2>5. QED
    BY <2>3, <2>4
<1> HIDE DEF before, after
<1>6. after[s] = Body(s, box, rows)
  BY <1>4
<1>7. QED
  BY <1>5, <1>6 DEF checkpointHash, before, after

LEMMA NoHash ==
  ASSUME NEW box, NEW rows
  PROVE  HashOf(0, box, rows) = GENESIS /\ Chain(0, box, rows) = <<>>
<1>1. ASSUME NEW f, f = [i \in 1..0 |-> f[i]]
      PROVE  f = <<>>
  <2>1. f \in [1..0 -> {}]
    BY <1>1
  <2>2. f \in Seq({}) /\ Len(f) = 0
    BY <2>1
  <2>3. QED
    BY <2>2, EmptySeq
<1>2. HashOf(0, box, rows) = [i \in 1..0 |-> HashOf(0, box, rows)[i]]
  BY DEF HashOf
<1>3. Chain(0, box, rows) = [i \in 1..0 |-> Chain(0, box, rows)[i]]
  BY DEF Chain
<1>4. QED
  BY <1>1, <1>2, <1>3 DEF GENESIS

(* Hashes that agree cover as many rows, and the same.                     *)
LEMMA HashesAgree ==
  ASSUME NEW s \in 1..3, NEW t \in 1..3, NEW a, NEW b, NEW p, NEW q,
         HashOf(s, a, p) = HashOf(t, b, q)
  PROVE  s = t /\ a = b /\ (s = 3 => p = q)
<1>1. DOMAIN HashOf(s, a, p) = 1..s /\ DOMAIN HashOf(t, b, q) = 1..t
  BY DEF HashOf
<1>2. s \in 1..t /\ t \in 1..s
  BY <1>1
<1>3. s = t
  BY <1>2
<1>4. ASSUME NEW i \in 1..s
      PROVE  Body(i, a, p) = Body(i, b, q)
  BY <1>3 DEF HashOf
<1>5. Body(1, a, p).merkleRoot = a /\ Body(1, b, q).merkleRoot = b
  BY DEF Body
<1>6. a = b
  BY <1>4, <1>5
<1>7. ASSUME s = 3 PROVE p = q
  <2>1. Body(3, a, p).resultsHash = <<[rows |-> p, invalid |-> 0]>>
        /\ Body(3, b, q).resultsHash = <<[rows |-> q, invalid |-> 0]>>
    BY DEF Body
  <2>2. <<[rows |-> p, invalid |-> 0]>> = <<[rows |-> q, invalid |-> 0]>>
    BY <1>4, <1>7, <2>1
  <2>3. [rows |-> p, invalid |-> 0] = [rows |-> q, invalid |-> 0]
    BY <2>2
  <2>4. QED
    BY <2>3
<1>8. QED
  BY <1>3, <1>6, <1>7

(* The results are in the third row only.                                  *)
LEMMA ResultsLater ==
  ASSUME NEW n \in 0..2, NEW box, NEW p, NEW q
  PROVE  HashOf(n, box, p) = HashOf(n, box, q) /\ Chain(n, box, p) = Chain(n, box, q)
<1>1. \A i \in 1..n : Body(i, box, p) = Body(i, box, q)
  BY DEF Body
<1>2. \A m \in 0..n : HashOf(m, box, p) = HashOf(m, box, q)
  BY <1>1 DEF HashOf
<1>3. \A s \in 1..n : Row(s, box, p) = Row(s, box, q)
  BY <1>1, <1>2 DEF Row
<1>4. QED
  BY <1>2, <1>3 DEF Chain

LEMMA ChainRow ==
  ASSUME NEW n \in 0..3, NEW s \in 1..n, NEW box, NEW rows
  PROVE  /\ DOMAIN Chain(n, box, rows) = 1..n
         /\ Chain(n, box, rows)[s] = Row(s, box, rows)
         /\ Chain(n, box, rows)[s].body = Body(s, box, rows)
         /\ Chain(n, box, rows)[s].prevHash = HashOf(s - 1, box, rows)
         /\ Chain(n, box, rows)[s].hash = HashOf(s, box, rows)
         /\ DOMAIN Chain(n, box, rows)[s] = {"body", "prevHash", "hash"}
BY DEF Chain, Row

LEMMA BodyFields ==
  ASSUME NEW s \in 1..3, NEW box, NEW rows
  PROVE  /\ Body(s, box, rows).seq = s
         /\ Body(s, box, rows).merkleRoot = box
         /\ Body(s, box, rows).ballotCount = Cardinality(box)
         /\ s = 1 => /\ Body(s, box, rows).kind = "ROSTER_SEALED"
                     /\ Body(s, box, rows).rosterHash = <<Members>>
         /\ s = 2 => Body(s, box, rows).kind = "FINAL"
         /\ s = 3 => /\ Body(s, box, rows).kind = "RESULTS"
                     /\ Body(s, box, rows).resultsHash = <<[rows |-> rows, invalid |-> 0]>>
<1>1. CASE s = 1
  BY <1>1 DEF Body
<1>2. CASE s = 2
  BY <1>2 DEF Body
<1>3. CASE s = 3
  BY <1>3 DEF Body
<1>4. QED
  BY <1>1, <1>2, <1>3

LEMMA HonestTables ==
  ASSUME NEW n
  PROVE  Honest(Tables, n) <=> /\ roster = Members /\ ballot \in Boxes
                               /\ checkpoint = Chain(n, ballot, tallyResult)
BY DEF Honest, Tables

(* The tables that nobody has edited pass.                                 *)
LEMMA ChainPasses ==
  ASSUME NEW n \in {2, 3}, Honest(Tables, n), invalidVotes = 0
  PROVE  verifyChain
<1>1. roster = Members /\ ballot \in Boxes /\ checkpoint = Chain(n, ballot, tallyResult)
  BY HonestTables
<1>2. /\ DOMAIN checkpoint = 1..n
      /\ \A s \in 1..n : /\ checkpoint[s].body = Body(s, ballot, tallyResult)
                         /\ checkpoint[s].prevHash = HashOf(s - 1, ballot, tallyResult)
                         /\ checkpoint[s].hash = HashOf(s, ballot, tallyResult)
  BY <1>1 DEF Chain, Row
<1>3. Contiguous
  <2>1. ASSUME NEW b \in Int, 1 <= b
        PROVE  Cardinality(1..b) = b
    <3>1. Cardinality(1..b) = IF 1 > b THEN 0 ELSE b - 1 + 1
      BY FS_Interval
    <3>2. QED
      BY <2>1, <3>1
  <2>2. QED
    BY <1>2, <2>1 DEF Contiguous
<1>4. RowsLinked
  <2> SUFFICES ASSUME NEW s \in 1..n
               PROVE  /\ checkpoint[s].body.seq = s
                      /\ checkpoint[s].prevHash = IF s = 1 THEN GENESIS ELSE checkpoint[s - 1].hash
                      /\ checkpoint[s].hash = checkpointHash(checkpoint[s].body, checkpoint[s].prevHash)
    BY <1>2 DEF RowsLinked
  <2>0. s \in 1..3
    OBVIOUS
  <2>1. checkpoint[s].body.seq = s
    <3>1. Body(s, ballot, tallyResult).seq = s
      BY DEF Body
    <3>2. QED
      BY <1>2, <3>1
  <2>2. checkpoint[s].hash = checkpointHash(checkpoint[s].body, checkpoint[s].prevHash)
    BY <1>2, <2>0, HashContinues
  <2>3. CASE s = 1
    BY <1>2, <2>1, <2>2, <2>3, NoHash
  <2>4. CASE s # 1
    <3>1. s - 1 \in 1..n
      BY <2>4
    <3>2. checkpoint[s - 1].hash = HashOf(s - 1, ballot, tallyResult)
      BY <1>2, <3>1
    <3>3. QED
      BY <1>2, <2>1, <2>2, <2>4, <3>2
  <2>5. QED
    BY <2>3, <2>4
<1>5. ASSUME NEW s \in DOMAIN checkpoint, IsHead(s)
      PROVE  BallotsMatch(checkpoint[s].body) /\ ResultsMatch(checkpoint[s].body)
  <2>1. s = n
    <3>1. n \in DOMAIN checkpoint /\ s \in 1..n
      BY <1>2
    <3>2. n <= s
      BY <1>5, <3>1 DEF IsHead
    <3>3. QED
      BY <3>1, <3>2
  <2>2. n \in 1..3 /\ checkpoint[s].body = Body(n, ballot, tallyResult)
    BY <1>2, <2>1
  <2>3. BallotsMatch(checkpoint[s].body)
    <3>1. Body(n, ballot, tallyResult).merkleRoot = ballot
          /\ Body(n, ballot, tallyResult).ballotCount = Cardinality(ballot)
      BY DEF Body
    <3>2. QED
      BY <2>2, <3>1 DEF BallotsMatch
  <2>4. ResultsMatch(checkpoint[s].body)
    BY <2>2, BodyFields DEF ResultsMatch
  <2>5. QED
    BY <2>3, <2>4
<1>6. RosterMatches
  <2> SUFFICES ASSUME NEW s \in DOMAIN checkpoint, FirstSeal(s)
               PROVE  checkpoint[s].body.rosterHash = <<roster>>
    BY DEF RosterMatches
  <2>1. 1 \in 1..3 /\ 1 \in DOMAIN checkpoint /\ checkpoint[1].body = Body(1, ballot, tallyResult)
    BY <1>2
  <2>2. Sealed(1)
    BY <2>1, BodyFields DEF Sealed
  <2>3. s = 1
    BY <1>2, <2>1, <2>2 DEF FirstSeal
  <2>4. QED
    BY <1>1, <2>1, <2>3, BodyFields
<1>7. QED
  BY <1>2, <1>3, <1>4, <1>5, <1>6 DEF verifyChain, LinksHold

(* A chain that links over hashes nobody rewrote has its rows as they were. *)
LEMMA LinkedRows ==
  ASSUME NEW n \in {2, 3}, NEW box, NEW rows,
         HashesStay, Base.checkpoint = Chain(n, box, rows), LinksHold,
         NEW s \in DOMAIN checkpoint
  PROVE  checkpoint[s].body = Body(s, box, rows) /\ s \in 1..n
<1>1. s \in 1..n /\ s \in 1..3
  BY ChainRow DEF HashesStay
<1>2. checkpoint[s].prevHash = HashOf(s - 1, box, rows) /\ checkpoint[s].hash = HashOf(s, box, rows)
  BY <1>1, ChainRow DEF HashesStay
<1>3. checkpoint[s].hash = checkpointHash(checkpoint[s].body, checkpoint[s].prevHash)
  BY DEF LinksHold, RowsLinked
<1>4. QED
  BY <1>1, <1>2, <1>3, HashContinues

(* Edited tables that pass have their roster, and the ballots and results  *)
(* of the chain that was made.                                             *)
LEMMA PassedIsHonest ==
  ASSUME TamperInv, NEW n \in {2, 3}, Honest(Base, n), verifyChain
  PROVE  /\ roster = Members
         /\ \E m \in 1..n : /\ DOMAIN checkpoint = 1..m
                            /\ m # 1 => ballot = Base.ballot
                            /\ m = 3 => tallyResult = Base.tallyResult
                            /\ \A s \in 1..m : checkpoint[s].body = Body(s, Base.ballot, Base.tallyResult)
<1>1. /\ Base.checkpoint = Chain(n, Base.ballot, Base.tallyResult)
      /\ HashesStay /\ invalidVotes = 0 /\ LinksHold /\ DOMAIN checkpoint # {}
  BY DEF Honest, TamperInv, verifyChain
<1>2. \A s \in DOMAIN checkpoint :
         s \in 1..n /\ checkpoint[s].body = Body(s, Base.ballot, Base.tallyResult)
  BY <1>1, LinkedRows
<1>3. PICK m \in 1..n : DOMAIN checkpoint = 1..m
  <2>1. IsFiniteSet(DOMAIN checkpoint)
    BY <1>2, FS_Interval, FS_Subset
  <2>2. Cardinality(DOMAIN checkpoint) \in Nat
    BY <2>1, FS_CardinalityType
  <2> DEFINE m == Cardinality(DOMAIN checkpoint)
  <2>3. m \in Nat /\ DOMAIN checkpoint = 1..m
    BY <1>1, <2>2 DEF LinksHold, Contiguous
  <2> HIDE DEF m
  <2>4. m # 0
    BY <1>1, <2>3
  <2>5. m \in DOMAIN checkpoint
    BY <2>3, <2>4
  <2>6. m \in 1..n
    BY <1>2, <2>5
  <2>7. QED
    BY <2>3, <2>6
<1>4. IsHead(m) /\ m \in DOMAIN checkpoint /\ m \in 1..3
  BY <1>3 DEF IsHead
<1>5. /\ checkpoint[m].body = Body(m, Base.ballot, Base.tallyResult)
      /\ BallotsMatch(checkpoint[m].body) /\ ResultsMatch(checkpoint[m].body)
  BY <1>2, <1>4 DEF verifyChain
<1>6. m # 1 => ballot = Base.ballot
  <2> SUFFICES ASSUME m # 1 PROVE ballot = Base.ballot
    OBVIOUS
  <2>1. m = 2 \/ m = 3
    BY <1>4
  <2>2. Body(m, Base.ballot, Base.tallyResult).kind \in {"FINAL", "RESULTS"}
    BY <2>1 DEF Body
  <2>3. Body(m, Base.ballot, Base.tallyResult).merkleRoot = Base.ballot
    BY DEF Body
  <2>4. QED
    BY <1>5, <2>2, <2>3 DEF BallotsMatch
<1>7. m = 3 => tallyResult = Base.tallyResult
  <2> SUFFICES ASSUME m = 3 PROVE tallyResult = Base.tallyResult
    OBVIOUS
  <2>1. <<[rows |-> tallyResult, invalid |-> invalidVotes]>>
          = <<[rows |-> Base.tallyResult, invalid |-> 0]>>
    BY <1>4, <1>5, BodyFields DEF ResultsMatch
  <2>2. [rows |-> tallyResult, invalid |-> invalidVotes] = [rows |-> Base.tallyResult, invalid |-> 0]
    BY <2>1
  <2>3. QED
    BY <2>2
<1>8. roster = Members
  <2>1. 1 \in 1..3 /\ 1 \in DOMAIN checkpoint /\ checkpoint[1].body = Body(1, Base.ballot, Base.tallyResult)
    BY <1>2, <1>3
  <2>2. Sealed(1) /\ \A t \in DOMAIN checkpoint : 1 <= t
    BY <1>3, <2>1, BodyFields DEF Sealed
  <2>3. checkpoint[1].body.rosterHash = <<roster>>
    BY <2>1, <2>2 DEF verifyChain, RosterMatches, FirstSeal
  <2>4. <<roster>> = <<Members>>
    BY <2>1, <2>3, BodyFields
  <2>5. QED
    BY <2>4
<1>9. QED
  BY <1>2, <1>3, <1>6, <1>7, <1>8

LEMMA InvVerdict == TamperInv => VerdictRight
<1> SUFFICES ASSUME TamperInv PROVE VerdictRight
  OBVIOUS
<1> USE DEF TamperInv
<1>1. ASSUME Resting PROVE verifyChain
  <2>1. Base = Tables /\ (Honest(Base, 2) \/ Honest(Base, 3))
    BY <1>1 DEF Resting, Base, AtRest
  <2>2. QED
    BY <2>1, ChainPasses
<1>2. ASSUME edits = 1, verifyChain, ~HeadDeleted PROVE FALSE
  <2>1. step = "rest" /\ Base = saved
    BY <1>2 DEF Making, Base
  <2>2. PICK n \in {2, 3} : Honest(saved, n)
    BY <2>1 DEF AtRest
  <2>3. /\ saved.roster = Members /\ saved.checkpoint = Chain(n, saved.ballot, saved.tallyResult)
        /\ DOMAIN saved.checkpoint = 1..n /\ HashesStay
    BY <2>2 DEF Honest, Chain
  <2>4. /\ roster = Members
        /\ \E m \in 1..n : /\ DOMAIN checkpoint = 1..m
                           /\ m # 1 => ballot = saved.ballot
                           /\ m = 3 => tallyResult = saved.tallyResult
                           /\ \A s \in 1..m : checkpoint[s].body = Body(s, saved.ballot, saved.tallyResult)
    BY <1>2, <2>1, <2>2, PassedIsHonest
  <2>5. PICK m \in 1..n : /\ DOMAIN checkpoint = 1..m
                          /\ m # 1 => ballot = saved.ballot
                          /\ m = 3 => tallyResult = saved.tallyResult
                          /\ \A s \in 1..m : checkpoint[s].body = Body(s, saved.ballot, saved.tallyResult)
    BY <2>4
  <2>6. ~(Only("roster") /\ roster # saved.roster)
    BY <2>3, <2>4
  <2>7. ~(Only("ballot") /\ ballot # saved.ballot)
    <3> SUFFICES ASSUME Only("ballot") PROVE ballot = saved.ballot
      OBVIOUS
    <3>1. checkpoint = saved.checkpoint
      BY DEF Only
    <3>2. n \in 1..m
      BY <2>3, <2>5, <3>1
    <3>3. QED
      BY <2>5, <3>2
  <2>8. ~(Only("tallyResult") /\ tallyResult # saved.tallyResult /\ HeadIs("RESULTS"))
    <3> SUFFICES ASSUME HeadIs("RESULTS") PROVE tallyResult = saved.tallyResult
      OBVIOUS
    <3>1. PICK s \in DOMAIN checkpoint : IsHead(s) /\ checkpoint[s].body.kind = "RESULTS"
      BY DEF HeadIs
    <3>2. s \in 1..m /\ m \in DOMAIN checkpoint
      BY <2>5, <3>1
    <3>3. s = m
      BY <3>1, <3>2 DEF IsHead
    <3>4. Body(s, saved.ballot, saved.tallyResult).kind = "RESULTS"
      BY <2>5, <3>1, <3>2
    <3>5. s = 3
      <4>1. s = 1 \/ s = 2 \/ s = 3
        BY <3>2
      <4>2. QED
        BY <3>4, <4>1 DEF Body
    <3>6. QED
      BY <2>5, <3>3, <3>5
  <2>9. ASSUME NEW s \in DOMAIN checkpoint
        PROVE  checkpoint[s].body = saved.checkpoint[s].body
    <3>1. s \in 1..n
      BY <2>5, <2>9
    <3>2. saved.checkpoint[s].body = Body(s, saved.ballot, saved.tallyResult)
      BY <2>3, <3>1 DEF Chain, Row
    <3>3. QED
      BY <2>5, <2>9, <3>2
  <2>10. ASSUME NEW s \in DOMAIN saved.checkpoint, DOMAIN checkpoint = DOMAIN saved.checkpoint \ {s}
         PROVE  FALSE
    <3>1. \E t \in DOMAIN saved.checkpoint : ~(t <= s)
      BY <1>2, <2>10 DEF HeadDeleted
    <3>2. n \in 1..n /\ s \in 1..n /\ n # s
      BY <2>3, <2>10, <3>1
    <3>3. n \in 1..m
      BY <2>3, <2>5, <2>10, <3>2
    <3>4. s \in DOMAIN checkpoint
      BY <2>5, <3>2, <3>3
    <3>5. QED
      BY <2>10, <3>4
  <2>11. QED
    BY <1>2, <2>6, <2>7, <2>8, <2>9, <2>10 DEF OneEdit
<1>3. QED
  BY <1>1, <1>2 DEF VerdictRight

LEMMA InvPinned == TamperInv => OnlyPinnedPasses
<1> SUFFICES ASSUME TamperInv, step = "rest", verifyChain, PinHolds
             PROVE  /\ ballot = pinned.ballot /\ roster = pinned.roster
                    /\ HeadIs("RESULTS") => tallyResult = pinned.tallyResult
  BY DEF OnlyPinnedPasses
<1>1. PICK n \in {2, 3} : Honest(Base, n)
  BY DEF TamperInv, AtRest
<1>2. Base.checkpoint = Chain(n, Base.ballot, Base.tallyResult) /\ HashesStay
  BY <1>1 DEF Honest, TamperInv
<1>3. /\ roster = Members
      /\ \E m \in 1..n : /\ DOMAIN checkpoint = 1..m
                         /\ m # 1 => ballot = Base.ballot
                         /\ m = 3 => tallyResult = Base.tallyResult
                         /\ \A s \in 1..m : checkpoint[s].body = Body(s, Base.ballot, Base.tallyResult)
  BY <1>1, PassedIsHonest
<1>4. PICK m \in 1..n : /\ DOMAIN checkpoint = 1..m
                        /\ m # 1 => ballot = Base.ballot
                        /\ m = 3 => tallyResult = Base.tallyResult
                        /\ \A s \in 1..m : checkpoint[s].body = Body(s, Base.ballot, Base.tallyResult)
  BY <1>3
<1>5. pinned.seq \in 1..m /\ checkpoint[pinned.seq].hash = pinned.hash
  BY <1>4 DEF PinHolds
<1>6. pinned # Nothing
  <2>1. Nothing.seq = 0
    BY DEF Nothing
  <2>2. QED
    BY <1>5, <2>1
<1>7. /\ pinned.seq \in {2, 3} /\ pinned.roster = Members
      /\ pinned.hash = HashOf(pinned.seq, pinned.ballot, pinned.tallyResult)
  BY <1>6 DEF TamperInv, PinSound
<1>8. pinned.hash = HashOf(pinned.seq, Base.ballot, Base.tallyResult)
  <2>1. pinned.seq \in 1..n /\ checkpoint[pinned.seq].hash = Base.checkpoint[pinned.seq].hash
    BY <1>2, <1>4, <1>5 DEF HashesStay
  <2>2. Base.checkpoint[pinned.seq].hash = HashOf(pinned.seq, Base.ballot, Base.tallyResult)
    BY <1>2, <2>1 DEF Chain, Row
  <2>3. QED
    BY <1>5, <2>1, <2>2
<1>9. /\ pinned.ballot = Base.ballot
      /\ pinned.seq = 3 => pinned.tallyResult = Base.tallyResult
  <2>1. pinned.seq \in 1..3
    BY <1>7
  <2>2. HashOf(pinned.seq, Base.ballot, Base.tallyResult)
          = HashOf(pinned.seq, pinned.ballot, pinned.tallyResult)
    BY <1>7, <1>8
  <2>3. ASSUME NEW t \in 1..3, NEW a, NEW b, NEW p, NEW q, HashOf(t, a, p) = HashOf(t, b, q)
        PROVE  b = a /\ (t = 3 => q = p)
    BY <2>3, HashesAgree
  <2>4. QED
    BY <2>1, <2>2, <2>3
<1>10. ballot = pinned.ballot
  BY <1>4, <1>5, <1>7, <1>9
<1>11. ASSUME HeadIs("RESULTS") PROVE tallyResult = pinned.tallyResult
  <2>1. PICK s \in DOMAIN checkpoint : IsHead(s) /\ checkpoint[s].body.kind = "RESULTS"
    BY <1>11 DEF HeadIs
  <2>2. s \in 1..m /\ m \in DOMAIN checkpoint
    BY <1>4, <2>1
  <2>3. s = m
    BY <2>1, <2>2 DEF IsHead
  <2>4. Body(s, Base.ballot, Base.tallyResult).kind = "RESULTS"
    BY <1>4, <2>1, <2>2
  <2>5. s = 3
    <3>1. s = 1 \/ s = 2 \/ s = 3
      BY <2>2
    <3>2. QED
      BY <2>4, <3>1 DEF Body
  <2>6. n = 3 /\ m = 3
    BY <2>2, <2>3, <2>5
  <2>7. pinned.seq = 3
    BY <1>1, <1>7, <1>8, <2>6 DEF TamperInv, AtRest
  <2>8. QED
    BY <1>4, <1>9, <2>6, <2>7
<1>12. QED
  BY <1>3, <1>7, <1>10, <1>11

(* Nobody has edited the tables of an honest chain.                        *)
LEMMA Unedited ==
  ASSUME edits' = 0, NEW n \in 0..3, NEW box, NEW rows, checkpoint' = Chain(n, box, rows)
  PROVE  HashesStay' /\ OneEdit' /\ Base' = Tables'
<1>1. Base' = Tables'
  BY DEF Base
<1>2. Rows(checkpoint')
  BY DEF Rows, Chain, Row
<1>3. Tables'.checkpoint = checkpoint'
  BY DEF Tables
<1>4. HashesStay'
  BY <1>1, <1>2, <1>3 DEF HashesStay, Rows
<1>5. QED
  BY <1>1, <1>4 DEF OneEdit

LEMMA IdleSound ==
  ASSUME NEW k \in 0..2
  PROVE  MakingSound(NoCall, k) /\ MakingSound(NoCall, k)'
BY DEF MakingSound, Locals, NoCall, CallPc, Kinds, AfterPrev, Null

LEMMA KindOfStep ==
  /\ step = "seal" => KindOf[step] = "ROSTER_SEALED"
  /\ step = "final" => KindOf[step] = "FINAL"
  /\ step = "results" => KindOf[step] = "RESULTS"
BY DEF KindOf

LEMMA RowsBeforeStep ==
  ASSUME step \in Steps, step # "rest"
  PROVE  /\ RowsBefore \in 0..2
         /\ step = "seal" => RowsBefore = 0
         /\ step = "final" => RowsBefore = 1
         /\ step = "results" => RowsBefore = 2
BY DEF RowsBefore, Steps

LEMMA TamperStart == Init => TamperInv
<1> SUFFICES ASSUME Init PROVE TamperInv
  OBVIOUS
<1>1. step \in Steps /\ edits = 0 /\ DOMAIN call = Requests /\ invalidVotes = 0
  BY DEF Init, Steps
<1>2. RowsBefore = 0
  BY DEF Init, RowsBefore
<1>3. call[Script] = NoCall /\ NoCall.pc = "idle"
  BY ScriptAssumption DEF Init, NoCall
<1>4. ballot \in Boxes /\ roster = Members
  BY DEF Init, Members
<1>5. checkpoint = <<>> /\ DOMAIN checkpoint = {}
  BY DEF Init
<1>6. Honest(Tables, 0)
  BY <1>4, <1>5, HonestTables, NoHash
<1>7. Making
  BY <1>1, <1>2, <1>3, <1>6, IdleSound DEF Making
<1>8. AtRest /\ PinSound /\ OneEdit
  BY <1>1 DEF Init, AtRest, PinSound, OneEdit
<1>9. HashesStay
  BY <1>5 DEF HashesStay, Rows
<1>10. Counted
  BY <1>1 DEF Init, Counted, Base, Tables
<1>11. QED
  BY <1>1, <1>7, <1>8, <1>9, <1>10 DEF TamperInv

(* A step of the call that leaves the tables alone.                        *)
LEMMA CallMoves ==
  ASSUME TamperInv, step # "rest", UNCHANGED <<dataVars, checkpoint, step, edits, saved, pinned>>,
         DOMAIN call' = Requests, call[Script].pc # "done", call'[Script].pc # "done",
         MakingSound(call'[Script], RowsBefore)
  PROVE  TamperInv'
<1>1. /\ UNCHANGED <<roster, ballot, tallyResult, invalidVotes, checkpoint, step, edits, saved, pinned>>
      /\ Tables' = Tables /\ Base' = Base /\ RowsBefore' = RowsBefore
  BY DEF dataVars, Tables, Base, RowsBefore
<1>2. MakingSound(call[Script], RowsBefore)'
  BY <1>1 DEF MakingSound, Locals
<1>3. Making'
  BY <1>1, <1>2 DEF TamperInv, Making, Honest
<1>4. PinSound' /\ HashesStay' /\ OneEdit' /\ Counted' /\ AtRest'
  BY <1>1 DEF TamperInv, PinSound, HashesStay, OneEdit, Only, HeadIs, IsHead, Counted, AtRest
<1>5. QED
  BY <1>1, <1>3, <1>4 DEF TamperInv

LEMMA BeginKeeps == TamperInv /\ BeginRow => TamperInv'
<1> SUFFICES ASSUME TamperInv, BeginRow PROVE TamperInv'
  OBVIOUS
<1>1. /\ step # "rest" /\ call[Script].pc = "idle"
      /\ call' = [call EXCEPT ![Script] = [NoCall EXCEPT !.pc = "prev", !.kind = KindOf[step]]]
      /\ UNCHANGED <<dataVars, checkpoint, step, edits, saved, pinned>>
  BY DEF BeginRow, Begin
<1>2. DOMAIN call' = Requests /\ call'[Script] = [NoCall EXCEPT !.pc = "prev", !.kind = KindOf[step]]
  BY <1>1, ScriptAssumption DEF TamperInv
<1>3. step \in {"seal", "final", "results"} /\ KindOf[step] \in Kinds
  BY <1>1, KindOfStep DEF TamperInv, Steps, Kinds
<1>4. MakingSound(call'[Script], RowsBefore)
  <2>1. RowsBefore \in 0..2
    BY <1>1, RowsBeforeStep DEF TamperInv
  <2>2. PICK kind \in Kinds : kind = KindOf[step]
    BY <1>3
  <2>3. call'[Script] = [pc |-> "prev", kind |-> kind, prevSeq |-> 0, prevHash |-> GENESIS,
                         leaves |-> {}, cursor |-> -1, rosterHash |-> Null,
                         rows |-> Null, invalid |-> Null]
    BY <1>2, <2>2 DEF NoCall
  <2>4. call'[Script] \in Locals(RowsBefore)
    BY <2>3 DEF Locals, CallPc
  <2>5. call'[Script].pc = "prev" /\ call'[Script].kind = KindOf[step]
    BY <2>2, <2>3
  <2>6. QED
    BY <1>2, <2>4, <2>5 DEF MakingSound, AfterPrev
<1>5. QED
  BY <1>1, <1>2, <1>4, CallMoves DEF NoCall

(* A call that has begun is one of the script, over tables that stand still. *)
LEMMA CallUnderWay ==
  ASSUME TamperInv, call[Script].pc # "idle"
  PROVE  /\ step \in {"seal", "final", "results"} /\ edits = 0 /\ RowsBefore \in 0..2
         /\ MakingSound(call[Script], RowsBefore) /\ DOMAIN call = Requests
         /\ invalidVotes = 0 /\ roster = Members /\ ballot \in Boxes
         /\ call[Script].pc # "done" => checkpoint = Chain(RowsBefore, ballot, tallyResult)
         /\ call[Script].pc = "done" => checkpoint = Chain(RowsBefore + 1, ballot, tallyResult)
<1>1. step # "rest"
  BY DEF TamperInv, AtRest, NoCall
<1>2. step \in {"seal", "final", "results"} /\ edits = 0
  BY <1>1 DEF TamperInv, Making, Steps
<1>3. RowsBefore \in 0..2
  BY <1>1, RowsBeforeStep DEF TamperInv
<1>4. QED
  BY <1>1, <1>2, <1>3, HonestTables DEF TamperInv, Making

LEMMA ReadPrevKeeps ==
  TamperInv /\ ReadPrev(Script) /\ UNCHANGED <<step, edits, saved, pinned>> => TamperInv'
<1> SUFFICES ASSUME TamperInv, ReadPrev(Script), UNCHANGED <<step, edits, saved, pinned>>
             PROVE  TamperInv'
  OBVIOUS
<1> DEFINE c == call[Script]
           d == call'[Script]
           k == RowsBefore
<1>1. c.pc = "prev" /\ UNCHANGED <<dataVars, checkpoint>>
  BY DEF ReadPrev
<1>2. /\ step \in {"seal", "final", "results"} /\ k \in 0..2 /\ MakingSound(c, k)
      /\ DOMAIN call = Requests /\ Script \in Requests
      /\ ballot \in Boxes /\ checkpoint = Chain(k, ballot, tallyResult)
  BY <1>1, CallUnderWay, ScriptAssumption
<1>3. c = [NoCall EXCEPT !.pc = "prev", !.kind = KindOf[step]] /\ c \in Locals(k)
  BY <1>1, <1>2 DEF MakingSound
<1>4. DOMAIN checkpoint = 1..k
  BY <1>2 DEF Chain
<1>5. /\ DOMAIN call' = Requests
      /\ d = [c EXCEPT !.pc = "scan", !.prevSeq = k, !.prevHash = HashOf(k, ballot, tallyResult)]
  <2>1. CASE DOMAIN checkpoint = {} /\ call' = [call EXCEPT ![Script].pc = "scan", ![Script].prevSeq = 0,
                                                            ![Script].prevHash = GENESIS]
    <3>1. k = 0
      <4> HIDE DEF k
      <4>1. k # 0 => 1 \in 1..k
        BY <1>2
      <4>2. QED
        BY <1>4, <2>1, <4>1
    <3>2. HashOf(k, ballot, tallyResult) = GENESIS
      BY <3>1, NoHash
    <3> HIDE DEF k
    <3>3. QED
      BY <1>2, <2>1, <3>1, <3>2
  <2>2. ASSUME NEW s \in DOMAIN checkpoint, IsHead(s),
               call' = [call EXCEPT ![Script].pc = "scan", ![Script].prevSeq = s,
                                    ![Script].prevHash = checkpoint[s].hash]
        PROVE  /\ DOMAIN call' = Requests
               /\ d = [c EXCEPT !.pc = "scan", !.prevSeq = k, !.prevHash = HashOf(k, ballot, tallyResult)]
    <3>1. s = k
      <4>1. k \in DOMAIN checkpoint /\ s \in 1..k
        BY <1>2, <1>4
      <4>2. k <= s
        BY <2>2, <4>1 DEF IsHead
      <4> HIDE DEF k
      <4>3. QED
        BY <1>2, <4>1, <4>2
    <3>2. checkpoint[s].hash = HashOf(k, ballot, tallyResult)
      BY <1>2, <1>4, <3>1 DEF Chain, Row
    <3> HIDE DEF k
    <3>3. QED
      BY <1>2, <2>2, <3>1, <3>2
  <2>3. QED
    BY <2>1, <2>2 DEF ReadPrev
<1>6. d.pc = "scan" /\ d.kind = KindOf[step] /\ d.prevSeq = k
      /\ d.prevHash = HashOf(k, ballot, tallyResult) /\ d.cursor = -1 /\ d.rosterHash = Null
  BY <1>3, <1>5 DEF NoCall
<1>7. d \in Locals(k)
  BY <1>2, <1>3, <1>5 DEF Locals, CallPc
<1>8. \A b \in ballot : ~(b.id <= -1)
  <2>1. \A b \in ballot : b.id \in Nat
    BY <1>2, BoxFacts, BallotIdsAssumption DEF BallotRow
  <2>2. QED
    BY <2>1
<1>9. MakingSound(d, k)
  BY <1>6, <1>7, <1>8 DEF MakingSound, AfterPrev
<1>10. QED
  BY <1>1, <1>2, <1>5, <1>6, <1>9, CallMoves

(* The scan reads the box in batches and leaves out nothing of it.         *)
LEMMA ScanBatchKeeps ==
  TamperInv /\ ScanBatch(Script) /\ UNCHANGED <<step, edits, saved, pinned>> => TamperInv'
<1> SUFFICES ASSUME TamperInv, ScanBatch(Script), UNCHANGED <<step, edits, saved, pinned>>
             PROVE  TamperInv'
  OBVIOUS
<1> DEFINE c == call[Script]
           d == call'[Script]
           k == RowsBefore
<1>1. c.pc = "scan" /\ UNCHANGED <<dataVars, checkpoint>>
  BY DEF ScanBatch
<1>2. /\ step \in {"seal", "final", "results"} /\ k \in 0..2 /\ MakingSound(c, k)
      /\ DOMAIN call = Requests /\ Script \in Requests /\ ballot \in Boxes
  BY <1>1, CallUnderWay, ScriptAssumption
<1>3. /\ c \in Locals(k) /\ c.kind = KindOf[step] /\ c.prevSeq = k
      /\ c.prevHash = HashOf(k, ballot, tallyResult) /\ c.rosterHash = Null
      /\ \A b \in ballot : b.id <= c.cursor => b \in c.leaves
  BY <1>1, <1>2 DEF MakingSound, AfterPrev
<1>4. PICK batch \in SUBSET Beyond(c.cursor) :
        /\ IsBatch(batch, c.cursor)
        /\ \E id \in BallotIds \cup {c.cursor} :
             /\ IsLast(id, batch, c.cursor)
             /\ call' = [call EXCEPT
                  ![Script].leaves = @ \cup batch, ![Script].cursor = id,
                  ![Script].pc = IF LastBatch(batch) THEN AfterScan(c.kind) ELSE "scan"]
  BY DEF ScanBatch
<1>5. PICK id \in BallotIds \cup {c.cursor} :
        /\ IsLast(id, batch, c.cursor)
        /\ call' = [call EXCEPT
             ![Script].leaves = @ \cup batch, ![Script].cursor = id,
             ![Script].pc = IF LastBatch(batch) THEN AfterScan(c.kind) ELSE "scan"]
  BY <1>4
<1>6. PICK pc : pc = IF LastBatch(batch) THEN AfterScan(c.kind) ELSE "scan"
  OBVIOUS
<1>7. /\ DOMAIN call' = Requests
      /\ d = [c EXCEPT !.leaves = c.leaves \cup batch, !.cursor = id, !.pc = pc]
  BY <1>2, <1>5, <1>6
<1>8. pc \in {"scan", "roster", "results", "insert"}
  BY <1>6 DEF AfterScan
<1>9. /\ pc = "roster" => step = "seal"
      /\ pc = "results" => step = "results"
      /\ pc = "insert" => step = "final"
  BY <1>2, <1>3, <1>6, KindOfStep DEF AfterScan
<1>10. c.cursor \in Int /\ id \in Int /\ \A b \in ballot : b.id \in Nat
  <2>1. \A b \in ballot : b.id \in BallotIds
    BY <1>2, BoxFacts DEF BallotRow
  <2>2. c.cursor \in BallotIds \cup {-1}
    BY <1>3 DEF Locals
  <2>3. QED
    BY <1>5, <2>1, <2>2, BallotIdsAssumption
<1>11. ASSUME NEW b \in ballot, pc = "scan" => b.id <= id
       PROVE  b \in c.leaves \cup batch
  <2>1. CASE b.id <= c.cursor
    BY <1>3, <2>1
  <2>2. CASE ~(b.id <= c.cursor)
    <3>1. b \in Beyond(c.cursor)
      BY <1>10, <2>2 DEF Beyond
    <3>2. CASE LastBatch(batch)
      <4>1. Cardinality(batch) # Chunk
        BY <3>2, ChunkAssumption DEF LastBatch
      <4>2. batch = Beyond(c.cursor)
        BY <1>4, <4>1 DEF IsBatch
      <4>3. QED
        BY <3>1, <4>2
    <3>3. CASE ~LastBatch(batch)
      <4>1. b.id <= id
        BY <1>6, <1>11, <3>3
      <4>2. batch # {}
        BY <1>5, <2>2, <4>1 DEF IsLast
      <4>3. PICK last \in batch : last.id = id
        BY <1>5, <4>2 DEF IsLast
      <4>4. QED
        BY <1>4, <3>1, <4>1, <4>3 DEF IsBatch
    <3>4. QED
      BY <3>2, <3>3
  <2>3. QED
    BY <2>1, <2>2
<1>12. d.pc = pc /\ d.kind = c.kind /\ d.prevSeq = c.prevSeq /\ d.prevHash = c.prevHash
       /\ d.rosterHash = c.rosterHash /\ d.cursor = id /\ d.leaves = c.leaves \cup batch
  BY <1>3, <1>7 DEF Locals
<1>13. d \in Locals(k)
  <2>1. PICK leaves : leaves = c.leaves \cup batch
    OBVIOUS
  <2>2. leaves \in SUBSET ballot
    BY <1>3, <1>4, <2>1 DEF Beyond, Locals
  <2>3. id \in BallotIds \cup {-1}
    BY <1>3, <1>5 DEF Locals
  <2>4. d = [c EXCEPT !.leaves = leaves, !.cursor = id, !.pc = pc]
    BY <1>7, <2>1
  <2>5. pc \in CallPc \ {"failed"}
    BY <1>8 DEF CallPc
  <2> HIDE DEF c, d
  <2>6. QED
    BY <1>3, <2>2, <2>3, <2>4, <2>5 DEF Locals
<1>14. MakingSound(d, k)
  BY <1>3, <1>8, <1>9, <1>11, <1>12, <1>13 DEF MakingSound, AfterPrev
<1>15. QED
  BY <1>1, <1>2, <1>7, <1>8, <1>12, <1>14, CallMoves

LEMMA ReadRosterKeeps ==
  TamperInv /\ ReadRoster(Script) /\ UNCHANGED <<step, edits, saved, pinned>> => TamperInv'
<1> SUFFICES ASSUME TamperInv, ReadRoster(Script), UNCHANGED <<step, edits, saved, pinned>>
             PROVE  TamperInv'
  OBVIOUS
<1> DEFINE c == call[Script]
           d == call'[Script]
           k == RowsBefore
<1>1. c.pc = "roster" /\ UNCHANGED <<dataVars, checkpoint>>
  BY DEF ReadRoster
<1>2. /\ step = "seal" /\ k \in 0..2 /\ MakingSound(c, k)
      /\ DOMAIN call = Requests /\ Script \in Requests /\ roster = Members
  BY <1>1, CallUnderWay, ScriptAssumption DEF MakingSound, AfterPrev
<1>3. /\ c \in Locals(k) /\ c.kind = KindOf[step] /\ c.prevSeq = k
      /\ c.prevHash = HashOf(k, ballot, tallyResult) /\ \A b \in ballot : b \in c.leaves
  BY <1>1, <1>2 DEF MakingSound, AfterPrev
<1>4. DOMAIN call' = Requests /\ d = [c EXCEPT !.rosterHash = <<Members>>, !.pc = "insert"]
  BY <1>2 DEF ReadRoster
<1>5. d.pc = "insert" /\ d.kind = c.kind /\ d.prevSeq = c.prevSeq /\ d.prevHash = c.prevHash
      /\ d.rosterHash = <<Members>> /\ d.leaves = c.leaves
  BY <1>3, <1>4 DEF Locals
<1>6. d \in Locals(k)
  BY <1>3, <1>4 DEF Locals, CallPc
<1>7. MakingSound(d, k)
  BY <1>2, <1>3, <1>5, <1>6 DEF MakingSound, AfterPrev
<1>8. QED
  BY <1>1, <1>2, <1>4, <1>5, <1>7, CallMoves

LEMMA ReadResultsKeeps ==
  TamperInv /\ (ReadRows(Script) \/ ReadInvalid(Script)) /\ UNCHANGED <<step, edits, saved, pinned>>
    => TamperInv'
<1> SUFFICES ASSUME TamperInv, ReadRows(Script) \/ ReadInvalid(Script),
                    UNCHANGED <<step, edits, saved, pinned>>
             PROVE  TamperInv'
  OBVIOUS
<1> DEFINE c == call[Script]
           d == call'[Script]
           k == RowsBefore
<1>1. c.pc = "results" /\ UNCHANGED <<dataVars, checkpoint>>
  BY DEF ReadRows, ReadInvalid
<1>2. /\ step = "results" /\ k \in 0..2 /\ MakingSound(c, k)
      /\ DOMAIN call = Requests /\ Script \in Requests /\ invalidVotes = 0
  BY <1>1, CallUnderWay, ScriptAssumption DEF MakingSound, AfterPrev
<1>3. /\ c \in Locals(k) /\ c.kind = KindOf[step] /\ c.prevSeq = k
      /\ c.prevHash = HashOf(k, ballot, tallyResult) /\ \A b \in ballot : b \in c.leaves
      /\ c.rosterHash = Null
  BY <1>1, <1>2 DEF MakingSound, AfterPrev
<1>4. <<tallyResult>> # Null /\ <<0>> # Null
  BY DEF Null
<1>5. PICK rows \in {Null, <<tallyResult>>}, invalid \in {Null, <<0>>}, pc \in {"results", "insert"} :
        /\ DOMAIN call' = Requests
        /\ d = [c EXCEPT !.rows = rows, !.invalid = invalid, !.pc = pc]
        /\ pc = "insert" => rows # Null /\ invalid # Null
  <2>1. CASE ReadRows(Script)
    <3>1. PICK pc : pc = IF c.invalid = Null THEN "results" ELSE "insert"
      OBVIOUS
    <3>2. /\ DOMAIN call' = Requests
          /\ d = [c EXCEPT !.rows = <<tallyResult>>, !.pc = pc]
      BY <1>2, <2>1, <3>1 DEF ReadRows
    <3>3. d = [c EXCEPT !.rows = <<tallyResult>>, !.invalid = c.invalid, !.pc = pc]
      BY <1>3, <3>2 DEF Locals
    <3>4. c.invalid \in {Null, <<0>>}
      BY <1>3 DEF Locals
    <3>5. QED
      BY <1>4, <3>1, <3>2, <3>3, <3>4
  <2>2. CASE ReadInvalid(Script)
    <3>1. PICK pc : pc = IF c.rows = Null THEN "results" ELSE "insert"
      OBVIOUS
    <3>2. /\ DOMAIN call' = Requests
          /\ d = [c EXCEPT !.invalid = <<0>>, !.pc = pc]
      BY <1>2, <2>2, <3>1 DEF ReadInvalid
    <3>3. d = [c EXCEPT !.rows = c.rows, !.invalid = <<0>>, !.pc = pc]
      BY <1>3, <3>2 DEF Locals
    <3>4. c.rows \in {Null, <<tallyResult>>}
      BY <1>3 DEF Locals
    <3>5. QED
      BY <1>4, <3>1, <3>2, <3>3, <3>4
  <2>3. QED
    BY <2>1, <2>2
<1>6. d.pc = pc /\ d.kind = c.kind /\ d.prevSeq = c.prevSeq /\ d.prevHash = c.prevHash
      /\ d.rosterHash = Null /\ d.leaves = c.leaves /\ d.rows = rows /\ d.invalid = invalid
  BY <1>3, <1>5 DEF Locals
<1>7. d \in Locals(k)
  BY <1>3, <1>5 DEF Locals, CallPc
<1>8. MakingSound(d, k)
  BY <1>2, <1>3, <1>5, <1>6, <1>7 DEF MakingSound, AfterPrev
<1>9. QED
  BY <1>1, <1>2, <1>5, <1>6, <1>8, CallMoves

(* The row that is inserted is the next one of an honest chain.            *)
LEMMA InsertKeeps ==
  TamperInv /\ Insert(Script) /\ UNCHANGED <<step, edits, saved, pinned>> => TamperInv'
<1> SUFFICES ASSUME TamperInv, Insert(Script), UNCHANGED <<step, edits, saved, pinned>>
             PROVE  TamperInv'
  OBVIOUS
<1> DEFINE c == call[Script]
           d == call'[Script]
           k == RowsBefore
<1>1. /\ c.pc = "insert" /\ UNCHANGED <<roster, ballot, tallyResult, invalidVotes>>
      /\ checkpoint' = [s \in DOMAIN checkpoint \cup {nextSeq(Script)} |->
                          IF s = nextSeq(Script) THEN NewCheckpoint(Script) ELSE checkpoint[s]]
      /\ call' = [call EXCEPT ![Script].pc = "done"]
  BY DEF Insert, dataVars
<1>2. /\ step \in {"seal", "final", "results"} /\ edits = 0 /\ k \in 0..2 /\ MakingSound(c, k)
      /\ DOMAIN call = Requests /\ Script \in Requests /\ invalidVotes = 0
      /\ roster = Members /\ ballot \in Boxes
      /\ checkpoint = Chain(k, ballot, tallyResult)
  BY <1>1, CallUnderWay, ScriptAssumption
<1>3. /\ c \in Locals(k) /\ c.kind = KindOf[step] /\ c.prevSeq = k
      /\ c.prevHash = HashOf(k, ballot, tallyResult) /\ c.leaves = ballot
      /\ c.rosterHash = IF step = "seal" THEN <<Members>> ELSE Null
      /\ step = "results" => c.rows = <<tallyResult>> /\ c.invalid = <<0>>
  BY <1>1, <1>2 DEF MakingSound, AfterPrev, Locals
<1>4. PICK n \in 1..3 : n = k + 1
  BY <1>2
<1>5. nextSeq(Script) = n
  BY <1>3, <1>4 DEF nextSeq
<1>6. /\ step = "seal" => n = 1
      /\ step = "final" => n = 2
      /\ step = "results" => n = 3
  BY <1>2, <1>4, RowsBeforeStep DEF TamperInv
<1>7. NewBody(Script) = Body(n, ballot, tallyResult)
  <2>0. NewBody(Script) =
          [seq |-> n, kind |-> KindOf[step], ballotCount |-> Cardinality(ballot), merkleRoot |-> ballot,
           rosterHash |-> c.rosterHash,
           resultsHash |-> IF KindOf[step] = "RESULTS"
                             THEN <<[rows |-> c.rows[1], invalid |-> c.invalid[1]]>> ELSE Null]
    BY <1>3, <1>5 DEF NewBody
  <2>1. CASE step = "seal"
    <3>1. KindOf[step] = "ROSTER_SEALED" /\ c.rosterHash = <<Members>>
      BY <1>3, <2>1, KindOfStep
    <3>2. QED
      BY <1>6, <2>0, <2>1, <3>1 DEF Body
  <2>2. CASE step = "final"
    <3>1. KindOf[step] = "FINAL" /\ c.rosterHash = Null
      BY <1>3, <2>2, KindOfStep
    <3>2. QED
      BY <1>6, <2>0, <2>2, <3>1 DEF Body
  <2>3. CASE step = "results"
    <3>1. KindOf[step] = "RESULTS" /\ c.rosterHash = Null
          /\ c.rows[1] = tallyResult /\ c.invalid[1] = 0
      BY <1>3, <2>3, KindOfStep
    <3>2. QED
      BY <1>6, <2>0, <2>3, <3>1 DEF Body
  <2>4. QED
    BY <1>2, <2>1, <2>2, <2>3
<1>8. NewCheckpoint(Script) = Row(n, ballot, tallyResult)
  <2>1. n - 1 = k
    BY <1>2, <1>4
  <2>2. checkpointHash(NewBody(Script), HashOf(n - 1, ballot, tallyResult)) = HashOf(n, ballot, tallyResult)
    BY <1>7, HashContinues
  <2>3. QED
    BY <1>3, <1>7, <2>1, <2>2 DEF NewCheckpoint, Row
<1>9. checkpoint' = Chain(n, ballot, tallyResult)
  <2>1. DOMAIN checkpoint = 1..k /\ \A s \in 1..k : checkpoint[s] = Row(s, ballot, tallyResult)
    BY <1>2 DEF Chain
  <2>2. 1..n = 1..k \cup {n} /\ n \notin 1..k
    BY <1>2, <1>4
  <2>3. checkpoint' = [s \in 1..n |-> IF s = n THEN Row(n, ballot, tallyResult) ELSE checkpoint[s]]
    BY <1>1, <1>5, <1>8, <2>1, <2>2
  <2>4. QED
    BY <2>1, <2>2, <2>3 DEF Chain
<1>10. /\ DOMAIN call' = Requests /\ d = [c EXCEPT !.pc = "done"]
       /\ RowsBefore' = k /\ step' # "rest" /\ edits' = 0
  BY <1>1, <1>2 DEF RowsBefore
<1>11. d.pc = "done" /\ d.kind = c.kind /\ d \in Locals(k)
  BY <1>3, <1>10 DEF Locals, CallPc
<1>12. MakingSound(call[Script], RowsBefore)'
  <2>1. call'[Script] \in Locals(RowsBefore)'
    BY <1>1, <1>10, <1>11 DEF Locals
  <2>2. QED
    BY <1>3, <1>10, <1>11, <2>1 DEF MakingSound, AfterPrev
<1>13. Honest(Tables, RowsBefore + 1)'
  BY <1>1, <1>2, <1>4, <1>9, <1>10 DEF Honest, Tables
<1>14. Making'
  BY <1>10, <1>11, <1>12, <1>13 DEF Making
<1>15. HashesStay' /\ OneEdit' /\ Base' = Tables'
  BY <1>4, <1>9, <1>10, Unedited
<1>16. AtRest' /\ PinSound' /\ Counted'
  BY <1>1, <1>2, <1>10, <1>15 DEF TamperInv, AtRest, PinSound, Counted, Base, Tables
<1>17. QED
  BY <1>1, <1>2, <1>10, <1>14, <1>15, <1>16 DEF TamperInv

(* Nobody else inserts a row, so the number is free.                       *)
LEMMA NoConflict == TamperInv => ~InsertConflict(Script)
<1> SUFFICES ASSUME TamperInv, InsertConflict(Script) PROVE FALSE
  OBVIOUS
<1>1. call[Script].pc = "insert" /\ nextSeq(Script) \in DOMAIN checkpoint
  BY DEF InsertConflict, SeqFree
<1>2. /\ RowsBefore \in 0..2 /\ MakingSound(call[Script], RowsBefore)
      /\ checkpoint = Chain(RowsBefore, ballot, tallyResult)
  BY <1>1, CallUnderWay
<1>3. nextSeq(Script) = RowsBefore + 1
  BY <1>1, <1>2 DEF MakingSound, AfterPrev, nextSeq
<1>4. DOMAIN checkpoint = 1..RowsBefore
  BY <1>2 DEF Chain
<1>5. RowsBefore + 1 \notin 1..RowsBefore
  BY <1>2
<1>6. QED
  BY <1>1, <1>3, <1>4, <1>5

LEMMA MakeRowKeeps == TamperInv /\ MakeRow => TamperInv'
BY ReadPrevKeeps, ScanBatchKeeps, ReadRosterKeeps, ReadResultsKeeps, InsertKeeps, NoConflict
   DEF MakeRow, CallStep

(* The pin is the head of the chain that was made, or it is of another one. *)
LEMMA RowMadeKeeps == TamperInv /\ RowMade => TamperInv'
<1> SUFFICES ASSUME TamperInv, RowMade PROVE TamperInv'
  OBVIOUS
<1>1. /\ call[Script].pc = "done" /\ call' = [call EXCEPT ![Script] = NoCall]
      /\ UNCHANGED <<roster, ballot, tallyResult, invalidVotes, checkpoint, edits, saved>>
      /\ step' = IF step = "seal" THEN "final" ELSE "rest"
  BY DEF RowMade, EndCall, dataVars
<1>2. /\ step \in {"seal", "final", "results"} /\ edits = 0 /\ RowsBefore \in 0..2
      /\ DOMAIN call = Requests /\ Script \in Requests /\ invalidVotes = 0
      /\ roster = Members /\ ballot \in Boxes
      /\ checkpoint = Chain(RowsBefore + 1, ballot, tallyResult)
  BY <1>1, CallUnderWay, ScriptAssumption
<1>3. PICK n \in 1..3 : n = RowsBefore + 1
  BY <1>2
<1>4. /\ step = "seal" => n = 1
      /\ step = "final" => n = 2
      /\ step = "results" => n = 3
  BY <1>2, <1>3, RowsBeforeStep DEF TamperInv
<1>5. checkpoint' = Chain(n, ballot, tallyResult) /\ DOMAIN checkpoint = 1..n
  BY <1>1, <1>2, <1>3 DEF Chain
<1>6. DOMAIN call' = Requests /\ call'[Script] = NoCall /\ edits' = 0 /\ step' \in Steps
  BY <1>1, <1>2 DEF Steps
<1>7. HashesStay' /\ OneEdit' /\ Base' = Tables'
  BY <1>5, <1>6, Unedited
<1>8. Honest(Tables', n)
  BY <1>1, <1>2, <1>5 DEF Honest, Tables
<1>9. Making'
  <2> SUFFICES ASSUME step' # "rest" PROVE Making'
    BY DEF Making
  <2>1. step' = "final" /\ n = 1
    BY <1>1, <1>4
  <2>2. RowsBefore' = 1 /\ NoCall.pc = "idle"
    BY <2>1 DEF RowsBefore, NoCall
  <2>3. MakingSound(call[Script], RowsBefore)'
    BY <1>6, <2>2, IdleSound
  <2>4. QED
    BY <1>6, <1>8, <2>1, <2>2, <2>3 DEF Making
<1>10. \/ pinned' = pinned /\ (step # "seal" => pinned # Nothing /\ ~PinHolds)
       \/ pinned' = Pin(n) /\ step # "seal"
  <2>1. PICK s \in DOMAIN checkpoint :
          /\ IsHead(s)
          /\ pinned' = IF step # "seal" /\ (pinned = Nothing \/ PinHolds) THEN Pin(s) ELSE pinned
    BY DEF RowMade
  <2>2. n \in DOMAIN checkpoint /\ s \in 1..n
    BY <1>5
  <2>3. n <= s
    BY <2>1, <2>2 DEF IsHead
  <2>4. s = n
    BY <2>2, <2>3
  <2>5. QED
    BY <2>1, <2>4
<1>11. ASSUME step # "seal"
       PROVE  /\ n \in {2, 3} /\ Pin(n) # Nothing
              /\ Pin(n).seq = n /\ Pin(n).roster = Members
              /\ Pin(n).hash = HashOf(n, ballot, tallyResult)
              /\ Pin(n).hash = HashOf(Pin(n).seq, Pin(n).ballot, Pin(n).tallyResult)
  <2>1. n \in {2, 3}
    BY <1>2, <1>4, <1>11
  <2>2. checkpoint[n].hash = HashOf(n, ballot, tallyResult)
    BY <1>1, <1>5 DEF Chain, Row
  <2>3. Pin(n) = [seq |-> n, hash |-> HashOf(n, ballot, tallyResult),
                  ballot |-> ballot, roster |-> Members, tallyResult |-> tallyResult]
    BY <1>2, <2>2 DEF Pin
  <2>4. Nothing.seq = 0
    BY DEF Nothing
  <2>5. QED
    BY <2>1, <2>3, <2>4
<1>12. PinSound'
  <2>1. CASE pinned' = pinned
    BY <2>1 DEF TamperInv, PinSound
  <2>2. CASE pinned' = Pin(n) /\ step # "seal"
    BY <1>11, <2>2 DEF PinSound
  <2>3. QED
    BY <1>10, <2>1, <2>2
<1>13. AtRest'
  <2> SUFFICES ASSUME step' = "rest"
               PROVE  /\ Honest(Base', 2) \/ Honest(Base', 3)
                      /\ Honest(Base', 3) /\ pinned'.seq = 2
                           => pinned'.hash # HashOf(2, Base'.ballot, Base'.tallyResult)
    BY <1>6 DEF AtRest
  <2>1. step # "seal" /\ n \in {2, 3}
    BY <1>1, <1>2, <1>4
  <2>2. Honest(Base', 2) \/ Honest(Base', 3)
    BY <1>7, <1>8, <2>1
  <2>3. /\ Base'.ballot = ballot /\ Base'.tallyResult = tallyResult /\ Base'.checkpoint = checkpoint
    BY <1>1, <1>7 DEF Tables
  <2>4. ASSUME Honest(Base', 3), pinned'.seq = 2
        PROVE  pinned'.hash # HashOf(2, ballot, tallyResult)
    <3>1. DOMAIN checkpoint = 1..3
      BY <2>3, <2>4 DEF Honest, Chain
    <3>2. n = 3
      <4>1. 3 \in 1..n
        BY <1>5, <3>1
      <4>2. QED
        BY <4>1
    <3>3. pinned' = pinned /\ ~PinHolds
      BY <1>10, <1>11, <2>1, <2>4, <3>2
    <3>4. checkpoint[2].hash = HashOf(2, ballot, tallyResult)
      BY <1>1, <1>5, <3>2 DEF Chain, Row
    <3>5. QED
      BY <2>4, <3>1, <3>3, <3>4 DEF PinHolds
  <2>5. QED
    BY <2>2, <2>3, <2>4
<1>14. Counted'
  BY <1>1, <1>2, <1>7 DEF TamperInv, Counted, Tables
<1>15. QED
  BY <1>1, <1>2, <1>6, <1>7, <1>9, <1>12, <1>13, <1>14 DEF TamperInv

(* The tables of a resting script nobody has edited.                       *)
LEMMA AtRestFacts ==
  ASSUME TamperInv, step = "rest"
  PROVE  /\ call[Script] = NoCall /\ NoCall.pc = "idle" /\ DOMAIN call = Requests /\ invalidVotes = 0
         /\ \E n \in {2, 3} : /\ Base.roster = Members /\ Base.ballot \in Boxes
                              /\ Base.checkpoint = Chain(n, Base.ballot, Base.tallyResult)
BY DEF TamperInv, AtRest, Honest, NoCall

(* The call of a new row starts over tables of an honest chain.            *)
LEMMA Resumes ==
  ASSUME TamperInv, Resting, UNCHANGED <<roster, invalidVotes, call, edits, saved, pinned>>,
         NEW n \in 0..2, step' # "rest", step' \in Steps, RowsBefore' = n,
         ballot' \in Boxes, checkpoint' = Chain(n, ballot', tallyResult'), tallyResult' \subseteq Published
  PROVE  TamperInv'
<1>1. /\ call'[Script] = NoCall /\ NoCall.pc = "idle" /\ DOMAIN call' = Requests
      /\ invalidVotes' = 0 /\ edits' = 0 /\ roster' = Members
  BY AtRestFacts DEF Resting, Base, Tables
<1>2. HashesStay' /\ OneEdit' /\ Base' = Tables'
  BY <1>1, Unedited
<1>3. Honest(Tables, n)'
  BY <1>1 DEF Honest, Tables
<1>4. MakingSound(call[Script], n)'
  BY <1>1, IdleSound
<1>5. Making'
  BY <1>1, <1>3, <1>4 DEF Making
<1>6. AtRest' /\ PinSound' /\ Counted'
  BY <1>2 DEF TamperInv, AtRest, PinSound, Counted, Tables
<1>7. QED
  BY <1>1, <1>2, <1>5, <1>6 DEF TamperInv

LEMMA PublishKeeps == TamperInv /\ Publish => TamperInv'
<1> SUFFICES ASSUME TamperInv, Publish PROVE TamperInv'
  OBVIOUS
<1>1. /\ Resting /\ HeadIs("FINAL") /\ step' = "results"
      /\ UNCHANGED <<roster, ballot, invalidVotes, checkpoint, call, edits, saved, pinned>>
  BY DEF Publish
<1>2. Base = Tables /\ step = "rest"
  BY <1>1 DEF Resting, Base
<1>3. PICK n \in {2, 3} : ballot \in Boxes /\ checkpoint = Chain(n, ballot, tallyResult)
  BY <1>2, AtRestFacts DEF Tables
<1>4. n = 2
  <2>1. PICK s \in DOMAIN checkpoint : IsHead(s) /\ checkpoint[s].body.kind = "FINAL"
    BY <1>1 DEF HeadIs
  <2>2. DOMAIN checkpoint = 1..n /\ checkpoint[s].body = Body(s, ballot, tallyResult)
    BY <1>3, <2>1 DEF Chain, Row
  <2>3. s \in 1..n /\ n \in DOMAIN checkpoint
    BY <2>1, <2>2
  <2>4. s = n
    BY <2>1, <2>3 DEF IsHead
  <2>5. s # 3
    BY <2>1, <2>2 DEF Body
  <2>6. QED
    BY <2>4, <2>5
<1>5. tallyResult' \subseteq Published
  <2>1. \A b \in ballot : b.vote \in Votes
    BY <1>3, BoxFacts DEF BallotRow
  <2>2. ASSUME NEW choice
        PROVE  Cardinality({b \in ballot : b.vote = choice}) \in Nat
    BY <1>3, BoxFacts, FS_Subset, FS_CardinalityType
  <2>3. ASSUME NEW row \in tallyResult'
        PROVE  row \in Published
    <3>1. PICK choice \in {b.vote : b \in ballot} :
            row = [id |-> choice, candidateId |-> choice,
                   votes |-> Cardinality({b \in ballot : b.vote = choice})]
      BY <2>3 DEF Publish
    <3>2. PICK number \in Nat : number = Cardinality({b \in ballot : b.vote = choice})
      BY <2>2
    <3>3. choice \in Votes
      BY <2>1
    <3>4. QED
      BY <3>1, <3>2, <3>3 DEF Published
  <2>4. QED
    BY <2>3
<1>6. checkpoint' = Chain(2, ballot', tallyResult')
  BY <1>1, <1>3, <1>4, ResultsLater
<1>7. RowsBefore' = 2 /\ step' \in Steps /\ step' # "rest"
  BY <1>1 DEF RowsBefore, Steps
<1>8. ballot' \in Boxes
  BY <1>1, <1>3
<1>9. QED
  BY <1>1, <1>5, <1>6, <1>7, <1>8, Resumes

LEMMA RebuildKeeps == TamperInv /\ Rebuild => TamperInv'
<1> SUFFICES ASSUME TamperInv, Rebuild PROVE TamperInv'
  OBVIOUS
<1>1. /\ Resting /\ step' = "seal" /\ checkpoint' = <<>> /\ ballot' \in Boxes
      /\ UNCHANGED <<roster, tallyResult, invalidVotes, call, edits, saved, pinned>>
  BY DEF Rebuild
<1>2. checkpoint' = Chain(0, ballot', tallyResult')
  BY <1>1, NoHash
<1>3. RowsBefore' = 0 /\ step' \in Steps /\ step' # "rest"
  BY <1>1 DEF RowsBefore, Steps
<1>4. tallyResult' \subseteq Published
  BY <1>1 DEF TamperInv, Counted
<1>5. QED
  BY <1>1, <1>2, <1>3, <1>4, Resumes

LEMMA RestoreKeeps == TamperInv /\ Restore => TamperInv'
<1> SUFFICES ASSUME TamperInv, Restore PROVE TamperInv'
  OBVIOUS
<1>1. /\ edits > 0 /\ edits' = 0
      /\ roster' = saved.roster /\ ballot' = saved.ballot
      /\ tallyResult' = saved.tallyResult /\ checkpoint' = saved.checkpoint
      /\ UNCHANGED <<invalidVotes, call, step, pinned>>
  BY DEF Restore
<1>2. step = "rest" /\ Base = saved
  BY <1>1 DEF TamperInv, Making, Base
<1>3. PICK n \in {2, 3} : checkpoint' = Chain(n, saved.ballot, saved.tallyResult)
  BY <1>1, <1>2, AtRestFacts
<1>4. HashesStay' /\ OneEdit' /\ Base' = Tables'
  BY <1>1, <1>3, Unedited
<1>5. /\ Base'.roster = Base.roster /\ Base'.ballot = Base.ballot
      /\ Base'.tallyResult = Base.tallyResult /\ Base'.checkpoint = Base.checkpoint
  BY <1>1, <1>2, <1>4 DEF Tables
<1>6. AtRest'
  BY <1>1, <1>2, <1>5 DEF TamperInv, AtRest, Honest
<1>7. Making' /\ PinSound'
  BY <1>1, <1>2 DEF TamperInv, Making, PinSound
<1>8. Counted'
  BY <1>1, <1>2, <1>5 DEF TamperInv, Counted
<1>9. QED
  BY <1>1, <1>4, <1>6, <1>7, <1>8 DEF TamperInv

(* What an edit has to show: hashes stay, and what the first one changes.  *)
LEMMA EditKeeps ==
  ASSUME TamperInv, Editing, HashesStay', tallyResult' \subseteq Published,
         edits = 0 => OneEdit'
  PROVE  TamperInv'
<1>1. /\ step = "rest" /\ edits \in Nat /\ edits' = edits + 1
      /\ saved' = IF edits = 0 THEN Tables ELSE saved
      /\ UNCHANGED <<invalidVotes, call, step, pinned>>
  BY DEF Editing, TamperInv
<1>2. Base' = Base
  BY <1>1 DEF Base
<1>3. Making' /\ PinSound'
  BY <1>1 DEF TamperInv, Making, PinSound
<1>4. AtRest'
  BY <1>1, <1>2 DEF TamperInv, AtRest
<1>5. OneEdit'
  <2>1. CASE edits = 0
    BY <2>1
  <2>2. CASE edits # 0
    <3>1. edits' # 1
      BY <1>1, <2>2
    <3>2. QED
      BY <3>1 DEF OneEdit
  <2>3. QED
    BY <2>1, <2>2
<1>6. Counted'
  BY <1>2 DEF TamperInv, Counted
<1>7. QED
  BY <1>1, <1>3, <1>4, <1>5, <1>6 DEF TamperInv

LEMMA EditingFacts ==
  ASSUME TamperInv, Editing
  PROVE  /\ step = "rest" /\ Base' = Base /\ edits' \in Nat
         /\ edits = 0 => /\ saved'.roster = roster /\ saved'.ballot = ballot
                         /\ saved'.tallyResult = tallyResult /\ saved'.checkpoint = checkpoint
                         /\ Base.roster = roster /\ Base.ballot = ballot
                         /\ Base.tallyResult = tallyResult /\ Base.checkpoint = checkpoint
BY DEF TamperInv, Editing, Base, Tables

(* Edits of another table leave the chain as it is.                        *)
LEMMA ChainLeft ==
  ASSUME TamperInv, Editing, UNCHANGED checkpoint
  PROVE  HashesStay'
BY EditingFacts DEF TamperInv, HashesStay

LEMMA BallotEditsKeep == TamperInv /\ (AddBallot \/ DeleteBallot \/ SwapBallot) => TamperInv'
<1> SUFFICES ASSUME TamperInv, AddBallot \/ DeleteBallot \/ SwapBallot PROVE TamperInv'
  OBVIOUS
<1>1. Editing /\ UNCHANGED <<roster, tallyResult, checkpoint>>
  BY DEF AddBallot, DeleteBallot, SwapBallot
<1>2. ASSUME edits = 0 PROVE ballot' # ballot
  <2>1. CASE AddBallot
    <3>1. PICK id \in BallotIds : \E vote \in Votes :
            /\ \A b \in ballot : b.id # id
            /\ ballot' = ballot \cup {[id |-> id, vote |-> vote]}
      BY <2>1 DEF AddBallot
    <3>2. PICK vote \in Votes :
            /\ \A b \in ballot : b.id # id
            /\ ballot' = ballot \cup {[id |-> id, vote |-> vote]}
      BY <3>1
    <3>3. [id |-> id, vote |-> vote].id = id
      OBVIOUS
    <3>4. [id |-> id, vote |-> vote] \notin ballot
      BY <3>2, <3>3
    <3>5. QED
      BY <3>2, <3>4
  <2>2. CASE DeleteBallot
    BY <2>2 DEF DeleteBallot
  <2>3. CASE SwapBallot
    <3>1. PICK b \in ballot : \E vote \in Votes :
            vote # b.vote /\ ballot' = (ballot \ {b}) \cup {[b EXCEPT !.vote = vote]}
      BY <2>3 DEF SwapBallot
    <3>2. PICK vote \in Votes :
            vote # b.vote /\ ballot' = (ballot \ {b}) \cup {[b EXCEPT !.vote = vote]}
      BY <3>1
    <3>3. [b EXCEPT !.vote = vote] # b
      <4>1. ballot \in Boxes
        BY <1>1, <1>2, AtRestFacts, EditingFacts
      <4>2. b \in [id : BallotIds, vote : Votes]
        BY <3>1, <4>1, BoxFacts DEF BallotRow
      <4>3. QED
        BY <3>2, <4>2
    <3>4. b \notin ballot'
      BY <3>2, <3>3
    <3>5. QED
      BY <3>4
  <2>4. QED
    BY <2>1, <2>2, <2>3
<1>3. edits = 0 => OneEdit'
  BY <1>1, <1>2, EditingFacts DEF OneEdit, Only
<1>4. tallyResult' \subseteq Published
  BY <1>1 DEF TamperInv, Counted
<1>5. QED
  BY <1>1, <1>3, <1>4, ChainLeft, EditKeeps

LEMMA AddVoterKeeps == TamperInv /\ AddVoter => TamperInv'
<1> SUFFICES ASSUME TamperInv, AddVoter PROVE TamperInv'
  OBVIOUS
<1>1. Editing /\ UNCHANGED <<ballot, tallyResult, checkpoint>> /\ roster' # roster
  BY DEF AddVoter
<1>2. edits = 0 => OneEdit'
  BY <1>1, EditingFacts DEF OneEdit, Only
<1>3. tallyResult' \subseteq Published
  BY <1>1 DEF TamperInv, Counted
<1>4. QED
  BY <1>1, <1>2, <1>3, ChainLeft, EditKeeps

LEMMA EditResultsKeeps == TamperInv /\ EditResults => TamperInv'
<1> SUFFICES ASSUME TamperInv, EditResults PROVE TamperInv'
  OBVIOUS
<1>1. Editing /\ HeadIs("RESULTS") /\ UNCHANGED <<roster, ballot, checkpoint>>
  BY DEF EditResults
<1>2. PICK row \in tallyResult :
        tallyResult' = (tallyResult \ {row}) \cup {[row EXCEPT !.votes = @ + 1]}
  BY DEF EditResults
<1>3. tallyResult \subseteq Published /\ row \in [id : Votes, candidateId : Votes, votes : Nat]
  BY <1>2 DEF TamperInv, Counted, Published
<1>4. [row EXCEPT !.votes = @ + 1] \in Published /\ [row EXCEPT !.votes = @ + 1] # row
  <2>1. row.votes + 1 \in Nat /\ row.votes + 1 # row.votes
    BY <1>3
  <2>2. PICK more \in Nat : more = row.votes + 1
    BY <2>1
  <2>3. [row EXCEPT !.votes = more] \in Published
    BY <1>3 DEF Published
  <2>4. [row EXCEPT !.votes = more].votes = more
    BY <1>3
  <2>5. QED
    BY <2>1, <2>2, <2>3, <2>4
<1>5. tallyResult' \subseteq Published /\ tallyResult' # tallyResult
  BY <1>2, <1>3, <1>4
<1>6. HeadIs("RESULTS")'
  BY <1>1 DEF HeadIs, IsHead
<1>7. edits = 0 => OneEdit'
  BY <1>1, <1>5, <1>6, EditingFacts DEF OneEdit, Only
<1>8. QED
  BY <1>1, <1>5, <1>7, ChainLeft, EditKeeps

LEMMA EditRowKeeps == TamperInv /\ EditRow => TamperInv'
<1> SUFFICES ASSUME TamperInv, EditRow PROVE TamperInv'
  OBVIOUS
<1>1. Editing /\ UNCHANGED <<roster, ballot, tallyResult>>
  BY DEF EditRow
<1>2. PICK s \in DOMAIN checkpoint : checkpoint' = [checkpoint EXCEPT ![s].body.ballotCount = @ + 1]
  BY DEF EditRow
<1>3. \A t \in DOMAIN checkpoint : DOMAIN checkpoint[t] = {"body", "prevHash", "hash"}
  BY DEF TamperInv, HashesStay, Rows
<1>4. /\ DOMAIN checkpoint' = DOMAIN checkpoint
      /\ \A t \in DOMAIN checkpoint : t # s => checkpoint'[t] = checkpoint[t]
      /\ checkpoint'[s] = [checkpoint[s] EXCEPT !.body.ballotCount = @ + 1]
  BY <1>2
<1>5. /\ DOMAIN checkpoint'[s] = {"body", "prevHash", "hash"}
      /\ checkpoint'[s].prevHash = checkpoint[s].prevHash /\ checkpoint'[s].hash = checkpoint[s].hash
      /\ checkpoint'[s].body = [checkpoint[s].body EXCEPT !.ballotCount = @ + 1]
  BY <1>3, <1>4
<1>6. HashesStay'
  <2>1. Rows(checkpoint')
    BY <1>3, <1>4, <1>5 DEF Rows
  <2>2. Base' = Base
    BY <1>1, EditingFacts
  <2>3. QED
    BY <1>4, <1>5, <2>1, <2>2 DEF TamperInv, HashesStay
<1>7. ASSUME edits = 0 PROVE checkpoint'[s].body # checkpoint[s].body
  <2>1. PICK n \in {2, 3} : ballot \in Boxes /\ checkpoint = Chain(n, ballot, tallyResult)
    BY <1>1, <1>7, AtRestFacts, EditingFacts
  <2>2. checkpoint[s].body = Body(s, ballot, tallyResult)
    BY <2>1 DEF Chain, Row
  <2>3. PICK count \in Nat : count = Cardinality(ballot)
    BY <2>1, BoxFacts
  <2>4. checkpoint[s].body.ballotCount = count /\ "ballotCount" \in DOMAIN checkpoint[s].body
    BY <2>2, <2>3 DEF Body
  <2>5. checkpoint'[s].body.ballotCount = count + 1
    BY <1>5, <2>4
  <2>6. QED
    BY <2>4, <2>5
<1>8. edits = 0 => OneEdit'
  BY <1>1, <1>2, <1>4, <1>7, EditingFacts DEF OneEdit, Only
<1>9. tallyResult' \subseteq Published
  BY <1>1 DEF TamperInv, Counted
<1>10. QED
  BY <1>1, <1>6, <1>8, <1>9, EditKeeps

LEMMA DeleteRowKeeps == TamperInv /\ DeleteRow => TamperInv'
<1> SUFFICES ASSUME TamperInv, DeleteRow PROVE TamperInv'
  OBVIOUS
<1>1. Editing /\ UNCHANGED <<roster, ballot, tallyResult>>
  BY DEF DeleteRow
<1>2. PICK s \in DOMAIN checkpoint :
        checkpoint' = [t \in DOMAIN checkpoint \ {s} |-> checkpoint[t]]
  BY DEF DeleteRow
<1>3. HashesStay'
  <2>1. Base' = Base
    BY <1>1, EditingFacts
  <2>2. QED
    BY <1>2, <2>1 DEF TamperInv, HashesStay, Rows
<1>4. edits = 0 => OneEdit'
  BY <1>1, <1>2, EditingFacts DEF OneEdit, Only
<1>5. tallyResult' \subseteq Published
  BY <1>1 DEF TamperInv, Counted
<1>6. QED
  BY <1>1, <1>3, <1>4, <1>5, EditKeeps

LEMMA TamperStep == TamperInv /\ [Next]_tamperVars => TamperInv'
<1> SUFFICES ASSUME TamperInv, [Next]_tamperVars PROVE TamperInv'
  OBVIOUS
<1>1. CASE UNCHANGED tamperVars
  <2>1. /\ UNCHANGED <<roster, ballot, tallyResult, invalidVotes, checkpoint, call>>
        /\ UNCHANGED <<step, edits, saved, pinned>>
    BY <1>1 DEF tamperVars, chainVars
  <2>2. Tables' = Tables /\ Base' = Base /\ RowsBefore' = RowsBefore
    BY <2>1 DEF Tables, Base, RowsBefore
  <2>3. MakingSound(call[Script], RowsBefore)' = MakingSound(call[Script], RowsBefore)
    BY <2>1, <2>2 DEF MakingSound, Locals
  <2>4. Making'
    BY <2>1, <2>2, <2>3 DEF TamperInv, Making, Honest
  <2>5. PinSound' /\ HashesStay' /\ OneEdit' /\ Counted' /\ AtRest'
    BY <2>1, <2>2 DEF TamperInv, PinSound, HashesStay, OneEdit, Only, HeadIs, IsHead, Counted, AtRest
  <2>6. QED
    BY <2>1, <2>4, <2>5 DEF TamperInv
<1>2. CASE Next
  BY <1>2, BeginKeeps, MakeRowKeeps, RowMadeKeeps, PublishKeeps, RebuildKeeps, RestoreKeeps,
     BallotEditsKeep, AddVoterKeeps, EditRowKeeps, DeleteRowKeeps, EditResultsKeeps DEF Next
<1>3. QED
  BY <1>1, <1>2

LEMMA TamperAlwaysInv == Spec => []TamperInv
<1>1. QED
  BY TamperStart, TamperStep, PTL DEF Spec

(* verifyChain notices any single edit at any row of any chain that was    *)
(* made, the first or a rebuilt one, unless it deletes the last row; and   *)
(* it passes tables that nobody edited.                                    *)
THEOREM EditsAreNoticed == Spec => []VerdictRight
<1>1. QED
  BY TamperAlwaysInv, InvVerdict, PTL

(* Where verifyChain passes and the row pinned outside is still there, the *)
(* ballots, roster and results are those it certifies: the pile of edits,  *)
(* or the chain made anew, has been noticed by one of the two checks.      *)
THEOREM PinnedIsCertified == Spec => []OnlyPinnedPasses
<1>1. QED
  BY TamperAlwaysInv, InvPinned, PTL
---------------------------------------------------------------------------
(* The tree of a checkpoint                                                *)

LEMMA LeastOf ==
  ASSUME NEW T, T \subseteq Nat, T # {}
  PROVE  \E x \in T : \A y \in T : x <= y
<1>1. IsWellFoundedOn(OpToRel(<, Nat), Nat)
  BY NatLessThanWellFounded
<1>2. PICK x \in T : \A y \in T : ~(<<y, x>> \in OpToRel(<, Nat))
  BY <1>1, WFMin
<1>3. \A y \in T : ~(y < x)
  BY <1>2 DEF OpToRel
<1>4. QED
  BY <1>3

(* An induction.  P(n) is stated by the set of the n it fails for.         *)
LEMMA NoneFails ==
  ASSUME NEW T, T \subseteq Nat, 0 \notin T,
         \A n \in Nat : n + 1 \in T => n \in T
  PROVE  T = {}
<1> SUFFICES ASSUME T # {} PROVE FALSE
  OBVIOUS
<1>1. PICK x \in T : \A y \in T : x <= y
  BY LeastOf
<1>2. x \in Nat /\ x # 0
  OBVIOUS
<1>3. x - 1 \in Nat /\ (x - 1) + 1 \in T
  BY <1>2
<1>4. QED
  BY <1>1, <1>3
---------------------------------------------------------------------------
(* The recursive functions of Merkle exist: each is built turn by turn.    *)
LEMMA LevelsRun ==
  ASSUME NEW leaves, Len(leaves) \in Nat
  PROVE  LET run == Levels(leaves) IN
         /\ run[0] = leaves
         /\ \A n \in 1..Len(leaves) : run[n] = RootTurn(run[n - 1])
<1> DEFINE Start == leaves
           Runs(n, g) == g = [k \in 0..n |-> IF k = 0 THEN Start ELSE RootTurn(g[k - 1])]
           T == {n \in Nat : ~\E g : Runs(n, g)}
<1> HIDE DEF Start
<1>1. 0 \notin T
  <2>1. Runs(0, [k \in 0..0 |-> Start])
    OBVIOUS
  <2>2. QED
    BY <2>1
<1>2. ASSUME NEW n \in Nat, n \notin T
      PROVE  n + 1 \notin T
  <2>1. PICK g : Runs(n, g)
    BY <1>2
  <2> DEFINE h == [k \in 0..(n + 1) |-> IF k = n + 1 THEN RootTurn(g[n]) ELSE g[k]]
  <2>2. \A k \in 0..(n + 1) : h[k] = IF k = 0 THEN Start ELSE RootTurn(h[k - 1])
    <3> SUFFICES ASSUME NEW k \in 0..(n + 1)
                 PROVE  h[k] = IF k = 0 THEN Start ELSE RootTurn(h[k - 1])
      OBVIOUS
    <3>1. CASE k = 0
      BY <2>1, <3>1
    <3>2. CASE k = n + 1
      BY <3>2
    <3>3. CASE k \in 1..n
      <4>1. h[k] = g[k] /\ h[k - 1] = g[k - 1]
        BY <3>3
      <4>2. g[k] = RootTurn(g[k - 1])
        BY <2>1, <3>3
      <4>3. QED
        BY <3>3, <4>1, <4>2
    <3>4. QED
      BY <3>1, <3>2, <3>3
  <2>3. Runs(n + 1, h)
    BY <2>2
  <2>4. QED
    BY <2>3
<1>3. Len(leaves) \notin T
  BY <1>1, <1>2, NoneFails
<1>4. Runs(Len(leaves), Levels(leaves))
  BY <1>3 DEF Levels, Start
<1>5. PICK f : f = Levels(leaves)
  OBVIOUS
<1>6. Runs(Len(leaves), f)
  BY <1>4, <1>5
<1>7. f[0] = Start /\ \A n \in 1..Len(leaves) : f[n] = RootTurn(f[n - 1])
  BY <1>6
<1>8. QED
  BY <1>5, <1>7 DEF Start

LEMMA ProofTurnsRun ==
  ASSUME NEW leaves, Len(leaves) \in Nat, NEW index
  PROVE  LET run == ProofTurns(leaves, index) IN
         /\ run[0] = [level |-> leaves, idx |-> index, path |-> <<>>]
         /\ \A n \in 1..Len(leaves) : run[n] = ProofTurn(run[n - 1])
<1> DEFINE Start == [level |-> leaves, idx |-> index, path |-> <<>>]
           Runs(n, g) == g = [k \in 0..n |-> IF k = 0 THEN Start ELSE ProofTurn(g[k - 1])]
           T == {n \in Nat : ~\E g : Runs(n, g)}
<1> HIDE DEF Start
<1>1. 0 \notin T
  <2>1. Runs(0, [k \in 0..0 |-> Start])
    OBVIOUS
  <2>2. QED
    BY <2>1
<1>2. ASSUME NEW n \in Nat, n \notin T
      PROVE  n + 1 \notin T
  <2>1. PICK g : Runs(n, g)
    BY <1>2
  <2> DEFINE h == [k \in 0..(n + 1) |-> IF k = n + 1 THEN ProofTurn(g[n]) ELSE g[k]]
  <2>2. \A k \in 0..(n + 1) : h[k] = IF k = 0 THEN Start ELSE ProofTurn(h[k - 1])
    <3> SUFFICES ASSUME NEW k \in 0..(n + 1)
                 PROVE  h[k] = IF k = 0 THEN Start ELSE ProofTurn(h[k - 1])
      OBVIOUS
    <3>1. CASE k = 0
      BY <2>1, <3>1
    <3>2. CASE k = n + 1
      BY <3>2
    <3>3. CASE k \in 1..n
      <4>1. h[k] = g[k] /\ h[k - 1] = g[k - 1]
        BY <3>3
      <4>2. g[k] = ProofTurn(g[k - 1])
        BY <2>1, <3>3
      <4>3. QED
        BY <3>3, <4>1, <4>2
    <3>4. QED
      BY <3>1, <3>2, <3>3
  <2>3. Runs(n + 1, h)
    BY <2>2
  <2>4. QED
    BY <2>3
<1>3. Len(leaves) \notin T
  BY <1>1, <1>2, NoneFails
<1>4. Runs(Len(leaves), ProofTurns(leaves, index))
  BY <1>3 DEF ProofTurns, Start
<1>5. PICK f : f = ProofTurns(leaves, index)
  OBVIOUS
<1>6. Runs(Len(leaves), f)
  BY <1>4, <1>5
<1>7. f[0] = Start /\ \A n \in 1..Len(leaves) : f[n] = ProofTurn(f[n - 1])
  BY <1>6
<1>8. QED
  BY <1>5, <1>7 DEF Start

LEMMA VerifyTurnsRun ==
  ASSUME NEW leaf, NEW index, NEW total \in Nat, NEW path
  PROVE  LET run == VerifyTurns(leaf, index, total, path) IN
         /\ run[0] = [hash |-> leaf, idx |-> index, width |-> total, p |-> 0, short |-> FALSE]
         /\ \A n \in 1..total : run[n] = VerifyTurn(run[n - 1], path)
<1> DEFINE Start == [hash |-> leaf, idx |-> index, width |-> total, p |-> 0, short |-> FALSE]
           Runs(n, g) == g = [k \in 0..n |-> IF k = 0 THEN Start ELSE VerifyTurn(g[k - 1], path)]
           T == {n \in Nat : ~\E g : Runs(n, g)}
<1> HIDE DEF Start
<1>1. 0 \notin T
  <2>1. Runs(0, [k \in 0..0 |-> Start])
    OBVIOUS
  <2>2. QED
    BY <2>1
<1>2. ASSUME NEW n \in Nat, n \notin T
      PROVE  n + 1 \notin T
  <2>1. PICK g : Runs(n, g)
    BY <1>2
  <2> DEFINE h == [k \in 0..(n + 1) |-> IF k = n + 1 THEN VerifyTurn(g[n], path) ELSE g[k]]
  <2>2. \A k \in 0..(n + 1) : h[k] = IF k = 0 THEN Start ELSE VerifyTurn(h[k - 1], path)
    <3> SUFFICES ASSUME NEW k \in 0..(n + 1)
                 PROVE  h[k] = IF k = 0 THEN Start ELSE VerifyTurn(h[k - 1], path)
      OBVIOUS
    <3>1. CASE k = 0
      BY <2>1, <3>1
    <3>2. CASE k = n + 1
      BY <3>2
    <3>3. CASE k \in 1..n
      <4>1. h[k] = g[k] /\ h[k - 1] = g[k - 1]
        BY <3>3
      <4>2. g[k] = VerifyTurn(g[k - 1], path)
        BY <2>1, <3>3
      <4>3. QED
        BY <3>3, <4>1, <4>2
    <3>4. QED
      BY <3>1, <3>2, <3>3
  <2>3. Runs(n + 1, h)
    BY <2>2
  <2>4. QED
    BY <2>3
<1>3. total \notin T
  BY <1>1, <1>2, NoneFails
<1>4. Runs(total, VerifyTurns(leaf, index, total, path))
  BY <1>3 DEF VerifyTurns, Start
<1>5. PICK f : f = VerifyTurns(leaf, index, total, path)
  OBVIOUS
<1>6. Runs(total, f)
  BY <1>4, <1>5
<1>7. f[0] = Start /\ \A n \in 1..total : f[n] = VerifyTurn(f[n - 1], path)
  BY <1>6
<1>8. QED
  BY <1>5, <1>7 DEF Start

LEMMA PowersRun ==
  ASSUME NEW top \in Nat
  PROVE  LET run == PowersOfTwo(top) IN
         /\ DOMAIN run = 0..top
         /\ run[0] = 1
         /\ \A n \in 1..top : run[n] = 2 * run[n - 1]
<1> DEFINE Start == 1
           Runs(n, g) == g = [k \in 0..n |-> IF k = 0 THEN Start ELSE 2 * g[k - 1]]
           T == {n \in Nat : ~\E g : Runs(n, g)}
<1> HIDE DEF Start
<1>1. 0 \notin T
  <2>1. Runs(0, [k \in 0..0 |-> Start])
    OBVIOUS
  <2>2. QED
    BY <2>1
<1>2. ASSUME NEW n \in Nat, n \notin T
      PROVE  n + 1 \notin T
  <2>1. PICK g : Runs(n, g)
    BY <1>2
  <2> DEFINE h == [k \in 0..(n + 1) |-> IF k = n + 1 THEN 2 * g[n] ELSE g[k]]
  <2>2. \A k \in 0..(n + 1) : h[k] = IF k = 0 THEN Start ELSE 2 * h[k - 1]
    <3> SUFFICES ASSUME NEW k \in 0..(n + 1)
                 PROVE  h[k] = IF k = 0 THEN Start ELSE 2 * h[k - 1]
      OBVIOUS
    <3>1. CASE k = 0
      BY <2>1, <3>1
    <3>2. CASE k = n + 1
      BY <3>2
    <3>3. CASE k \in 1..n
      <4>1. h[k] = g[k] /\ h[k - 1] = g[k - 1]
        BY <3>3
      <4>2. g[k] = 2 * g[k - 1]
        BY <2>1, <3>3
      <4>3. QED
        BY <3>3, <4>1, <4>2
    <3>4. QED
      BY <3>1, <3>2, <3>3
  <2>3. Runs(n + 1, h)
    BY <2>2
  <2>4. QED
    BY <2>3
<1>3. top \notin T
  BY <1>1, <1>2, NoneFails
<1>4. Runs(top, PowersOfTwo(top))
  BY <1>3 DEF PowersOfTwo, Start
<1>5. PICK f : f = PowersOfTwo(top)
  OBVIOUS
<1>6. Runs(top, f)
  BY <1>4, <1>5
<1>7. DOMAIN f = 0..top /\ f[0] = Start /\ \A n \in 1..top : f[n] = 2 * f[n - 1]
  BY <1>6
<1>8. QED
  BY <1>5, <1>7 DEF Start

(* The powers of two, up to the first above the number of leaves at least. *)
LEMMA PowersGrow ==
  ASSUME NEW top \in Nat
  PROVE  \A e \in 0..top : PowersOfTwo(top)[e] \in Nat /\ PowersOfTwo(top)[e] > e
<1> DEFINE T == {e \in Nat : e <= top /\ ~(PowersOfTwo(top)[e] \in Nat /\ PowersOfTwo(top)[e] > e)}
<1>1. PICK p : p = PowersOfTwo(top)
  OBVIOUS
<1>2. p[0] = 1 /\ \A e \in 1..top : p[e] = 2 * p[e - 1]
  BY <1>1, PowersRun
<1>3. 0 \notin T
  BY <1>1, <1>2
<1>4. ASSUME NEW e \in Nat, e + 1 \in T
      PROVE  e \in T
  <2>1. e + 1 <= top /\ ~(p[e + 1] \in Nat /\ p[e + 1] > e + 1)
    BY <1>1, <1>4
  <2>2. p[e + 1] = 2 * p[e]
    BY <1>2, <2>1
  <2>3. ~(p[e] \in Nat /\ p[e] > e)
    BY <2>1, <2>2
  <2>4. QED
    BY <1>1, <2>1, <2>3
<1>5. T = {}
  BY <1>3, <1>4, NoneFails
<1>6. QED
  BY <1>5

LEMMA PowersOrdered ==
  ASSUME NEW top \in Nat, NEW a \in 0..top
  PROVE  \A b \in a..top : PowersOfTwo(top)[a] <= PowersOfTwo(top)[b]
<1> DEFINE T == {d \in Nat : a + d <= top /\ ~(PowersOfTwo(top)[a] <= PowersOfTwo(top)[a + d])}
<1>1. PICK p : p = PowersOfTwo(top)
  OBVIOUS
<1>2. \A e \in 1..top : p[e] = 2 * p[e - 1]
  BY <1>1, PowersRun
<1>3. \A e \in 0..top : p[e] \in Nat
  BY <1>1, PowersGrow
<1>4. 0 \notin T
  BY <1>1, <1>3
<1>5. ASSUME NEW d \in Nat, d + 1 \in T
      PROVE  d \in T
  <2>1. a + (d + 1) <= top /\ ~(p[a] <= p[a + (d + 1)])
    BY <1>1, <1>5
  <2>2. p[a + (d + 1)] = 2 * p[a + d]
    BY <1>2, <2>1
  <2>3. p[a] \in Nat /\ p[a + d] \in Nat /\ a + d <= top
    BY <1>3, <2>1
  <2>4. ~(p[a] <= p[a + d])
    BY <2>1, <2>2, <2>3
  <2>5. QED
    BY <1>1, <2>3, <2>4
<1>6. T = {}
  BY <1>4, <1>5, NoneFails
<1>7. ASSUME NEW b \in a..top
      PROVE  p[a] <= p[b]
  <2>1. b - a \in Nat /\ a + (b - a) = b /\ b <= top
    OBVIOUS
  <2>2. PICK d \in Nat : a + d = b
    BY <2>1
  <2>3. d \notin T
    BY <1>6
  <2>4. ~(a + d <= top /\ ~(p[a] <= p[a + d]))
    BY <1>1, <2>3
  <2>5. QED
    BY <2>1, <2>2, <2>4
<1>8. QED
  BY <1>1, <1>7

(* The split point exists, and there is only one.                          *)
LEMMA SplitIsPower ==
  ASSUME NEW top \in Nat, NEW n \in 2..top
  PROVE  \E e \in 0..top : PowersOfTwo(top)[e] < n /\ n <= 2 * PowersOfTwo(top)[e]
<1> DEFINE T == {e \in Nat : e <= top /\ n <= 2 * PowersOfTwo(top)[e]}
<1>1. PICK p : p = PowersOfTwo(top)
  OBVIOUS
<1>2. p[0] = 1 /\ \A e \in 1..top : p[e] = 2 * p[e - 1]
  BY <1>1, PowersRun
<1>3. \A e \in 0..top : p[e] \in Nat /\ p[e] > e
  BY <1>1, PowersGrow
<1>4. top \in T
  <2>1. p[top] \in Nat /\ p[top] > top
    BY <1>3
  <2>2. QED
    BY <1>1, <2>1
<1>5. PICK e \in T : \A d \in T : e <= d
  BY <1>4, LeastOf
<1>6. e \in 0..top /\ n <= 2 * p[e]
  BY <1>1, <1>5
<1>7. CASE e = 0
  BY <1>1, <1>2, <1>6, <1>7
<1>8. CASE e # 0
  <2>1. e - 1 \in Nat /\ e - 1 <= top /\ e - 1 \notin T
    BY <1>5, <1>6, <1>8
  <2>2. ~(n <= 2 * p[e - 1]) /\ p[e - 1] \in Nat
    BY <1>1, <1>3, <2>1
  <2>3. p[e] < n
    BY <1>2, <1>6, <1>8, <2>2
  <2>4. QED
    BY <1>1, <1>6, <2>3
<1>9. QED
  BY <1>7, <1>8

LEMMA SplitUnique ==
  ASSUME NEW top \in Nat, NEW n \in Nat, NEW a \in 0..top, NEW b \in 0..top,
         PowersOfTwo(top)[a] < n, n <= 2 * PowersOfTwo(top)[a],
         PowersOfTwo(top)[b] < n, n <= 2 * PowersOfTwo(top)[b]
  PROVE  PowersOfTwo(top)[a] = PowersOfTwo(top)[b]
<1>1. PICK p : p = PowersOfTwo(top)
  OBVIOUS
<1>2. \A e \in 1..top : p[e] = 2 * p[e - 1]
  BY <1>1, PowersRun
<1>3. \A e \in 0..top : p[e] \in Nat
  BY <1>1, PowersGrow
<1>4. ASSUME NEW c \in 0..top, NEW d \in 0..top, p[d] < n, n <= 2 * p[c]
      PROVE  ~(c < d)
  <2> SUFFICES ASSUME c < d PROVE FALSE
    OBVIOUS
  <2>1. p[c + 1] = 2 * p[c]
    BY <1>2
  <2>2. p[c + 1] <= p[d]
    BY <1>1, PowersOrdered
  <2>3. QED
    BY <1>3, <1>4, <2>1, <2>2
<1>5. a = b
  BY <1>1, <1>4
<1>6. QED
  BY <1>5

LEMMA SplitAtIs ==
  ASSUME NEW top \in Nat, NEW n \in Nat, NEW e \in 0..top,
         PowersOfTwo(top)[e] < n, n <= 2 * PowersOfTwo(top)[e]
  PROVE  SplitAt(n, PowersOfTwo(top)) = PowersOfTwo(top)[e]
<1>1. PICK p : p = PowersOfTwo(top)
  OBVIOUS
<1>2. DOMAIN p = 0..top
  BY <1>1, PowersRun
<1> DEFINE S == {p[d] : d \in DOMAIN p}
           k == CHOOSE k \in S : k < n /\ n <= 2 * k
<1>3. p[e] \in S /\ p[e] < n /\ n <= 2 * p[e]
  BY <1>1, <1>2
<1>4. k \in S /\ k < n /\ n <= 2 * k
  BY <1>3
<1>5. PICK d \in 0..top : k = p[d]
  BY <1>2, <1>4
<1> HIDE DEF k
<1>6. k = p[e]
  BY <1>1, <1>3, <1>4, <1>5, SplitUnique
<1>7. QED
  BY <1>1, <1>6 DEF SplitAt, k

LEMMA SplitInside ==
  ASSUME NEW top \in Nat, NEW n \in 2..top
  PROVE  SplitAt(n, PowersOfTwo(top)) \in 1..(n - 1)
<1>1. PICK e \in 0..top : PowersOfTwo(top)[e] < n /\ n <= 2 * PowersOfTwo(top)[e]
  BY SplitIsPower
<1>2. SplitAt(n, PowersOfTwo(top)) = PowersOfTwo(top)[e]
  BY <1>1, SplitAtIs
<1>3. PowersOfTwo(top)[e] \in Nat /\ PowersOfTwo(top)[e] > e
  BY PowersGrow
<1>4. QED
  BY <1>1, <1>2, <1>3

LEMMA SegmentsRun ==
  ASSUME NEW leaves, Len(leaves) \in Nat
  PROVE  LET top      == Len(leaves)
             hash     == SegmentHashes(leaves)
             Split(n) == SplitAt(n, PowersOfTwo(top))
         IN  \A n \in 1..top : \A i \in 1..(top - n + 1) :
               hash[n][i] = IF n = 1 THEN leaves[i]
                            ELSE Node(hash[Split(n)][i], hash[n - Split(n)][i + Split(n)])
<1> DEFINE top        == Len(leaves)
           Split(n)   == SplitAt(n, PowersOfTwo(top))
           HashRow(n, g) == [i \in 1..(top - n + 1) |->
                            IF n = 1 THEN leaves[i]
                            ELSE Node(g[Split(n)][i], g[n - Split(n)][i + Split(n)])]
           Runs(m, g) == g = [n \in 1..m |-> HashRow(n, g)]
           T == {m \in Nat : m <= top /\ ~\E g : Runs(m, g)}
<1>1. \A n \in 2..top : Split(n) \in 1..(n - 1)
  BY SplitInside
<1> HIDE DEF Split
<1>2. 0 \notin T
  <2>1. Runs(0, [n \in 1..0 |-> leaves])
    OBVIOUS
  <2>2. QED
    BY <2>1
<1>3. ASSUME NEW m \in Nat, m + 1 \in T
      PROVE  m \in T
  <2> SUFFICES ASSUME NEW g, Runs(m, g)
               PROVE  FALSE
    BY <1>3
  <2> DEFINE h == [n \in 1..(m + 1) |-> IF n = m + 1 THEN HashRow(n, g) ELSE g[n]]
  <2>1. m + 1 <= top
    BY <1>3
  <2>2. \A n \in 1..m : h[n] = g[n]
    OBVIOUS
  <2>3. ASSUME NEW n \in 1..(m + 1)
        PROVE  HashRow(n, h) = HashRow(n, g)
    <3>1. CASE n = 1
      BY <3>1
    <3>2. CASE n # 1
      <4>1. Split(n) \in 1..(n - 1)
        BY <1>1, <2>1, <3>2
      <4>2. Split(n) \in 1..m /\ n - Split(n) \in 1..m
        BY <4>1
      <4>3. h[Split(n)] = g[Split(n)] /\ h[n - Split(n)] = g[n - Split(n)]
        BY <2>2, <4>2
      <4> HIDE DEF h
      <4>4. QED
        BY <4>3
    <3>3. QED
      BY <3>1, <3>2
  <2>4. ASSUME NEW n \in 1..(m + 1)
        PROVE  h[n] = HashRow(n, g)
    <3> HIDE DEF HashRow
    <3>1. CASE n = m + 1
      BY <3>1
    <3>2. CASE n \in 1..m
      BY <2>2, <3>2
    <3>3. QED
      BY <3>1, <3>2
  <2>5. Runs(m + 1, h)
    <3>1. \A n \in 1..(m + 1) : h[n] = HashRow(n, h)
      <4> HIDE DEF HashRow, h
      <4>1. QED
        BY <2>3, <2>4
    <3>2. h = [n \in 1..(m + 1) |-> h[n]]
      OBVIOUS
    <3> HIDE DEF HashRow, h
    <3>3. QED
      BY <3>1, <3>2
  <2>6. QED
    BY <1>3, <2>5
<1>4. T = {}
  BY <1>2, <1>3, NoneFails
<1>5. \E g : Runs(top, g)
  <2>1. top \notin T
    BY <1>4
  <2> HIDE DEF Runs
  <2>2. QED
    BY <2>1
<1>6. Runs(top, SegmentHashes(leaves))
  BY <1>5 DEF SegmentHashes, Split
<1>7. PICK hash : hash = SegmentHashes(leaves)
  OBVIOUS
<1>8. Runs(top, hash)
  <2> HIDE DEF Runs
  <2>1. QED
    BY <1>6, <1>7
<1>9. \A n \in 1..top : hash[n] = HashRow(n, hash)
  <2> HIDE DEF HashRow
  <2>1. QED
    BY <1>8
<1>10. ASSUME NEW n \in 1..top, NEW i \in 1..(top - n + 1)
       PROVE  hash[n][i] = IF n = 1 THEN leaves[i]
                           ELSE Node(hash[Split(n)][i], hash[n - Split(n)][i + Split(n)])
  <2>1. PICK f : f = hash[n]
    OBVIOUS
  <2>2. f = HashRow(n, hash)
    BY <1>9, <2>1
  <2>3. f[i] = IF n = 1 THEN leaves[i]
               ELSE Node(hash[Split(n)][i], hash[n - Split(n)][i + Split(n)])
    BY <2>2
  <2>4. QED
    BY <2>1, <2>3
<1>11. QED
  BY <1>7, <1>10 DEF Split
---------------------------------------------------------------------------
(* The levels of a tree.                                                   *)
LEMMA ListLen ==
  ASSUME NEW n \in Nat, NEW f, f = [i \in 1..n |-> f[i]]
  PROVE  Len(f) = n /\ DOMAIN f = 1..n
<1> DEFINE S == {f[i] : i \in 1..n}
<1>1. f \in [1..n -> S]
  OBVIOUS
<1> HIDE DEF S
<1>2. f \in Seq(S)
  BY <1>1, IsASeq
<1>3. DOMAIN f = 1..n
  BY <1>1
<1>4. QED
  BY <1>2, <1>3, LenProperties

LEMMA CeilHalf ==
  ASSUME NEW w \in Nat
  PROVE  Ceil2(w) \in Nat /\ (2 * Ceil2(w) = w \/ 2 * Ceil2(w) = w + 1)
BY DEF Ceil2

LEMMA LevelUpIs ==
  ASSUME NEW level, Len(level) \in Nat
  PROVE  /\ Len(LevelUp(level)) = Ceil2(Len(level))
         /\ DOMAIN LevelUp(level) = 1..Ceil2(Len(level))
         /\ \A i \in 1..Ceil2(Len(level)) :
              LevelUp(level)[i] = IF 2 * i <= Len(level) THEN Node(level[2 * i - 1], level[2 * i])
                                  ELSE level[2 * i - 1]
<1>1. Ceil2(Len(level)) \in Nat
  BY CeilHalf
<1>2. PICK c \in Nat : c = Ceil2(Len(level))
  BY <1>1
<1>3. PICK f : f = LevelUp(level)
  OBVIOUS
<1>4. f = [i \in 1..c |-> IF 2 * i <= Len(level) THEN Node(level[2 * i - 1], level[2 * i])
                         ELSE level[2 * i - 1]]
  BY <1>2, <1>3 DEF LevelUp
<1>5. f = [i \in 1..c |-> f[i]]
  BY <1>4
<1>6. Len(f) = c /\ DOMAIN f = 1..c
  BY <1>5, ListLen
<1>7. QED
  BY <1>2, <1>3, <1>4, <1>6

(* A turn of the loops of merkleRoot and merkleProof, on levels.           *)
LEMMA RootTurnIs ==
  ASSUME NEW level, Len(level) \in Nat, Len(level) >= 1
  PROVE  /\ Len(RootTurn(level)) = Ceil2(Len(level)) /\ Len(RootTurn(level)) >= 1
         /\ Len(level) = 1 => RootTurn(level) = level
         /\ Len(level) > 1 =>
              \A i \in 1..Len(RootTurn(level)) :
                RootTurn(level)[i] =
                  IF 2 * i <= Len(level) THEN Node(level[2 * i - 1], level[2 * i])
                  ELSE level[2 * i - 1]
<1>1. Ceil2(Len(level)) \in Nat /\ Ceil2(Len(level)) >= 1
  BY CeilHalf
<1>2. CASE Len(level) = 1
  <2>1. RootTurn(level) = level
    BY <1>2 DEF RootTurn
  <2>2. Ceil2(Len(level)) = 1
    BY <1>2 DEF Ceil2
  <2>3. ~(Len(level) > 1)
    BY <1>2
  <2>4. Len(RootTurn(level)) = 1
    BY <1>2, <2>1
  <2>5. Len(RootTurn(level)) = Ceil2(Len(level)) /\ Len(RootTurn(level)) >= 1
    BY <2>2, <2>4
  <2>6. Len(level) > 1 =>
          \A i \in 1..Len(RootTurn(level)) :
            RootTurn(level)[i] =
              IF 2 * i <= Len(level) THEN Node(level[2 * i - 1], level[2 * i])
              ELSE level[2 * i - 1]
    BY <2>3
  <2>7. QED
    BY <2>1, <2>5, <2>6
<1>3. CASE Len(level) > 1
  <2>1. RootTurn(level) = LevelUp(level)
    BY <1>3 DEF RootTurn
  <2>2. QED
    BY <1>1, <1>3, <2>1, LevelUpIs
<1>4. Len(level) = 1 \/ Len(level) > 1
  OBVIOUS
<1>5. QED
  BY <1>2, <1>3, <1>4

(* Every level has an entry, and the last one only one.                    *)
LEMMA WidthsShrink ==
  ASSUME NEW leaves, Len(leaves) \in Nat, Len(leaves) >= 1
  PROVE  \A n \in 0..Len(leaves) :
           /\ Len(Levels(leaves)[n]) \in Nat /\ Len(Levels(leaves)[n]) >= 1
           /\ n > 0 => Len(Levels(leaves)[n]) = Ceil2(Len(Levels(leaves)[n - 1]))
<1> DEFINE N == Len(leaves)
<1>1. PICK L : L = Levels(leaves)
  OBVIOUS
<1>2. L[0] = leaves /\ \A n \in 1..N : L[n] = RootTurn(L[n - 1])
  BY <1>1, LevelsRun
<1> DEFINE T == {n \in Nat : n <= N /\ ~(Len(L[n]) \in Nat /\ Len(L[n]) >= 1)}
<1>3. 0 \notin T
  BY <1>2
<1>4. ASSUME NEW n \in Nat, n + 1 \in T
      PROVE  n \in T
  <2>1. n + 1 \in 1..N /\ (n + 1) - 1 = n
    BY <1>4
  <2>2. L[n + 1] = RootTurn(L[n])
    BY <1>2, <2>1
  <2> SUFFICES ASSUME Len(L[n]) \in Nat, Len(L[n]) >= 1
               PROVE  FALSE
    BY <2>1
  <2>3. Len(RootTurn(L[n])) = Ceil2(Len(L[n])) /\ Len(RootTurn(L[n])) >= 1
    BY RootTurnIs
  <2>4. Ceil2(Len(L[n])) \in Nat
    BY CeilHalf
  <2>5. QED
    BY <1>4, <2>2, <2>3, <2>4
<1>5. T = {}
  BY <1>3, <1>4, NoneFails
<1>6. \A n \in 0..N : Len(L[n]) \in Nat /\ Len(L[n]) >= 1
  BY <1>5
<1>7. ASSUME NEW n \in 1..N
      PROVE  Len(L[n]) = Ceil2(Len(L[n - 1]))
  <2>1. Len(L[n - 1]) \in Nat /\ Len(L[n - 1]) >= 1
    BY <1>6
  <2>2. Len(RootTurn(L[n - 1])) = Ceil2(Len(L[n - 1]))
    BY <2>1, RootTurnIs
  <2>3. QED
    BY <1>2, <2>2
<1>8. QED
  BY <1>1, <1>6, <1>7

(* There are turns enough: after n of them an entry stands for 2^n leaves  *)
(* but the last one, which stands for what is left.                        *)
LEMMA WidthsCover ==
  ASSUME NEW leaves, Len(leaves) \in Nat, Len(leaves) >= 1
  PROVE  \A n \in 0..Len(leaves) :
           LET w == Len(Levels(leaves)[n])
               d == PowersOfTwo(Len(leaves))[n]
           IN  (w - 1) * d < Len(leaves) /\ Len(leaves) <= w * d
<1> DEFINE N == Len(leaves)
<1>1. PICK L : L = Levels(leaves)
  OBVIOUS
<1>2. PICK p : p = PowersOfTwo(N)
  OBVIOUS
<1>3. L[0] = leaves /\ \A n \in 0..N : Len(L[n]) \in Nat /\ Len(L[n]) >= 1
  BY <1>1, LevelsRun, WidthsShrink
<1>4. \A n \in 1..N : Len(L[n]) = Ceil2(Len(L[n - 1]))
  BY <1>1, WidthsShrink
<1>5. p[0] = 1 /\ (\A n \in 0..N : p[n] \in Nat) /\ \A n \in 1..N : p[n] = 2 * p[n - 1]
  BY <1>2, PowersRun, PowersGrow
<1> DEFINE T == {n \in Nat : n <= N /\ ~((Len(L[n]) - 1) * p[n] < N /\ N <= Len(L[n]) * p[n])}
<1>6. 0 \notin T
  BY <1>3, <1>5
<1>7. ASSUME NEW n \in Nat, n + 1 \in T
      PROVE  n \in T
  <2> SUFFICES ASSUME (Len(L[n]) - 1) * p[n] < N, N <= Len(L[n]) * p[n]
               PROVE  FALSE
    BY <1>7
  <2>1. n + 1 \in 1..N /\ n \in 0..N
    BY <1>7
  <2>2. PICK w \in Nat : w = Len(L[n])
    BY <1>3, <2>1
  <2>3. PICK d \in Nat : d = p[n]
    BY <1>5, <2>1
  <2>4. PICK c \in Nat : c = Ceil2(w)
    BY CeilHalf
  <2>5. Len(L[n + 1]) = c /\ p[n + 1] = 2 * d
    BY <1>4, <1>5, <2>1, <2>2, <2>3, <2>4
  <2>6. 2 * c = w \/ 2 * c = w + 1
    BY <2>4, CeilHalf
  <2>7. (w - 1) * d < N /\ N <= w * d
    BY <2>2, <2>3
  <2>8. (c - 1) * (2 * d) < N
    <3>1. (c - 1) * (2 * d) = (2 * c - 2) * d
      OBVIOUS
    <3>2. CASE 2 * c = w
      <4>1. (c - 1) * (2 * d) = (w - 1) * d - d
        BY <3>1, <3>2
      <4>2. (w - 1) * d \in Int
        OBVIOUS
      <4>3. QED
        BY <2>7, <4>1, <4>2
    <3>3. CASE 2 * c = w + 1
      BY <2>7, <3>1, <3>3
    <3>4. QED
      BY <2>6, <3>2, <3>3
  <2>9. N <= c * (2 * d)
    <3>1. c * (2 * d) = (2 * c) * d
      OBVIOUS
    <3>2. CASE 2 * c = w
      BY <2>7, <3>1, <3>2
    <3>3. CASE 2 * c = w + 1
      <4>1. c * (2 * d) = w * d + d
        BY <3>1, <3>3
      <4>2. w * d \in Int
        OBVIOUS
      <4>3. QED
        BY <2>7, <4>1, <4>2
    <3>4. QED
      BY <2>6, <3>2, <3>3
  <2>10. QED
    BY <1>7, <2>5, <2>8, <2>9
<1>8. T = {}
  BY <1>6, <1>7, NoneFails
<1>9. ASSUME NEW n \in 0..N
      PROVE  (Len(L[n]) - 1) * p[n] < N /\ N <= Len(L[n]) * p[n]
  BY <1>8
<1>10. QED
  BY <1>1, <1>2, <1>9

LEMMA LastWidth ==
  ASSUME NEW leaves, Len(leaves) \in Nat, Len(leaves) >= 1
  PROVE  Len(Levels(leaves)[Len(leaves)]) = 1
<1> DEFINE N == Len(leaves)
<1>1. N \in 0..N
  OBVIOUS
<1>2. PICK w \in Nat : w = Len(Levels(leaves)[N]) /\ w >= 1
  BY <1>1, WidthsShrink
<1>3. PICK d \in Nat : d = PowersOfTwo(N)[N] /\ d > N
  BY <1>1, PowersGrow
<1>4. (w - 1) * d < N
  BY <1>1, <1>2, <1>3, WidthsCover
<1>5. ~(w >= 2)
  <2> SUFFICES ASSUME w >= 2 PROVE FALSE
    OBVIOUS
  <2>1. PICK e \in Nat : w = e + 2
    <3>1. w - 2 \in Nat /\ w = (w - 2) + 2
      OBVIOUS
    <3>2. QED
      BY <3>1
  <2>2. (w - 1) * d = e * d + d
    BY <2>1
  <2>3. e * d \in Nat
    OBVIOUS
  <2>4. QED
    BY <1>3, <1>4, <2>2, <2>3
<1>6. w < 2
  BY <1>5
<1>7. w >= 1
  BY <1>2
<1>8. w = 1
  BY <1>6, <1>7
<1>9. QED
  BY <1>2, <1>8
---------------------------------------------------------------------------
(* merkleRoot is the tree of RFC 6962: entry i of the level after n turns  *)
(* is the hash of the i-th run of 2^n leaves, or of what is left of them.  *)
LEMMA PairIsSegment ==
  ASSUME NEW leaves, Len(leaves) \in Nat, NEW e \in 0..Len(leaves), NEW m \in Nat, NEW s \in Nat,
         NEW d, d = PowersOfTwo(Len(leaves))[e],
         m >= 1, m <= d, s >= 1, s + d + m - 1 <= Len(leaves)
  PROVE  SegmentHashes(leaves)[d + m][s] =
           Node(SegmentHashes(leaves)[d][s], SegmentHashes(leaves)[m][s + d])
<1> DEFINE N == Len(leaves)
<1>1. PICK h : h = SegmentHashes(leaves)
  OBVIOUS
<1>2. d \in Nat /\ d >= 1
  BY PowersGrow
<1>3. d < d + m /\ d + m <= 2 * d /\ d + m \in Nat
  BY <1>2
<1>4. SplitAt(d + m, PowersOfTwo(N)) = d
  BY <1>3, SplitAtIs
<1>5. d + m \in 1..N /\ s \in 1..(N - (d + m) + 1) /\ d + m # 1
  BY <1>2
<1>6. (d + m) - d = m
  BY <1>2
<1>7. h[d + m][s] = Node(h[SplitAt(d + m, PowersOfTwo(N))][s],
                         h[(d + m) - SplitAt(d + m, PowersOfTwo(N))][s + SplitAt(d + m, PowersOfTwo(N))])
  BY <1>1, <1>5, SegmentsRun
<1>8. h[d + m][s] = Node(h[d][s], h[(d + m) - d][s + d])
  BY <1>4, <1>7
<1>9. QED
  BY <1>1, <1>6, <1>8

(* What entry i of a level of w entries stands for, d leaves each.         *)
Part(leaves, w, d, i) == IF i = w THEN Len(leaves) - (w - 1) * d ELSE d

LevelIsSegments(leaves, n) ==
  LET w == Len(Levels(leaves)[n])
      d == PowersOfTwo(Len(leaves))[n]
  IN  \A i \in 1..w :
        Levels(leaves)[n][i] = SegmentHashes(leaves)[Part(leaves, w, d, i)][(i - 1) * d + 1]

LEMMA LevelStart ==
  ASSUME NEW leaves, Len(leaves) \in Nat, Len(leaves) >= 1
  PROVE  LevelIsSegments(leaves, 0)
<1> DEFINE N == Len(leaves)
<1>1. Levels(leaves)[0] = leaves /\ PowersOfTwo(N)[0] = 1
  BY LevelsRun, PowersRun
<1>2. ASSUME NEW i \in 1..N
      PROVE  leaves[i] = SegmentHashes(leaves)[Part(leaves, N, 1, i)][(i - 1) * 1 + 1]
  <2>1. Part(leaves, N, 1, i) = 1
    BY DEF Part
  <2>2. (i - 1) * 1 + 1 = i
    OBVIOUS
  <2>3. 1 \in 1..N /\ i \in 1..(N - 1 + 1)
    OBVIOUS
  <2>4. SegmentHashes(leaves)[1][i] = leaves[i]
    BY <2>3, SegmentsRun
  <2>5. QED
    BY <2>1, <2>2, <2>4
<1>3. QED
  BY <1>1, <1>2 DEF LevelIsSegments

LEMMA LevelStep ==
  ASSUME NEW leaves, Len(leaves) \in Nat, Len(leaves) >= 1,
         NEW n \in 0..(Len(leaves) - 1), LevelIsSegments(leaves, n)
  PROVE  LevelIsSegments(leaves, n + 1)
<1> DEFINE N == Len(leaves)
<1>1. PICK h : h = SegmentHashes(leaves)
  OBVIOUS
<1>2. n \in 0..N /\ n + 1 \in 1..N /\ n + 1 \in 0..N /\ (n + 1) - 1 = n
  OBVIOUS
<1>3. PICK low : low = Levels(leaves)[n]
  OBVIOUS
<1>4. PICK w \in Nat : w = Len(low) /\ w >= 1
  BY <1>2, <1>3, WidthsShrink
<1>5. PICK d \in Nat : d = PowersOfTwo(N)[n] /\ d >= 1
  <2>1. PowersOfTwo(N)[n] \in Nat /\ PowersOfTwo(N)[n] >= 1
    BY <1>2, PowersGrow
  <2>2. QED
    BY <2>1
<1>6. PowersOfTwo(N)[n + 1] = 2 * d
  BY <1>2, <1>5, PowersRun
<1>7. (w - 1) * d < N /\ N <= w * d
  BY <1>2, <1>3, <1>4, <1>5, WidthsCover
<1>8. \A i \in 1..w : low[i] = h[Part(leaves, w, d, i)][(i - 1) * d + 1]
  BY <1>1, <1>3, <1>4, <1>5 DEF LevelIsSegments
<1>9. PICK up : up = Levels(leaves)[n + 1]
  OBVIOUS
<1>10. up = RootTurn(low)
  BY <1>2, <1>3, <1>9, LevelsRun
<1>11. PICK c \in Nat : c = Ceil2(w) /\ (2 * c = w \/ 2 * c = w + 1)
  BY CeilHalf
<1>12. Len(up) = c
  BY <1>4, <1>10, <1>11, RootTurnIs
<1>13. ASSUME NEW m \in Nat, NEW s \in Nat, m >= 1, m <= d, s >= 1, s + d + m - 1 <= N
       PROVE  h[d + m][s] = Node(h[d][s], h[m][s + d])
  <2>1. PICK x : x = PowersOfTwo(N)[n]
    OBVIOUS
  <2>2. x = d
    BY <1>5, <2>1
  <2>3. m <= x /\ s + x + m - 1 <= N
    BY <1>13, <2>2
  <2>4. SegmentHashes(leaves)[x + m][s] =
          Node(SegmentHashes(leaves)[x][s], SegmentHashes(leaves)[m][s + x])
    BY <1>2, <1>13, <2>1, <2>3, PairIsSegment
  <2>5. QED
    BY <1>1, <2>2, <2>4
<1>14. ASSUME NEW i \in 1..c
       PROVE  up[i] = h[Part(leaves, c, 2 * d, i)][(i - 1) * (2 * d) + 1]
  <2>1. CASE w = 1
    <3>1. c = 1 /\ i = 1
      BY <1>11, <2>1
    <3>2. up = low
      BY <1>4, <1>10, <2>1, RootTurnIs
    <3>3. Part(leaves, 1, d, 1) = N /\ Part(leaves, 1, 2 * d, 1) = N
      BY DEF Part
    <3>4. (1 - 1) * d + 1 = 1 /\ (1 - 1) * (2 * d) + 1 = 1
      OBVIOUS
    <3>5. low[1] = h[N][1]
      BY <1>8, <2>1, <3>3, <3>4
    <3>6. QED
      BY <3>1, <3>2, <3>3, <3>4, <3>5
  <2>2. CASE w > 1
    <3>1. up[i] = IF 2 * i <= w THEN Node(low[2 * i - 1], low[2 * i]) ELSE low[2 * i - 1]
      BY <1>4, <1>10, <1>12, <2>2, RootTurnIs
    <3>2. (i - 1) * (2 * d) = (2 * i - 2) * d
      OBVIOUS
    <3>3. CASE 2 * i <= w
      <4> DEFINE s == (2 * i - 2) * d + 1
      <4>1. (2 * i - 2) * d \in Nat
        <5>1. 2 * i - 2 \in Nat
          OBVIOUS
        <5>2. \A a \in Nat : a * d \in Nat
          OBVIOUS
        <5>3. QED
          BY <5>1, <5>2
      <4>2. s \in Nat /\ s >= 1
        BY <4>1
      <4>3. ((2 * i - 1) - 1) * d = (2 * i - 2) * d
        OBVIOUS
      <4>4. (2 * i - 1) * d = (2 * i - 2) * d + d
        OBVIOUS
      <4>5. low[2 * i - 1] = h[d][s]
        <5>1. 2 * i - 1 \in 1..w /\ 2 * i - 1 # w
          BY <3>3
        <5>2. Part(leaves, w, d, 2 * i - 1) = d
          BY <5>1 DEF Part
        <5>3. QED
          BY <1>8, <5>1, <5>2, <4>3
      <4>6. PICK m : m = Part(leaves, w, d, 2 * i)
        OBVIOUS
      <4>7. low[2 * i] = h[m][s + d]
        <5>1. 2 * i \in 1..w
          BY <3>3
        <5>2. low[2 * i] = h[m][(2 * i - 1) * d + 1]
          BY <1>8, <5>1, <4>6
        <5>3. (2 * i - 1) * d + 1 = s + d
          BY <4>1, <4>4
        <5>4. QED
          BY <5>2, <5>3
      <4>8. CASE 2 * i = w
        <5>1. i = c
          BY <1>11, <4>8
        <5>2. (w - 1) * d = (2 * i - 2) * d + d
          BY <4>4, <4>8
        <5>3. w * d = (w - 1) * d + d
          OBVIOUS
        <5>4. m = N - (w - 1) * d
          BY <4>6, <4>8 DEF Part
        <5>5. m \in Nat /\ 1 <= m /\ m <= d
          <6>1. (w - 1) * d \in Int
            OBVIOUS
          <6>2. QED
            BY <1>7, <5>3, <5>4, <6>1
        <5>6. s + d + m - 1 = N
          BY <4>1, <5>2, <5>4
        <5>7. h[d + m][s] = Node(h[d][s], h[m][s + d])
          <6>1. s + d + m - 1 <= N
            BY <5>6
          <6>2. QED
            BY <1>13, <4>2, <5>5, <6>1
        <5>8. Part(leaves, c, 2 * d, i) = N - (2 * i - 2) * d
          BY <3>2, <5>1 DEF Part
        <5>9. N - (2 * i - 2) * d = d + m
          BY <4>1, <5>2, <5>4
        <5>10. QED
          BY <3>1, <3>2, <3>3, <4>5, <4>7, <5>7, <5>8, <5>9
      <4>9. CASE 2 * i < w
        <5>1. i # c
          BY <1>11, <4>9
        <5>2. m = d
          BY <4>6, <4>9 DEF Part
        <5>3. Part(leaves, c, 2 * d, i) = 2 * d
          BY <5>1 DEF Part
        <5>4. (2 * i) * d = (2 * i - 2) * d + d + d
          OBVIOUS
        <5>5. (2 * i) * d <= (w - 1) * d
          <6>1. (w - 1) - 2 * i \in Nat
            BY <4>9
          <6>2. \A a \in Nat : a * d \in Nat
            OBVIOUS
          <6>3. ((w - 1) - 2 * i) * d \in Nat
            BY <6>1, <6>2
          <6>4. (w - 1) * d = (2 * i) * d + ((w - 1) - 2 * i) * d
            OBVIOUS
          <6>5. (2 * i) * d \in Int
            OBVIOUS
          <6>6. QED
            BY <6>3, <6>4, <6>5
        <5>6. s + d + d - 1 <= N
          <6>1. (w - 1) * d \in Int
            OBVIOUS
          <6>2. QED
            BY <1>7, <4>1, <5>4, <5>5, <6>1
        <5>7. h[d + m][s] = Node(h[d][s], h[m][s + d])
          <6>1. m \in Nat /\ m >= 1 /\ m <= d
            BY <1>5, <5>2
          <6>2. s + d + m - 1 <= N
            BY <5>2, <5>6
          <6>3. QED
            BY <1>13, <4>2, <6>1, <6>2
        <5>8. d + m = 2 * d
          BY <5>2
        <5>9. QED
          BY <3>1, <3>2, <3>3, <4>5, <4>7, <5>3, <5>7, <5>8
      <4>10. QED
        BY <3>3, <4>8, <4>9
    <3>4. CASE ~(2 * i <= w)
      <4>1. i = c /\ 2 * i - 1 = w
        BY <1>11, <3>4
      <4>2. (i - 1) * (2 * d) = (w - 1) * d
        BY <3>2, <4>1
      <4>3. Part(leaves, c, 2 * d, i) = N - (w - 1) * d
        BY <4>1, <4>2 DEF Part
      <4>4. Part(leaves, w, d, w) = N - (w - 1) * d
        BY DEF Part
      <4>5. low[w] = h[N - (w - 1) * d][(w - 1) * d + 1]
        BY <1>4, <1>8, <4>4
      <4>6. QED
        BY <3>1, <3>4, <4>1, <4>2, <4>3, <4>5
    <3>5. QED
      BY <3>3, <3>4
  <2>3. QED
    BY <1>4, <2>1, <2>2
<1>15. QED
  BY <1>1, <1>6, <1>9, <1>12, <1>14 DEF LevelIsSegments

LEMMA RootIsTree ==
  ASSUME NEW leaves, Len(leaves) \in Nat, leaves = <<>> \/ Len(leaves) >= 1
  PROVE  merkleRoot(leaves) = TreeHash(leaves)
<1> DEFINE N == Len(leaves)
<1>1. CASE leaves = <<>>
  BY <1>1 DEF merkleRoot, TreeHash
<1>2. CASE leaves # <<>>
  <2>1. N >= 1
    BY <1>2
  <2> DEFINE T == {n \in Nat : n <= N /\ ~LevelIsSegments(leaves, n)}
  <2>2. 0 \notin T
    BY <2>1, LevelStart
  <2>3. ASSUME NEW n \in Nat, n + 1 \in T
        PROVE  n \in T
    <3>1. n \in 0..(N - 1) /\ ~LevelIsSegments(leaves, n + 1)
      BY <2>3
    <3>2. ~LevelIsSegments(leaves, n)
      BY <2>1, <3>1, LevelStep
    <3>3. QED
      BY <3>1, <3>2
  <2>4. N \notin T
    BY <2>2, <2>3, NoneFails
  <2>5. LevelIsSegments(leaves, N)
    BY <2>4
  <2>6. PICK d \in Nat : d = PowersOfTwo(N)[N]
    <3>1. N \in 0..N
      OBVIOUS
    <3>2. QED
      BY <3>1, PowersGrow
  <2>7. Len(Levels(leaves)[N]) = 1
    BY <2>1, LastWidth
  <2>8. Levels(leaves)[N][1] = SegmentHashes(leaves)[Part(leaves, 1, d, 1)][(1 - 1) * d + 1]
    BY <2>5, <2>6, <2>7 DEF LevelIsSegments
  <2>9. Part(leaves, 1, d, 1) = N /\ (1 - 1) * d + 1 = 1
    BY DEF Part
  <2>10. QED
    BY <1>2, <2>8, <2>9 DEF merkleRoot, TreeHash
<1>3. QED
  BY <1>1, <1>2
---------------------------------------------------------------------------
(* A root tells boxes apart.                                               *)
AllLeaves(leaves) ==
  /\ Len(leaves) \in Nat
  /\ \A i \in 1..Len(leaves) : \E data : leaves[i] = leafHash(data)

LEMMA NodeTells ==
  ASSUME NEW l, NEW r, NEW x, NEW y, Node(l, r) = Node(x, y)
  PROVE  l = x /\ r = y
BY DEF Node

LEMMA NodeNoLeaf ==
  ASSUME NEW l, NEW r, NEW data
  PROVE  Node(l, r) # leafHash(data) /\ Node(l, r) # EmptyRoot
BY DEF Node, leafHash, EmptyRoot

LEMMA LeafTells ==
  ASSUME NEW a, NEW b, leafHash(a) = leafHash(b)
  PROVE  a = b
BY DEF leafHash

LEMMA SegmentsTell ==
  ASSUME NEW a, NEW b, AllLeaves(a), AllLeaves(b)
  PROVE  \A n \in 1..Len(a), m \in 1..Len(b) :
           \A i \in 1..(Len(a) - n + 1), j \in 1..(Len(b) - m + 1) :
             SegmentHashes(a)[n][i] = SegmentHashes(b)[m][j] =>
               n = m /\ \A q \in 0..(n - 1) : a[i + q] = b[j + q]
<1> DEFINE Told(n) ==
             \A m \in 1..Len(b), i \in 1..(Len(a) - n + 1) : \A j \in 1..(Len(b) - m + 1) :
               SegmentHashes(a)[n][i] = SegmentHashes(b)[m][j] =>
                 n = m /\ \A q \in 0..(n - 1) : a[i + q] = b[j + q]
           T == {n \in Nat : n \in 1..Len(a) /\ ~Told(n)}
<1> SUFFICES ASSUME T # {}
             PROVE  FALSE
  <2> HIDE DEF Told
  <2>1. \A n \in 1..Len(a) : n \notin T => Told(n)
    OBVIOUS
  <2>2. T = {} => \A n \in 1..Len(a) : Told(n)
    BY <2>1
  <2>3. QED
    BY <2>2 DEF Told
<1>1. Len(a) \in Nat /\ Len(b) \in Nat
  BY DEF AllLeaves
<1>2. PICK f, g : f = SegmentHashes(a) /\ g = SegmentHashes(b)
  OBVIOUS
<1>3. PICK n \in T : \A e \in T : n <= e
  <2> HIDE DEF Told
  <2>1. QED
    BY LeastOf
<1>4. n \in 1..Len(a) /\ ~Told(n)
  <2> HIDE DEF Told
  <2>1. QED
    BY <1>3
<1>5. \A e \in 1..(n - 1) : Told(e)
  <2> HIDE DEF Told
  <2>1. QED
    BY <1>3, <1>4
<1>6. PICK m \in 1..Len(b), i \in 1..(Len(a) - n + 1) :
        \E j \in 1..(Len(b) - m + 1) :
          /\ f[n][i] = g[m][j]
          /\ ~(n = m /\ \A q \in 0..(n - 1) : a[i + q] = b[j + q])
  BY <1>2, <1>4
<1>7. PICK j \in 1..(Len(b) - m + 1) :
        /\ f[n][i] = g[m][j]
        /\ ~(n = m /\ \A q \in 0..(n - 1) : a[i + q] = b[j + q])
  BY <1>6
<1> DEFINE k == SplitAt(n, PowersOfTwo(Len(a)))
           h == SplitAt(m, PowersOfTwo(Len(b)))
<1> HIDE DEF k, h, Told, T
<1>8. f[n][i] = IF n = 1 THEN a[i] ELSE Node(f[k][i], f[n - k][i + k])
  BY <1>1, <1>2, <1>4, SegmentsRun DEF k
<1>9. g[m][j] = IF m = 1 THEN b[j] ELSE Node(g[h][j], g[m - h][j + h])
  BY <1>1, <1>2, SegmentsRun DEF h
<1>10. n = 1 => \E data : f[n][i] = leafHash(data)
  BY <1>1, <1>4, <1>8 DEF AllLeaves
<1>11. m = 1 => \E data : g[m][j] = leafHash(data)
  BY <1>1, <1>9 DEF AllLeaves
<1>12. CASE n = 1 /\ m = 1
  <2>1. a[i] = b[j]
    BY <1>7, <1>8, <1>9, <1>12
  <2>2. \A q \in 0..(n - 1) : i + q = i /\ j + q = j
    BY <1>12
  <2>3. QED
    BY <1>7, <1>12, <2>1, <2>2
<1>13. CASE n = 1 /\ m # 1
  BY <1>7, <1>9, <1>10, <1>13, NodeNoLeaf
<1>14. CASE n # 1 /\ m = 1
  BY <1>7, <1>8, <1>11, <1>14, NodeNoLeaf
<1>15. CASE n # 1 /\ m # 1
  <2>1. k \in 1..(n - 1) /\ h \in 1..(m - 1)
    <3>1. n \in 2..Len(a) /\ m \in 2..Len(b)
      BY <1>1, <1>4, <1>15
    <3>2. QED
      BY <1>1, <3>1, SplitInside DEF k, h
  <2>2. f[k][i] = g[h][j] /\ f[n - k][i + k] = g[m - h][j + h]
    <3>1. Node(f[k][i], f[n - k][i + k]) = Node(g[h][j], g[m - h][j + h])
      BY <1>7, <1>8, <1>9, <1>15
    <3>2. QED
      BY <3>1, NodeTells
  <2>3. k = h /\ \A q \in 0..(k - 1) : a[i + q] = b[j + q]
    <3>1. Told(k)
      BY <1>5, <2>1
    <3>2. h \in 1..Len(b) /\ i \in 1..(Len(a) - k + 1) /\ j \in 1..(Len(b) - h + 1)
      BY <1>1, <1>4, <2>1
    <3>3. QED
      BY <1>2, <2>2, <3>1, <3>2 DEF Told
  <2>4. n - k = m - h /\ \A q \in 0..((n - k) - 1) : a[(i + k) + q] = b[(j + h) + q]
    <3>1. n - k \in 1..(n - 1)
      BY <1>4, <2>1
    <3>2. Told(n - k)
      BY <1>5, <3>1
    <3>3. PICK n1, m1, i1, j1 : n1 = n - k /\ m1 = m - h /\ i1 = i + k /\ j1 = j + h
      OBVIOUS
    <3>4. m1 \in 1..Len(b) /\ i1 \in 1..(Len(a) - n1 + 1) /\ j1 \in 1..(Len(b) - m1 + 1)
      BY <1>1, <1>4, <2>1, <3>3
    <3>5. f[n1][i1] = g[m1][j1]
      BY <2>2, <3>3
    <3>6. n1 = m1 /\ \A q \in 0..(n1 - 1) : a[i1 + q] = b[j1 + q]
      BY <1>2, <3>2, <3>3, <3>4, <3>5 DEF Told
    <3>7. QED
      BY <3>3, <3>6
  <2>5. n = m
    BY <1>4, <2>1, <2>3, <2>4
  <2>6. ASSUME NEW q \in 0..(n - 1)
        PROVE  a[i + q] = b[j + q]
    <3>1. CASE q < k
      BY <2>1, <2>3, <3>1
    <3>2. CASE ~(q < k)
      <4>1. q - k \in 0..((n - k) - 1)
        BY <1>4, <2>1, <3>2
      <4>2. (i + k) + (q - k) = i + q /\ (j + h) + (q - k) = j + q
        BY <2>1, <2>3
      <4>3. a[(i + k) + (q - k)] = b[(j + h) + (q - k)]
        BY <2>4, <4>1
      <4>4. QED
        BY <4>2, <4>3
    <3>3. QED
      BY <3>1, <3>2
  <2>7. QED
    BY <1>7, <2>5, <2>6
<1>16. QED
  BY <1>12, <1>13, <1>14, <1>15

LEMMA RootsTell ==
  ASSUME NEW a, NEW b, AllLeaves(a), AllLeaves(b),
         a = <<>> \/ Len(a) >= 1, b = <<>> \/ Len(b) >= 1,
         a = <<>> => Len(a) = 0, b = <<>> => Len(b) = 0,
         merkleRoot(a) = merkleRoot(b)
  PROVE  Len(a) = Len(b) /\ \A i \in 1..Len(a) : a[i] = b[i]
<1>1. Len(a) \in Nat /\ Len(b) \in Nat
  BY DEF AllLeaves
<1>2. TreeHash(a) = TreeHash(b)
  <2>1. merkleRoot(a) = TreeHash(a) /\ merkleRoot(b) = TreeHash(b)
    BY <1>1, RootIsTree
  <2>2. QED
    BY <2>1
<1>3. ASSUME NEW s, AllLeaves(s), s # <<>>, Len(s) >= 1
      PROVE  TreeHash(s) = SegmentHashes(s)[Len(s)][1] /\ TreeHash(s) # EmptyRoot
  <2>1. PICK n \in Nat : n = Len(s)
    BY <1>3 DEF AllLeaves
  <2>2. n \in 1..n /\ 1 \in 1..(n - n + 1)
    BY <1>3, <2>1
  <2>3. PICK f : f = SegmentHashes(s)
    OBVIOUS
  <2>4. TreeHash(s) = f[n][1]
    BY <1>3, <2>1, <2>3 DEF TreeHash
  <2>5. f[n][1] = IF n = 1 THEN s[1]
                  ELSE Node(f[SplitAt(n, PowersOfTwo(n))][1],
                            f[n - SplitAt(n, PowersOfTwo(n))][1 + SplitAt(n, PowersOfTwo(n))])
    BY <2>1, <2>2, <2>3, SegmentsRun
  <2>6. CASE n = 1
    <3>1. PICK data : s[1] = leafHash(data)
      BY <1>3, <2>1, <2>2, <2>6 DEF AllLeaves
    <3>2. leafHash(data) # EmptyRoot
      BY DEF leafHash, EmptyRoot
    <3>3. QED
      BY <2>1, <2>3, <2>4, <2>5, <2>6, <3>1, <3>2
  <2>7. CASE n # 1
    BY <2>1, <2>3, <2>4, <2>5, <2>7, NodeNoLeaf
  <2>8. QED
    BY <2>6, <2>7
<1>4. CASE a = <<>> \/ b = <<>>
  <2>1. TreeHash(<<>>) = EmptyRoot
    BY DEF TreeHash
  <2>2. a = <<>> /\ b = <<>>
    BY <1>2, <1>3, <1>4, <2>1
  <2>3. QED
    BY <2>2
<1>5. CASE a # <<>> /\ b # <<>>
  <2>1. SegmentHashes(a)[Len(a)][1] = SegmentHashes(b)[Len(b)][1]
    BY <1>2, <1>3, <1>5
  <2>2. PICK n \in Nat, m \in Nat : n = Len(a) /\ m = Len(b) /\ n >= 1 /\ m >= 1
    BY <1>1, <1>5
  <2>3. /\ n \in 1..Len(a) /\ m \in 1..Len(b)
        /\ 1 \in 1..(Len(a) - n + 1) /\ 1 \in 1..(Len(b) - m + 1)
    BY <2>2
  <2>4. n = m /\ \A q \in 0..(n - 1) : a[1 + q] = b[1 + q]
    <3>1. SegmentHashes(a)[n][1] = SegmentHashes(b)[m][1]
      BY <2>1, <2>2
    <3>2. PICK o : o = 1
      OBVIOUS
    <3>3. SegmentHashes(a)[n][o] = SegmentHashes(b)[m][o] =>
            n = m /\ \A q \in 0..(n - 1) : a[o + q] = b[o + q]
      BY <2>3, <3>2, SegmentsTell
    <3>4. QED
      BY <3>1, <3>2, <3>3
  <2>5. ASSUME NEW i \in 1..n
        PROVE  a[i] = b[i]
    <3>1. i - 1 \in 0..(n - 1) /\ 1 + (i - 1) = i
      OBVIOUS
    <3>2. QED
      BY <2>4, <3>1
  <2>6. QED
    BY <2>2, <2>4, <2>5
<1>6. QED
  BY <1>4, <1>5

(* The leaves of a list of ballots.                                        *)
LeavesOf(ballots) == [i \in DOMAIN ballots |-> ballotLeaf(ballots[i])]

LEMMA LeavesOfIs ==
  ASSUME NEW S, NEW ballots \in Seq(S)
  PROVE  LET leaves == LeavesOf(ballots) IN
         /\ Len(leaves) = Len(ballots) /\ AllLeaves(leaves)
         /\ leaves = <<>> \/ Len(leaves) >= 1
         /\ leaves = <<>> => Len(leaves) = 0
         /\ \A i \in 1..Len(ballots) : leaves[i] = ballotLeaf(ballots[i])
<1>1. PICK n \in Nat : n = Len(ballots) /\ DOMAIN ballots = 1..n
  OBVIOUS
<1>2. PICK leaves : leaves = LeavesOf(ballots)
  OBVIOUS
<1>3. leaves = [i \in 1..n |-> ballotLeaf(ballots[i])]
  BY <1>1, <1>2 DEF LeavesOf
<1>4. leaves = [i \in 1..n |-> leaves[i]]
  BY <1>3
<1>5. Len(leaves) = n /\ \A i \in 1..n : leaves[i] = ballotLeaf(ballots[i])
  BY <1>3, <1>4, ListLen
<1>6. AllLeaves(leaves)
  BY <1>5 DEF AllLeaves, ballotLeaf
<1>7. n = 0 => leaves = <<>>
  BY <1>3
<1>8. leaves = <<>> => Len(leaves) = 0
  OBVIOUS
<1>9. QED
  BY <1>1, <1>2, <1>5, <1>6, <1>7, <1>8

(* Two boxes with one root hold the same ballots, one by one: what a       *)
(* checkpoint fixes with the root alone is the whole box, and no edit,     *)
(* removal, insertion or exchange leaves the root as it is.  It is what    *)
(* lets CheckpointChain and TamperCheck take the box itself for its root.  *)
THEOREM RootsTellBoxesApart ==
  ASSUME NEW a \in Seq(CastBallots), NEW b \in Seq(CastBallots),
         merkleRoot(LeavesOf(a)) = merkleRoot(LeavesOf(b))
  PROVE  /\ Len(a) = Len(b)
         /\ \A i \in 1..Len(a) : /\ a[i].id = b[i].id
                                 /\ a[i].castAtHour = b[i].castAtHour
                                 /\ a[i].sealedVote = b[i].sealedVote
<1>1. PICK s, t : s = LeavesOf(a) /\ t = LeavesOf(b)
  OBVIOUS
<1>2. /\ Len(s) = Len(a) /\ AllLeaves(s) /\ (s = <<>> \/ Len(s) >= 1) /\ (s = <<>> => Len(s) = 0)
      /\ \A i \in 1..Len(a) : s[i] = ballotLeaf(a[i])
  BY <1>1, LeavesOfIs
<1>3. /\ Len(t) = Len(b) /\ AllLeaves(t) /\ (t = <<>> \/ Len(t) >= 1) /\ (t = <<>> => Len(t) = 0)
      /\ \A i \in 1..Len(b) : t[i] = ballotLeaf(b[i])
  BY <1>1, LeavesOfIs
<1>4. Len(s) = Len(t) /\ \A i \in 1..Len(s) : s[i] = t[i]
  BY <1>1, <1>2, <1>3, RootsTell
<1>5. ASSUME NEW i \in 1..Len(a)
      PROVE  /\ a[i].id = b[i].id /\ a[i].castAtHour = b[i].castAtHour
             /\ a[i].sealedVote = b[i].sealedVote
  <2>1. ballotLeaf(a[i]) = ballotLeaf(b[i])
    BY <1>2, <1>3, <1>4
  <2>2. <<a[i].id, a[i].castAtHour, a[i].sealedVote>> = <<b[i].id, b[i].castAtHour, b[i].sealedVote>>
    BY <2>1, LeafTells DEF ballotLeaf
  <2>3. QED
    BY <2>2
<1>6. QED
  BY <1>2, <1>3, <1>4, <1>5
---------------------------------------------------------------------------
(* The box: ballots in the order of their ids, so no id twice.             *)
BoxInv ==
  /\ boxed \in Seq(CastBallots)
  /\ \A i, j \in 1..Len(boxed) : i < j => boxed[i].id < boxed[j].id

LEMMA BoxKept ==
  ASSUME BoxInv, NEW b \in CastBallots, Drop(b)
  PROVE  BoxInv'
<1>1. PICK n \in Nat : n = Len(boxed) /\ DOMAIN boxed = 1..n
  BY DEF BoxInv
<1>2. PICK k \in 1..(n + 1) :
        /\ \A i \in 1..n : IF i < k THEN boxed[i].id < b.id ELSE boxed[i].id > b.id
        /\ boxed' = [i \in 1..(n + 1) |->
                       IF i < k THEN boxed[i] ELSE IF i = k THEN b ELSE boxed[i - 1]]
  BY <1>1 DEF Drop
<1>3. PICK now : now = boxed'
  OBVIOUS
<1>4. now \in [1..(n + 1) -> CastBallots]
  <2>1. \A i \in 1..n : boxed[i] \in CastBallots
    BY <1>1 DEF BoxInv
  <2>2. QED
    BY <1>2, <1>3, <2>1
<1>5. now \in Seq(CastBallots) /\ Len(now) = n + 1
  <2>1. n + 1 \in Nat
    OBVIOUS
  <2>2. QED
    BY <1>4, <2>1, IsASeq, LenProperties
<1>6. \A c \in CastBallots : c.id \in Int
  BY CastBallotsAssumption
<1>7. \A i \in 1..n : boxed[i].id \in Int
  BY <1>1, <1>6 DEF BoxInv
<1>8. ASSUME NEW i \in 1..(n + 1), NEW j \in 1..(n + 1), i < j
      PROVE  now[i].id < now[j].id
  <2>1. now[i] = (IF i < k THEN boxed[i] ELSE IF i = k THEN b ELSE boxed[i - 1])
    BY <1>2, <1>3
  <2>2. now[j] = (IF j < k THEN boxed[j] ELSE IF j = k THEN b ELSE boxed[j - 1])
    BY <1>2, <1>3
  <2>3. \A x, y \in 1..n : x < y => boxed[x].id < boxed[y].id
    BY <1>1 DEF BoxInv
  <2>4. CASE j < k
    BY <1>8, <2>1, <2>2, <2>3, <2>4
  <2>5. CASE j = k
    BY <1>2, <1>8, <2>1, <2>2, <2>5
  <2>6. CASE j > k
    <3>1. j - 1 \in 1..n /\ now[j] = boxed[j - 1] /\ boxed[j - 1].id > b.id
      BY <1>2, <2>2, <2>6
    <3>2. CASE i < k
      <4>1. i \in 1..n /\ i < j - 1 /\ now[i] = boxed[i]
        BY <2>1, <2>6, <3>2
      <4>2. QED
        BY <2>3, <3>1, <4>1
    <3>3. CASE i = k
      BY <1>6, <1>7, <2>1, <3>1, <3>3
    <3>4. CASE i > k
      <4>1. i - 1 \in 1..n /\ i - 1 < j - 1 /\ now[i] = boxed[i - 1]
        BY <1>8, <2>1, <3>4
      <4>2. QED
        BY <2>3, <3>1, <4>1
    <3>5. QED
      BY <3>2, <3>3, <3>4
  <2>7. QED
    BY <2>4, <2>5, <2>6
<1>9. QED
  BY <1>3, <1>5, <1>8 DEF BoxInv

LEMMA BoxAlways == MerkleSpec => []BoxInv
<1>1. MerkleInit => BoxInv
  <2>1. ASSUME MerkleInit
        PROVE  boxed \in Seq(CastBallots) /\ Len(boxed) = 0
    BY <2>1 DEF MerkleInit
  <2>2. QED
    BY <2>1 DEF BoxInv
<1>2. BoxInv /\ [MerkleNext]_boxed => BoxInv'
  <2>1. BoxInv /\ UNCHANGED boxed => BoxInv'
    BY DEF BoxInv
  <2>2. QED
    BY <2>1, BoxKept DEF MerkleNext
<1>3. QED
  BY <1>1, <1>2, PTL DEF MerkleSpec

(* The root of a box of any size is the root of RFC 6962's tree: a last    *)
(* entry that goes up alone never makes another tree (merkleRoot).         *)
THEOREM RootAlwaysTreeHash == MerkleSpec => []RootIsTreeHash
<1>1. BoxInv => RootIsTreeHash
  <2> SUFFICES ASSUME BoxInv
               PROVE  RootIsTreeHash
    OBVIOUS
  <2>1. BoxLeaves = LeavesOf(boxed)
    BY DEF BoxLeaves, LeavesOf
  <2>2. boxed \in Seq(CastBallots)
    BY DEF BoxInv
  <2>3. PICK leaves : leaves = LeavesOf(boxed)
    OBVIOUS
  <2>4. Len(leaves) \in Nat /\ (leaves = <<>> \/ Len(leaves) >= 1)
    BY <2>2, <2>3, LeavesOfIs DEF AllLeaves
  <2>5. merkleRoot(leaves) = TreeHash(leaves)
    BY <2>4, RootIsTree
  <2>6. QED
    BY <2>1, <2>3, <2>5 DEF RootIsTreeHash
<1>2. QED
  BY <1>1, BoxAlways, PTL
---------------------------------------------------------------------------
(* Proofs.  An entry and its sibling, and what they are hashed to.         *)
LEMMA SiblingIs ==
  ASSUME NEW w \in Nat, w >= 1, NEW idx \in 0..(w - 1)
  PROVE  /\ idx \div 2 \in 0..(Ceil2(w) - 1)
         /\ w > 1 => (Alone(idx, w) <=> ~(SiblingOf(idx) < w))
         /\ w > 1 /\ ~Alone(idx, w) => SiblingOf(idx) \in 0..(w - 1)
BY DEF Ceil2, Alone, SiblingOf

LEMMA ParentIs ==
  ASSUME NEW low, Len(low) \in Nat, Len(low) > 1, NEW idx \in 0..(Len(low) - 1)
  PROVE  LET up == RootTurn(low)[(idx \div 2) + 1] IN
         /\ Alone(idx, Len(low)) => up = low[idx + 1]
         /\ ~Alone(idx, Len(low)) /\ idx % 2 = 0 => up = Node(low[idx + 1], low[SiblingOf(idx) + 1])
         /\ ~Alone(idx, Len(low)) /\ idx % 2 # 0 => up = Node(low[SiblingOf(idx) + 1], low[idx + 1])
<1>1. PICK w \in Nat : w = Len(low) /\ w > 1
  OBVIOUS
<1>2. PICK i : i = (idx \div 2) + 1
  OBVIOUS
<1>3. i \in 1..Ceil2(w)
  <2>1. Ceil2(w) \in Nat
    BY CeilHalf
  <2>2. idx \div 2 \in 0..(Ceil2(w) - 1)
    BY <1>1, SiblingIs
  <2>3. QED
    BY <1>2, <2>1, <2>2
<1>4. RootTurn(low)[i] = IF 2 * i <= w THEN Node(low[2 * i - 1], low[2 * i]) ELSE low[2 * i - 1]
  <2>1. Len(low) >= 1
    OBVIOUS
  <2>2. Len(RootTurn(low)) = Ceil2(w)
    BY <1>1, <2>1, RootTurnIs
  <2>3. i \in 1..Len(RootTurn(low))
    BY <1>3, <2>2
  <2>4. RootTurn(low)[i] = IF 2 * i <= Len(low) THEN Node(low[2 * i - 1], low[2 * i])
                           ELSE low[2 * i - 1]
    BY <2>1, <2>3, RootTurnIs
  <2>5. QED
    BY <1>1, <2>4
<1>5. CASE Alone(idx, w)
  <2>1. ~(2 * i <= w) /\ 2 * i - 1 = idx + 1
    BY <1>1, <1>2, <1>5 DEF Alone
  <2>2. QED
    BY <1>1, <1>2, <1>4, <1>5, <2>1
<1>6. CASE ~Alone(idx, w) /\ idx % 2 = 0
  <2>1. 2 * i <= w /\ 2 * i - 1 = idx + 1 /\ 2 * i = SiblingOf(idx) + 1
    BY <1>1, <1>2, <1>6 DEF Alone, SiblingOf
  <2>2. QED
    BY <1>1, <1>2, <1>4, <1>6, <2>1
<1>7. CASE ~Alone(idx, w) /\ idx % 2 # 0
  <2>1. 2 * i <= w /\ 2 * i = idx + 1 /\ 2 * i - 1 = SiblingOf(idx) + 1
    BY <1>1, <1>2, <1>7 DEF Alone, SiblingOf
  <2>2. QED
    BY <1>1, <1>2, <1>4, <1>7, <2>1
<1>8. QED
  BY <1>1, <1>2, <1>5, <1>6, <1>7

(* What merkleProof's loop holds after n turns: the level of merkleRoot,   *)
(* a place on it, and the siblings that were met.                          *)
AllDigests(leaves) ==
  UNION {{Levels(leaves)[n][i] : i \in 1..Len(Levels(leaves)[n])} : n \in 0..Len(leaves)}

OnLevel(leaves, s, n) ==
  /\ s.level = Levels(leaves)[n]
  /\ s.idx \in 0..(Len(Levels(leaves)[n]) - 1)
  /\ s.path \in Seq(AllDigests(leaves))

LEMMA ProofTurnKeeps ==
  ASSUME NEW leaves, Len(leaves) \in Nat, Len(leaves) >= 1, NEW n \in 0..(Len(leaves) - 1),
         NEW s, OnLevel(leaves, s, n)
  PROVE  LET low == Levels(leaves)[n]
             w   == Len(low)
             t   == ProofTurn(s)
         IN  /\ OnLevel(leaves, t, n + 1)
             /\ t.idx = s.idx \div 2
             /\ w = 1 \/ Alone(s.idx, w) => t.path = s.path
             /\ w > 1 /\ ~Alone(s.idx, w) => t.path = Append(s.path, low[SiblingOf(s.idx) + 1])
<1>1. n \in 0..Len(leaves) /\ n + 1 \in 1..Len(leaves) /\ n + 1 \in 0..Len(leaves) /\ (n + 1) - 1 = n
  OBVIOUS
<1>2. PICK low : low = Levels(leaves)[n]
  OBVIOUS
<1>3. PICK w \in Nat : w = Len(low) /\ w >= 1
  BY <1>1, <1>2, WidthsShrink
<1>4. Levels(leaves)[n + 1] = RootTurn(low)
  BY <1>1, <1>2, LevelsRun
<1>5. Len(Levels(leaves)[n + 1]) = Ceil2(w)
  BY <1>3, <1>4, RootTurnIs
<1>6. s.level = low /\ s.idx \in 0..(w - 1) /\ s.path \in Seq(AllDigests(leaves))
  BY <1>2, <1>3 DEF OnLevel
<1>7. PICK t : t = ProofTurn(s)
  OBVIOUS
<1>8. CASE w = 1
  <2>1. t = s /\ s.idx = 0
    BY <1>3, <1>6, <1>7, <1>8 DEF ProofTurn
  <2>2. s.idx = s.idx \div 2
    BY <2>1
  <2>3. RootTurn(low) = low
    BY <1>3, <1>8, RootTurnIs
  <2>4. OnLevel(leaves, t, n + 1)
    BY <1>2, <1>4, <2>1, <2>3 DEF OnLevel
  <2>5. QED
    BY <1>2, <1>3, <1>7, <1>8, <2>1, <2>2, <2>4
<1>9. CASE w > 1
  <2>1. t = [level |-> LevelUp(low), idx |-> s.idx \div 2,
             path |-> IF SiblingOf(s.idx) < w THEN Append(s.path, low[SiblingOf(s.idx) + 1]) ELSE s.path]
    BY <1>3, <1>6, <1>7, <1>9 DEF ProofTurn
  <2>2. /\ s.idx \div 2 \in 0..(Ceil2(w) - 1)
        /\ Alone(s.idx, w) <=> ~(SiblingOf(s.idx) < w)
        /\ ~Alone(s.idx, w) => SiblingOf(s.idx) \in 0..(w - 1)
    BY <1>6, <1>9, SiblingIs
  <2>3. t.level = RootTurn(low) /\ t.idx = s.idx \div 2
    BY <1>3, <1>9, <2>1 DEF RootTurn
  <2>4. /\ Alone(s.idx, w) => t.path = s.path
        /\ ~Alone(s.idx, w) => t.path = Append(s.path, low[SiblingOf(s.idx) + 1])
    BY <2>1, <2>2
  <2>5. ~Alone(s.idx, w) => low[SiblingOf(s.idx) + 1] \in AllDigests(leaves)
    <3>1. \A i \in 1..w : low[i] \in AllDigests(leaves)
      BY <1>1, <1>2, <1>3 DEF AllDigests
    <3>2. QED
      BY <2>2, <3>1
  <2>6. t.path \in Seq(AllDigests(leaves))
    <3>1. CASE Alone(s.idx, w)
      BY <1>6, <2>4, <3>1
    <3>2. CASE ~Alone(s.idx, w)
      <4>1. PICK x \in AllDigests(leaves) : x = low[SiblingOf(s.idx) + 1]
        BY <2>5, <3>2
      <4>2. t.path = Append(s.path, x)
        BY <2>4, <3>2, <4>1
      <4>3. QED
        BY <1>6, <4>2
    <3>3. QED
      BY <3>1, <3>2
  <2>7. OnLevel(leaves, t, n + 1)
    BY <1>4, <1>5, <2>2, <2>3, <2>6 DEF OnLevel
  <2>8. /\ w = 1 \/ Alone(s.idx, w) => t.path = s.path
        /\ w > 1 /\ ~Alone(s.idx, w) => t.path = Append(s.path, low[SiblingOf(s.idx) + 1])
    BY <1>9, <2>4
  <2>9. QED
    BY <1>2, <1>3, <1>7, <2>3, <2>7, <2>8
<1>10. QED
  BY <1>3, <1>8, <1>9

LEMMA ProofOnLevels ==
  ASSUME NEW leaves, Len(leaves) \in Nat, Len(leaves) >= 1, NEW j \in 0..(Len(leaves) - 1)
  PROVE  \A n \in 0..Len(leaves) : OnLevel(leaves, ProofTurns(leaves, j)[n], n)
<1> DEFINE N == Len(leaves)
<1>1. PICK S : S = ProofTurns(leaves, j)
  OBVIOUS
<1>2. /\ S[0] = [level |-> leaves, idx |-> j, path |-> <<>>]
      /\ \A n \in 1..N : S[n] = ProofTurn(S[n - 1])
  BY <1>1, ProofTurnsRun
<1> DEFINE T == {n \in Nat : n <= N /\ ~OnLevel(leaves, S[n], n)}
<1>3. 0 \notin T
  <2>1. Levels(leaves)[0] = leaves
    BY LevelsRun
  <2>2. S[0].level = leaves /\ S[0].idx = j /\ S[0].path = <<>>
    BY <1>2
  <2>3. S[0].path \in Seq(AllDigests(leaves))
    BY <2>2
  <2>4. QED
    BY <2>1, <2>2, <2>3 DEF OnLevel
<1>4. ASSUME NEW n \in Nat, n + 1 \in T
      PROVE  n \in T
  <2>1. n \in 0..(N - 1) /\ n + 1 \in 1..N /\ (n + 1) - 1 = n /\ ~OnLevel(leaves, S[n + 1], n + 1)
    BY <1>4
  <2>2. S[n + 1] = ProofTurn(S[n])
    BY <1>2, <2>1
  <2>3. ~OnLevel(leaves, S[n], n)
    <3> SUFFICES ASSUME OnLevel(leaves, S[n], n)
                 PROVE  FALSE
      OBVIOUS
    <3>1. OnLevel(leaves, ProofTurn(S[n]), n + 1)
      BY <2>1, ProofTurnKeeps
    <3>2. QED
      BY <2>1, <2>2, <3>1
  <2>4. QED
    BY <2>1, <2>3
<1>5. T = {}
  BY <1>3, <1>4, NoneFails
<1>6. QED
  BY <1>1, <1>5

(* One turn of it.                                                         *)
Grows(leaves, j, n) ==
  LET low == Levels(leaves)[n]
      w   == Len(low)
      s   == ProofTurns(leaves, j)[n]
      t   == ProofTurns(leaves, j)[n + 1]
  IN  /\ t.idx = s.idx \div 2
      /\ w = 1 \/ Alone(s.idx, w) => t.path = s.path
      /\ w > 1 /\ ~Alone(s.idx, w) =>
           /\ Len(t.path) = Len(s.path) + 1
           /\ t.path[Len(s.path) + 1] = low[SiblingOf(s.idx) + 1]
           /\ \A k \in 1..Len(s.path) : t.path[k] = s.path[k]

LEMMA ProofGrows ==
  ASSUME NEW leaves, Len(leaves) \in Nat, Len(leaves) >= 1, NEW j \in 0..(Len(leaves) - 1),
         NEW n \in 0..(Len(leaves) - 1)
  PROVE  Grows(leaves, j, n)
<1>1. PICK s, t : s = ProofTurns(leaves, j)[n] /\ t = ProofTurns(leaves, j)[n + 1]
  OBVIOUS
<1>2. n \in 0..Len(leaves) /\ n + 1 \in 1..Len(leaves) /\ (n + 1) - 1 = n
  OBVIOUS
<1>3. OnLevel(leaves, s, n)
  BY <1>1, <1>2, ProofOnLevels
<1>4. t = ProofTurn(s)
  BY <1>1, <1>2, ProofTurnsRun
<1>5. PICK low, w : low = Levels(leaves)[n] /\ w = Len(low)
  OBVIOUS
<1>6. /\ t.idx = s.idx \div 2
      /\ w = 1 \/ Alone(s.idx, w) => t.path = s.path
      /\ w > 1 /\ ~Alone(s.idx, w) => t.path = Append(s.path, low[SiblingOf(s.idx) + 1])
  BY <1>3, <1>4, <1>5, ProofTurnKeeps
<1>7. ASSUME w > 1 /\ ~Alone(s.idx, w)
      PROVE  /\ Len(t.path) = Len(s.path) + 1
             /\ t.path[Len(s.path) + 1] = low[SiblingOf(s.idx) + 1]
             /\ \A k \in 1..Len(s.path) : t.path[k] = s.path[k]
  <2>1. PICK x : x = low[SiblingOf(s.idx) + 1]
    OBVIOUS
  <2>2. PICK p : p = s.path
    OBVIOUS
  <2>3. p \in Seq(AllDigests(leaves) \cup {x}) /\ t.path = Append(p, x)
    <3>1. p \in Seq(AllDigests(leaves))
      BY <1>3, <2>2 DEF OnLevel
    <3>2. p \in Seq(AllDigests(leaves) \cup {x})
      BY <3>1
    <3>3. QED
      BY <1>6, <1>7, <2>1, <2>2, <3>2
  <2>4. /\ Len(Append(p, x)) = Len(p) + 1 /\ Append(p, x)[Len(p) + 1] = x
        /\ \A k \in 1..Len(p) : Append(p, x)[k] = p[k]
    BY <2>3, AppendProperties
  <2>5. QED
    BY <2>1, <2>2, <2>3, <2>4
<1>8. QED
  BY <1>1, <1>5, <1>6, <1>7 DEF Grows

(* The path only grows, so each sibling that was met stays where it is.    *)
LEMMA ProofExtends ==
  ASSUME NEW leaves, Len(leaves) \in Nat, Len(leaves) >= 1, NEW j \in 0..(Len(leaves) - 1)
  PROVE  \A n \in 0..Len(leaves) :
           LET met == ProofTurns(leaves, j)[n].path IN
           /\ Len(met) \in Nat /\ Len(met) <= Len(merkleProof(leaves, j))
           /\ \A k \in 1..Len(met) : merkleProof(leaves, j)[k] = met[k]
<1> DEFINE N == Len(leaves)
<1>1. PICK S : S = ProofTurns(leaves, j)
  OBVIOUS
<1>2. PICK P : P = merkleProof(leaves, j)
  OBVIOUS
<1>3. P = S[N].path
  BY <1>1, <1>2 DEF merkleProof
<1>4. \A n \in 0..N : Len(S[n].path) \in Nat
  BY <1>1, ProofOnLevels DEF OnLevel
<1> DEFINE In(met) == Len(met) <= Len(P) /\ \A k \in 1..Len(met) : P[k] = met[k]
           T == {d \in Nat : d <= N /\ ~In(S[N - d].path)}
<1>5. 0 \notin T
  <2>1. N - 0 = N /\ N \in 0..N
    OBVIOUS
  <2>2. Len(P) \in Nat
    BY <1>3, <1>4, <2>1
  <2>3. In(P)
    BY <2>2
  <2> HIDE DEF In
  <2>4. QED
    BY <1>3, <2>1, <2>3
<1>6. ASSUME NEW d \in Nat, d + 1 \in T
      PROVE  d \in T
  <2>1. PICK n \in 0..(N - 1) : n = N - (d + 1)
    BY <1>6
  <2>2. n + 1 = N - d /\ d <= N /\ n \in 0..N /\ n + 1 \in 0..N
    BY <1>6, <2>1
  <2>3. ~In(S[n].path)
    <3> HIDE DEF In
    <3>1. QED
      BY <1>6, <2>1
  <2>4. PICK s, t : s = S[n].path /\ t = S[n + 1].path
    OBVIOUS
  <2>5. \/ t = s
        \/ Len(t) = Len(s) + 1 /\ \A k \in 1..Len(s) : t[k] = s[k]
    <3>1. PICK w \in Nat : w = Len(Levels(leaves)[n]) /\ w >= 1
      BY <2>2, WidthsShrink
    <3>2. w >= 1
      BY <3>1
    <3>3. w = 1 \/ w > 1
      BY <3>2
    <3>4. PICK idx : idx = S[n].idx
      OBVIOUS
    <3>5. /\ w = 1 \/ Alone(idx, w) => t = s
          /\ w > 1 /\ ~Alone(idx, w) => Len(t) = Len(s) + 1 /\ \A k \in 1..Len(s) : t[k] = s[k]
      <4>1. Grows(leaves, j, n)
        BY <2>1, ProofGrows
      <4>2. QED
        BY <1>1, <2>4, <3>1, <3>4, <4>1 DEF Grows
    <3>6. QED
      BY <3>3, <3>5
  <2>6. Len(s) \in Nat /\ Len(t) \in Nat /\ ~In(s)
    BY <1>4, <2>2, <2>3, <2>4
  <2>7. ~In(t)
    <3> SUFFICES ASSUME In(t)
                 PROVE  In(s)
      BY <2>6
    <3>1. CASE t = s
      BY <3>1
    <3>2. CASE Len(t) = Len(s) + 1 /\ \A k \in 1..Len(s) : t[k] = s[k]
      <4>1. Len(t) <= Len(P) /\ \A k \in 1..Len(t) : P[k] = t[k]
        OBVIOUS
      <4>2. \A k \in 1..Len(s) : k \in 1..Len(t)
        BY <2>6, <3>2
      <4>3. \A k \in 1..Len(s) : P[k] = s[k]
        BY <3>2, <4>1, <4>2
      <4>4. Len(P) \in Nat
        <5>1. N \in 0..N
          OBVIOUS
        <5>2. QED
          BY <1>3, <1>4, <5>1
      <4>5. Len(s) <= Len(P)
        BY <2>6, <3>2, <4>1, <4>4
      <4>6. QED
        BY <4>3, <4>5
    <3>3. QED
      BY <2>5, <3>1, <3>2
  <2> HIDE DEF In
  <2>8. QED
    BY <2>2, <2>4, <2>7
<1>7. T = {}
  <2> HIDE DEF In
  <2>1. QED
    BY <1>5, <1>6, NoneFails
<1>8. ASSUME NEW n \in 0..N
      PROVE  In(S[n].path)
  <2>1. PICK d \in Nat : d = N - n /\ d <= N
    <3>1. N - n \in Nat /\ N - n <= N
      OBVIOUS
    <3>2. QED
      BY <3>1
  <2>2. N - d = n
    BY <2>1
  <2> HIDE DEF In
  <2>3. QED
    BY <1>7, <2>1, <2>2
<1>9. QED
  BY <1>1, <1>2, <1>4, <1>8

(* What verifyProof's loop holds, and one turn of it.                      *)
IsTurn(v) ==
  /\ v = [hash |-> v.hash, idx |-> v.idx, width |-> v.width, p |-> v.p, short |-> v.short]
  /\ v.short \in BOOLEAN

Folded(v, t, path) ==
  /\ IsTurn(t)
  /\ v.short \/ v.width <= 1 => t = v
  /\ ~v.short /\ v.width > 1 =>
       /\ t.short <=> ~Alone(v.idx, v.width) /\ v.p >= Len(path)
       /\ ~t.short => t.idx = v.idx \div 2 /\ t.width = Ceil2(v.width)
       /\ Alone(v.idx, v.width) => t.hash = v.hash /\ t.p = v.p
       /\ ~t.short /\ ~Alone(v.idx, v.width) =>
            /\ t.p = v.p + 1
            /\ t.hash = IF v.idx % 2 = 0 THEN Node(v.hash, path[v.p + 1])
                        ELSE Node(path[v.p + 1], v.hash)

LEMMA VerifyTurnIs ==
  ASSUME NEW v, NEW path, IsTurn(v), v.width \in Nat, v.p \in Nat, Len(path) \in Nat
  PROVE  Folded(v, VerifyTurn(v, path), path)
<1>1. PICK t : t = VerifyTurn(v, path)
  OBVIOUS
<1>2. v = [hash |-> v.hash, idx |-> v.idx, width |-> v.width, p |-> v.p, short |-> v.short]
      /\ v.short \in BOOLEAN
  BY DEF IsTurn
<1>3. CASE v.short \/ v.width <= 1
  <2>1. t = v
    BY <1>1, <1>3 DEF VerifyTurn
  <2>2. ~(~v.short /\ v.width > 1)
    BY <1>3
  <2>3. QED
    BY <1>1, <2>1, <2>2 DEF Folded
<1>4. CASE ~v.short /\ v.width > 1
  <2>1. ~(v.short \/ v.width <= 1)
    BY <1>4
  <2>2. CASE Alone(v.idx, v.width)
    <3>1. t = [v EXCEPT !.idx = v.idx \div 2, !.width = Ceil2(v.width)]
      BY <1>1, <2>1, <2>2 DEF VerifyTurn
    <3>2. t = [hash |-> v.hash, idx |-> v.idx \div 2, width |-> Ceil2(v.width), p |-> v.p,
               short |-> v.short]
      BY <1>2, <3>1
    <3>3. t.hash = v.hash /\ t.idx = v.idx \div 2 /\ t.width = Ceil2(v.width) /\ t.p = v.p
          /\ t.short = v.short
      BY <3>2
    <3>4. IsTurn(t)
      BY <1>2, <3>2, <3>3 DEF IsTurn
    <3>5. ~t.short
      BY <1>4, <3>3
    <3>6. QED
      BY <1>1, <2>1, <2>2, <3>3, <3>4, <3>5 DEF Folded
  <2>3. CASE ~Alone(v.idx, v.width) /\ v.p >= Len(path)
    <3>1. t = [v EXCEPT !.short = TRUE]
      BY <1>1, <2>1, <2>3 DEF VerifyTurn
    <3>2. t = [hash |-> v.hash, idx |-> v.idx, width |-> v.width, p |-> v.p, short |-> TRUE]
      BY <1>2, <3>1
    <3>3. t.short /\ IsTurn(t)
      BY <3>2 DEF IsTurn
    <3>4. QED
      BY <1>1, <2>1, <2>3, <3>3 DEF Folded
  <2>4. CASE ~Alone(v.idx, v.width) /\ ~(v.p >= Len(path))
    <3>1. PICK h : h = IF v.idx % 2 = 0 THEN Node(v.hash, path[v.p + 1])
                       ELSE Node(path[v.p + 1], v.hash)
      OBVIOUS
    <3>2. t = [[v EXCEPT !.idx = v.idx \div 2, !.width = Ceil2(v.width)]
                 EXCEPT !.p = v.p + 1, !.hash = h]
      BY <1>1, <2>1, <2>4, <3>1 DEF VerifyTurn
    <3>3. t = [hash |-> h, idx |-> v.idx \div 2, width |-> Ceil2(v.width), p |-> v.p + 1,
               short |-> v.short]
      BY <1>2, <3>2
    <3>4. t.hash = h /\ t.idx = v.idx \div 2 /\ t.width = Ceil2(v.width) /\ t.p = v.p + 1
          /\ t.short = v.short
      BY <3>3
    <3>5. IsTurn(t)
      BY <1>2, <3>3, <3>4 DEF IsTurn
    <3>6. ~t.short
      BY <1>4, <3>4
    <3>7. QED
      BY <1>1, <2>1, <2>4, <3>1, <3>4, <3>5, <3>6 DEF Folded
  <2>5. QED
    BY <2>2, <2>3, <2>4
<1>5. v.short \/ v.width <= 1 \/ (~v.short /\ v.width > 1)
  OBVIOUS
<1>6. QED
  BY <1>3, <1>4, <1>5

(* As long as the path lasts, the loop is at the place the proof's loop is *)
(* at, and has taken as many entries as that has met siblings.             *)
Tracks(leaves, j, v, n) ==
  LET s == ProofTurns(leaves, j)[n] IN
  /\ IsTurn(v) /\ v.width \in Nat /\ v.p \in Nat
  /\ ~v.short => v.idx = s.idx /\ v.width = Len(Levels(leaves)[n]) /\ v.p = Len(s.path)

LEMMA TrackStep ==
  ASSUME NEW leaves, Len(leaves) \in Nat, Len(leaves) >= 1, NEW j \in 0..(Len(leaves) - 1),
         NEW n \in 0..(Len(leaves) - 1), NEW path, Len(path) \in Nat,
         NEW v, Tracks(leaves, j, v, n)
  PROVE  Tracks(leaves, j, VerifyTurn(v, path), n + 1)
<1>1. PICK s, u : s = ProofTurns(leaves, j)[n] /\ u = ProofTurns(leaves, j)[n + 1]
  OBVIOUS
<1>2. PICK t : t = VerifyTurn(v, path)
  OBVIOUS
<1>3. n \in 0..Len(leaves) /\ n + 1 \in 0..Len(leaves) /\ n + 1 > 0 /\ (n + 1) - 1 = n
  OBVIOUS
<1>4. PICK w \in Nat : w = Len(Levels(leaves)[n]) /\ w >= 1
  BY <1>3, WidthsShrink
<1>5. Len(Levels(leaves)[n + 1]) = Ceil2(w)
  BY <1>3, <1>4, WidthsShrink
<1>6. /\ IsTurn(v) /\ v.width \in Nat /\ v.p \in Nat
      /\ ~v.short => v.idx = s.idx /\ v.width = w /\ v.p = Len(s.path)
  BY <1>1, <1>4 DEF Tracks
<1>7. Folded(v, t, path)
  BY <1>2, <1>6, VerifyTurnIs
<1>8. /\ u.idx = s.idx \div 2
      /\ w = 1 \/ Alone(s.idx, w) => u.path = s.path
      /\ w > 1 /\ ~Alone(s.idx, w) => Len(u.path) = Len(s.path) + 1
  <2>1. Grows(leaves, j, n)
    BY ProofGrows
  <2>2. QED
    BY <1>1, <1>4, <2>1 DEF Grows
<1>9. s.idx \in 0..(w - 1)
  BY <1>1, <1>3, <1>4, ProofOnLevels DEF OnLevel
<1>10. Ceil2(w) \in Nat
  BY CeilHalf
<1>11. CASE v.short
  <2>1. t = v
    BY <1>7, <1>11 DEF Folded
  <2>2. QED
    BY <1>2, <1>6, <1>11, <2>1 DEF Tracks
<1>12. CASE ~v.short /\ w = 1
  <2>1. v.width <= 1
    BY <1>6, <1>12
  <2>2. t = v
    BY <1>7, <2>1 DEF Folded
  <2>3. s.idx = 0 /\ u.idx = 0
    BY <1>8, <1>9, <1>12
  <2>4. Ceil2(w) = 1
    BY <1>12 DEF Ceil2
  <2>5. u.path = s.path
    BY <1>8, <1>12
  <2>6. QED
    BY <1>1, <1>2, <1>5, <1>6, <1>12, <2>2, <2>3, <2>4, <2>5 DEF Tracks
<1>13. CASE ~v.short /\ w > 1 /\ Alone(s.idx, w)
  <2>1. v.idx = s.idx /\ v.width = w /\ v.p = Len(s.path) /\ v.width > 1
    BY <1>6, <1>13
  <2>2. ~t.short /\ t.idx = s.idx \div 2 /\ t.width = Ceil2(w) /\ t.p = v.p /\ IsTurn(t)
    BY <1>7, <1>13, <2>1 DEF Folded
  <2>3. u.path = s.path
    BY <1>8, <1>13
  <2>4. QED
    BY <1>1, <1>2, <1>5, <1>6, <1>8, <1>10, <2>1, <2>2, <2>3 DEF Tracks
<1>14. CASE ~v.short /\ w > 1 /\ ~Alone(s.idx, w)
  <2>1. v.idx = s.idx /\ v.width = w /\ v.p = Len(s.path) /\ v.width > 1
    BY <1>6, <1>14
  <2>2. CASE v.p >= Len(path)
    <3>1. t = [v EXCEPT !.short = TRUE]
      BY <1>2, <1>14, <2>1, <2>2 DEF VerifyTurn
    <3>2. v = [hash |-> v.hash, idx |-> v.idx, width |-> v.width, p |-> v.p, short |-> v.short]
      BY <1>6 DEF IsTurn
    <3>3. t.short /\ t.width = v.width /\ t.p = v.p
      BY <3>1, <3>2
    <3>4. QED
      BY <1>2, <1>6, <1>7, <3>3 DEF Tracks, Folded
  <2>3. CASE ~(v.p >= Len(path))
    <3>1. ~t.short /\ t.idx = s.idx \div 2 /\ t.width = Ceil2(w) /\ t.p = v.p + 1 /\ IsTurn(t)
      BY <1>7, <1>14, <2>1, <2>3 DEF Folded
    <3>2. t.p \in Nat /\ t.p = Len(u.path)
      BY <1>6, <1>8, <1>14, <2>1, <3>1
    <3>3. QED
      BY <1>1, <1>2, <1>5, <1>8, <1>10, <3>1, <3>2 DEF Tracks
  <2>4. QED
    BY <2>2, <2>3
<1>15. w = 1 \/ w > 1
  <2>1. w >= 1
    BY <1>4
  <2>2. QED
    BY <2>1
<1>16. QED
  BY <1>11, <1>12, <1>13, <1>14, <1>15

LEMMA TracksAlways ==
  ASSUME NEW leaves, Len(leaves) \in Nat, Len(leaves) >= 1, NEW j \in 0..(Len(leaves) - 1),
         NEW claim, NEW path, Len(path) \in Nat
  PROVE  \A n \in 0..Len(leaves) :
           Tracks(leaves, j, VerifyTurns(claim, j, Len(leaves), path)[n], n)
<1> DEFINE N == Len(leaves)
<1>1. PICK V : V = VerifyTurns(claim, j, N, path)
  OBVIOUS
<1>2. /\ V[0] = [hash |-> claim, idx |-> j, width |-> N, p |-> 0, short |-> FALSE]
      /\ \A n \in 1..N : V[n] = VerifyTurn(V[n - 1], path)
  BY <1>1, VerifyTurnsRun
<1>3. PICK s : s = ProofTurns(leaves, j)[0]
  OBVIOUS
<1>4. s = [level |-> leaves, idx |-> j, path |-> <<>>]
  BY <1>3, ProofTurnsRun
<1> DEFINE T == {n \in Nat : n <= N /\ ~Tracks(leaves, j, V[n], n)}
<1>5. 0 \notin T
  <2>1. s.idx = j /\ s.path = <<>>
    BY <1>4
  <2>2. Len(s.path) = 0
    BY <2>1
  <2>3. PICK v : v = V[0]
    OBVIOUS
  <2>4. v.hash = claim /\ v.idx = j /\ v.width = N /\ v.p = 0 /\ v.short = FALSE
    BY <1>2, <2>3
  <2>5. IsTurn(v)
    BY <1>2, <2>3, <2>4 DEF IsTurn
  <2>6. Levels(leaves)[0] = leaves
    BY LevelsRun
  <2>7. Tracks(leaves, j, v, 0)
    BY <1>3, <2>1, <2>2, <2>4, <2>5, <2>6 DEF Tracks
  <2>8. QED
    BY <2>3, <2>7
<1>6. ASSUME NEW n \in Nat, n + 1 \in T
      PROVE  n \in T
  <2>1. n \in 0..(N - 1) /\ n + 1 \in 1..N /\ (n + 1) - 1 = n /\ ~Tracks(leaves, j, V[n + 1], n + 1)
    BY <1>6
  <2>2. V[n + 1] = VerifyTurn(V[n], path)
    BY <1>2, <2>1
  <2>3. PICK v : v = V[n]
    OBVIOUS
  <2>4. ~Tracks(leaves, j, v, n)
    BY <2>1, <2>2, <2>3, TrackStep
  <2>5. QED
    BY <2>1, <2>3, <2>4
<1>7. T = {}
  BY <1>5, <1>6, NoneFails
<1>8. QED
  BY <1>1, <1>7

(* The hash that is carried is the entry above the claim.                  *)
Carries(leaves, j, v, n) ==
  ~v.short /\ v.hash = Levels(leaves)[n][ProofTurns(leaves, j)[n].idx + 1]

Begins(q, path) == Len(q) <= Len(path) /\ \A k \in 1..Len(q) : path[k] = q[k]

(* Upwards, if the path brings the siblings; downwards because a node has  *)
(* one pair of children only.                                              *)
LEMMA CarryStep ==
  ASSUME NEW leaves, Len(leaves) \in Nat, Len(leaves) >= 1, NEW j \in 0..(Len(leaves) - 1),
         NEW n \in 0..(Len(leaves) - 1), NEW path, Len(path) \in Nat,
         NEW v, Tracks(leaves, j, v, n)
  PROVE  LET t == VerifyTurn(v, path)
             q == ProofTurns(leaves, j)[n].path
             r == ProofTurns(leaves, j)[n + 1].path
         IN  /\ Carries(leaves, j, v, n) /\ Begins(r, path) => Carries(leaves, j, t, n + 1)
             /\ Carries(leaves, j, t, n + 1) => Carries(leaves, j, v, n)
             /\ Carries(leaves, j, t, n + 1) /\ Begins(q, path) => Begins(r, path)
<1>1. PICK s, u : s = ProofTurns(leaves, j)[n] /\ u = ProofTurns(leaves, j)[n + 1]
  OBVIOUS
<1>2. PICK t : t = VerifyTurn(v, path)
  OBVIOUS
<1>3. n \in 0..Len(leaves) /\ n + 1 \in 1..Len(leaves) /\ n + 1 \in 0..Len(leaves) /\ (n + 1) - 1 = n
  OBVIOUS
<1>4. PICK low, up : low = Levels(leaves)[n] /\ up = Levels(leaves)[n + 1]
  OBVIOUS
<1>5. PICK w \in Nat : w = Len(low) /\ w >= 1
  BY <1>3, <1>4, WidthsShrink
<1>6. up = RootTurn(low)
  BY <1>3, <1>4, LevelsRun
<1>7. /\ IsTurn(v) /\ v.width \in Nat /\ v.p \in Nat
      /\ ~v.short => v.idx = s.idx /\ v.width = w /\ v.p = Len(s.path)
  BY <1>1, <1>4, <1>5 DEF Tracks
<1>8. Folded(v, t, path)
  BY <1>2, <1>7, VerifyTurnIs
<1>9. /\ u.idx = s.idx \div 2
      /\ w = 1 \/ Alone(s.idx, w) => u.path = s.path
      /\ w > 1 /\ ~Alone(s.idx, w) =>
           /\ Len(u.path) = Len(s.path) + 1
           /\ u.path[Len(s.path) + 1] = low[SiblingOf(s.idx) + 1]
           /\ \A k \in 1..Len(s.path) : u.path[k] = s.path[k]
  <2>1. Grows(leaves, j, n)
    BY ProofGrows
  <2>2. QED
    BY <1>1, <1>4, <1>5, <2>1 DEF Grows
<1>10. s.idx \in 0..(w - 1) /\ Len(s.path) \in Nat
  <2>1. OnLevel(leaves, s, n)
    BY <1>1, <1>3, ProofOnLevels
  <2>2. s.idx \in 0..(w - 1)
    BY <1>4, <1>5, <2>1 DEF OnLevel
  <2>3. Len(s.path) \in Nat
    BY <2>1 DEF OnLevel
  <2>4. QED
    BY <2>2, <2>3
<1> DEFINE Here  == ~v.short /\ v.hash = low[s.idx + 1]
           There == ~t.short /\ t.hash = up[u.idx + 1]
           Goal  == /\ Here /\ Begins(u.path, path) => There
                    /\ There => Here
                    /\ There /\ Begins(s.path, path) => Begins(u.path, path)
<1>11. SUFFICES Goal
  BY <1>1, <1>2, <1>4 DEF Carries
<1>12. CASE v.short
  <2>1. t = v
    BY <1>8, <1>12 DEF Folded
  <2>2. QED
    BY <1>12, <2>1
<1>13. CASE ~v.short /\ w = 1
  <2>1. t = v
    BY <1>7, <1>8, <1>13 DEF Folded
  <2>2. u.path = s.path /\ s.idx = 0 /\ u.idx = 0
    BY <1>9, <1>10, <1>13
  <2>3. up = low
    BY <1>5, <1>6, <1>13, RootTurnIs
  <2>4. QED
    BY <1>13, <2>1, <2>2, <2>3
<1>14. CASE ~v.short /\ w > 1 /\ Alone(s.idx, w)
  <2>1. v.idx = s.idx /\ v.width = w /\ v.width > 1
    BY <1>7, <1>14
  <2>2. ~t.short /\ t.hash = v.hash
    BY <1>8, <1>14, <2>1 DEF Folded
  <2>3. up[u.idx + 1] = low[s.idx + 1]
    BY <1>5, <1>6, <1>9, <1>10, <1>14, ParentIs
  <2>4. u.path = s.path
    BY <1>9, <1>14
  <2>5. QED
    BY <1>14, <2>2, <2>3, <2>4
<1>15. CASE ~v.short /\ w > 1 /\ ~Alone(s.idx, w)
  <2>1. v.idx = s.idx /\ v.width = w /\ v.width > 1 /\ v.p = Len(s.path)
    BY <1>7, <1>15
  <2>2. PICK m \in Nat : m = Len(s.path)
    BY <1>10
  <2>3. PICK x : x = low[SiblingOf(s.idx) + 1]
    OBVIOUS
  <2>4. /\ t.short <=> m >= Len(path)
        /\ ~t.short => t.hash = IF s.idx % 2 = 0 THEN Node(v.hash, path[m + 1])
                                ELSE Node(path[m + 1], v.hash)
    BY <1>8, <1>15, <2>1, <2>2 DEF Folded
  <2>5. up[u.idx + 1] = IF s.idx % 2 = 0 THEN Node(low[s.idx + 1], x) ELSE Node(x, low[s.idx + 1])
    <3>1. PICK idx \in 0..(w - 1) : idx = s.idx
      BY <1>10
    <3>2. /\ idx % 2 = 0 => up[(idx \div 2) + 1] = Node(low[idx + 1], low[SiblingOf(idx) + 1])
          /\ idx % 2 # 0 => up[(idx \div 2) + 1] = Node(low[SiblingOf(idx) + 1], low[idx + 1])
      <4>1. Len(low) \in Nat /\ Len(low) > 1 /\ idx \in 0..(Len(low) - 1) /\ ~Alone(idx, Len(low))
        BY <1>5, <1>15, <3>1
      <4>2. QED
        BY <1>6, <4>1, ParentIs
    <3>3. QED
      BY <1>9, <2>3, <3>1, <3>2
  <2>6. Len(u.path) = m + 1 /\ u.path[m + 1] = x /\ \A k \in 1..m : u.path[k] = s.path[k]
    BY <1>9, <1>15, <2>2, <2>3
  <2>7. Begins(u.path, path) => ~(m >= Len(path)) /\ path[m + 1] = x
    <3> SUFFICES ASSUME Len(u.path) <= Len(path), \A k \in 1..Len(u.path) : path[k] = u.path[k]
                 PROVE  ~(m >= Len(path)) /\ path[m + 1] = x
      BY DEF Begins
    <3>1. m + 1 \in 1..Len(u.path)
      BY <2>6
    <3>2. QED
      BY <2>6, <3>1
  <2>8. ~(m >= Len(path)) /\ path[m + 1] = x /\ Begins(s.path, path) => Begins(u.path, path)
    <3> SUFFICES ASSUME ~(m >= Len(path)), path[m + 1] = x,
                        \A k \in 1..m : path[k] = s.path[k]
                 PROVE  Begins(u.path, path)
      BY <2>2 DEF Begins
    <3>1. m + 1 <= Len(path)
      OBVIOUS
    <3>2. ASSUME NEW k \in 1..(m + 1)
          PROVE  path[k] = u.path[k]
      <4>1. CASE k = m + 1
        BY <2>6, <4>1
      <4>2. CASE k \in 1..m
        BY <2>6, <4>2
      <4>3. QED
        BY <4>1, <4>2
    <3>3. QED
      BY <2>6, <3>1, <3>2 DEF Begins
  <2>9. ~t.short /\ t.hash = up[u.idx + 1] => v.hash = low[s.idx + 1] /\ path[m + 1] = x
    <3>1. CASE s.idx % 2 = 0
      BY <2>4, <2>5, <3>1, NodeTells
    <3>2. CASE s.idx % 2 # 0
      BY <2>4, <2>5, <3>2, NodeTells
    <3>3. QED
      BY <3>1, <3>2
  <2>10. v.hash = low[s.idx + 1] /\ ~(m >= Len(path)) /\ path[m + 1] = x =>
           ~t.short /\ t.hash = up[u.idx + 1]
    BY <2>4, <2>5
  <2>11. QED
    BY <1>15, <2>4, <2>7, <2>8, <2>9, <2>10
<1>16. w = 1 \/ w > 1
  <2>1. w >= 1
    BY <1>5
  <2>2. QED
    BY <2>1
<1>17. QED
  BY <1>12, <1>13, <1>14, <1>15, <1>16

(* What verifyProof accepts, of any claim with any path: the leaf at that  *)
(* index with the path that merkleProof gives for it, whatever comes       *)
(* after it.  Nobody can find another path, or a path for another leaf.    *)
THEOREM OnlyItsPathVerifies ==
  ASSUME NEW leaves, Len(leaves) \in Nat, Len(leaves) >= 1, leaves # <<>>,
         NEW j \in 0..(Len(leaves) - 1), NEW claim, NEW path, Len(path) \in Nat
  PROVE  verifyProof(claim, j, Len(leaves), path, merkleRoot(leaves)) <=>
           claim = leaves[j + 1] /\ Begins(merkleProof(leaves, j), path)
<1> DEFINE N == Len(leaves)
<1>1. PICK V : V = VerifyTurns(claim, j, N, path)
  OBVIOUS
<1>2. PICK S : S = ProofTurns(leaves, j)
  OBVIOUS
<1>3. /\ V[0] = [hash |-> claim, idx |-> j, width |-> N, p |-> 0, short |-> FALSE]
      /\ \A n \in 1..N : V[n] = VerifyTurn(V[n - 1], path)
  BY <1>1, VerifyTurnsRun
<1>4. PICK P : P = merkleProof(leaves, j)
  OBVIOUS
<1>5. \A n \in 0..N : /\ Len(S[n].path) \in Nat /\ Len(S[n].path) <= Len(P)
                      /\ \A k \in 1..Len(S[n].path) : P[k] = S[n].path[k]
  BY <1>2, <1>4, ProofExtends
<1> DEFINE C(n) == Carries(leaves, j, V[n], n)
           B(n) == Begins(S[n].path, path)
<1>6. \A n \in 0..N : Tracks(leaves, j, V[n], n)
  BY <1>1, TracksAlways
<1>7. ASSUME NEW n \in 0..(N - 1)
      PROVE  /\ C(n) /\ B(n + 1) => C(n + 1)
             /\ C(n + 1) => C(n)
             /\ C(n + 1) /\ B(n) => B(n + 1)
  <2>1. n \in 0..N /\ n + 1 \in 1..N /\ (n + 1) - 1 = n
    OBVIOUS
  <2>2. V[n + 1] = VerifyTurn(V[n], path)
    BY <1>3, <2>1
  <2>3. PICK v : v = V[n]
    OBVIOUS
  <2>4. Tracks(leaves, j, v, n)
    BY <1>6, <2>1, <2>3
  <2>5. /\ Carries(leaves, j, v, n) /\ Begins(S[n + 1].path, path) =>
             Carries(leaves, j, VerifyTurn(v, path), n + 1)
        /\ Carries(leaves, j, VerifyTurn(v, path), n + 1) => Carries(leaves, j, v, n)
        /\ Carries(leaves, j, VerifyTurn(v, path), n + 1) /\ Begins(S[n].path, path) =>
             Begins(S[n + 1].path, path)
    BY <1>2, <2>4, CarryStep
  <2>6. QED
    BY <2>2, <2>3, <2>5
<1>8. C(0) <=> claim = leaves[j + 1]
  <2>1. V[0] = [hash |-> claim, idx |-> j, width |-> N, p |-> 0, short |-> FALSE]
    BY <1>3
  <2>2. S[0] = [level |-> leaves, idx |-> j, path |-> <<>>]
    BY <1>2, ProofTurnsRun
  <2>3. V[0].hash = claim /\ ~V[0].short /\ S[0].idx = j
    BY <2>1, <2>2
  <2>4. Levels(leaves)[0] = leaves
    BY LevelsRun
  <2>5. QED
    BY <1>2, <2>3, <2>4 DEF Carries
<1>9. B(0)
  <2>1. S[0] = [level |-> leaves, idx |-> j, path |-> <<>>]
    BY <1>2, ProofTurnsRun
  <2>2. S[0].path = <<>>
    BY <2>1
  <2>3. Len(S[0].path) = 0
    BY <2>2
  <2>4. QED
    BY <2>3 DEF Begins
<1>10. C(N) <=> verifyProof(claim, j, N, path, merkleRoot(leaves))
  <2>1. merkleRoot(leaves) = Levels(leaves)[N][1]
    BY DEF merkleRoot
  <2>2. S[N].idx = 0
    <3>1. N \in 0..N
      OBVIOUS
    <3>2. OnLevel(leaves, S[N], N)
      BY <1>2, <3>1, ProofOnLevels
    <3>3. Len(Levels(leaves)[N]) = 1
      BY LastWidth
    <3>4. S[N].idx \in 0..(1 - 1)
      BY <3>2, <3>3 DEF OnLevel
    <3>5. QED
      BY <3>4
  <2>3. C(N) <=> ~V[N].short /\ V[N].hash = Levels(leaves)[N][S[N].idx + 1]
    BY <1>2 DEF Carries
  <2>4. S[N].idx + 1 = 1
    BY <2>2
  <2>5. QED
    BY <1>1, <2>1, <2>3, <2>4 DEF verifyProof
<1> HIDE DEF C, B
<1>11. ASSUME C(N)
      PROVE  \A n \in 0..N : C(n)
  <2> DEFINE T == {d \in Nat : d <= N /\ ~C(N - d)}
  <2>1. 0 \notin T
    <3>1. N - 0 = N
      OBVIOUS
    <3>2. QED
      BY <1>11, <3>1
  <2>2. ASSUME NEW d \in Nat, d + 1 \in T
        PROVE  d \in T
    <3>1. d + 1 <= N /\ ~C(N - (d + 1))
      BY <2>2
    <3>2. N - (d + 1) \in 0..(N - 1) /\ N - d = (N - (d + 1)) + 1 /\ d <= N
      BY <3>1
    <3>3. PICK n \in 0..(N - 1) : n = N - (d + 1)
      BY <3>2
    <3>4. N - d = n + 1 /\ ~C(n)
      BY <3>1, <3>2, <3>3
    <3>5. ~C(n + 1)
      BY <1>7, <3>3, <3>4
    <3>6. ~C(N - d)
      BY <3>4, <3>5
    <3>7. QED
      BY <3>2, <3>6
  <2>3. T = {}
    BY <2>1, <2>2, NoneFails
  <2>4. ASSUME NEW n \in 0..N
        PROVE  C(n)
    <3>1. N - n \in Nat /\ N - n <= N /\ N - (N - n) = n
      OBVIOUS
    <3>2. PICK d \in Nat : d <= N /\ N - d = n
      BY <3>1
    <3>3. QED
      BY <2>3, <3>2
  <2>5. QED
    BY <2>4
<1>12. ASSUME C(N)
      PROVE  B(N)
  <2> DEFINE T == {n \in Nat : n <= N /\ ~B(n)}
  <2>1. 0 \notin T
    BY <1>9
  <2>2. ASSUME NEW n \in Nat, n + 1 \in T
        PROVE  n \in T
    <3>1. n \in 0..(N - 1) /\ n + 1 \in 0..N /\ ~B(n + 1)
      BY <2>2
    <3>2. C(n + 1)
      BY <1>11, <1>12, <3>1
    <3>3. QED
      BY <1>7, <3>1, <3>2
  <2>3. T = {}
    BY <2>1, <2>2, NoneFails
  <2>4. QED
    BY <2>3
<1>13. B(N) <=> Begins(merkleProof(leaves, j), path)
  BY <1>2 DEF B, merkleProof
<1>14. ASSUME C(0), B(N)
       PROVE  C(N)
  <2>1. \A n \in 0..N : B(n)
    <3> SUFFICES ASSUME NEW n \in 0..N
                 PROVE  B(n)
      OBVIOUS
    <3>1. PICK q : q = S[n].path
      OBVIOUS
    <3>2. Len(q) \in Nat /\ Len(q) <= Len(P) /\ \A k \in 1..Len(q) : P[k] = q[k]
      BY <1>5, <3>1
    <3>3. Len(P) <= Len(path) /\ \A k \in 1..Len(P) : path[k] = P[k]
      BY <1>4, <1>13, <1>14 DEF Begins
    <3>4. Len(P) \in Nat
      <4>1. N \in 0..N
        OBVIOUS
      <4>2. Len(S[N].path) \in Nat
        BY <1>2, <4>1, ProofExtends
      <4>3. QED
        BY <1>2, <1>4, <4>2 DEF merkleProof
    <3>5. Len(q) <= Len(path)
      BY <3>2, <3>3, <3>4
    <3>6. \A k \in 1..Len(q) : path[k] = q[k]
      <4>1. \A k \in 1..Len(q) : k \in 1..Len(P)
        BY <3>2, <3>4
      <4>2. QED
        BY <3>2, <3>3, <4>1
    <3>7. QED
      BY <3>1, <3>5, <3>6 DEF B, Begins
  <2> DEFINE T == {n \in Nat : n <= N /\ ~C(n)}
  <2>2. 0 \notin T
    BY <1>14
  <2>3. ASSUME NEW n \in Nat, n + 1 \in T
        PROVE  n \in T
    <3>1. n \in 0..(N - 1) /\ n + 1 \in 0..N /\ ~C(n + 1)
      BY <2>3
    <3>2. QED
      BY <1>7, <2>1, <3>1
  <2>4. T = {}
    BY <2>2, <2>3, NoneFails
  <2>5. QED
    BY <2>4
<1>15. ASSUME C(N)
       PROVE  C(0)
  <2>1. 0 \in 0..N
    OBVIOUS
  <2>2. QED
    BY <1>11, <1>15, <2>1
<1>16. C(N) <=> C(0) /\ B(N)
  BY <1>12, <1>14, <1>15
<1>17. QED
  BY <1>8, <1>10, <1>13, <1>16
---------------------------------------------------------------------------
(* Above the leaves every entry but the last is a node.                    *)
LEMMA InnerAreNodes ==
  ASSUME NEW leaves, Len(leaves) \in Nat, Len(leaves) >= 1, NEW n \in 1..Len(leaves),
         NEW i \in 1..(Len(Levels(leaves)[n]) - 1)
  PROVE  \E l, r : Levels(leaves)[n][i] = Node(l, r)
<1>1. n \in 0..Len(leaves) /\ n - 1 \in 0..Len(leaves) /\ n > 0
  OBVIOUS
<1>2. PICK low : low = Levels(leaves)[n - 1]
  OBVIOUS
<1>3. PICK w \in Nat : w = Len(low) /\ w >= 1
  BY <1>1, <1>2, WidthsShrink
<1>4. PICK up : up = Levels(leaves)[n]
  OBVIOUS
<1>5. up = RootTurn(low)
  BY <1>2, <1>4, LevelsRun
<1>6. Len(up) = Ceil2(w)
  BY <1>1, <1>2, <1>3, <1>4, WidthsShrink
<1>7. i \in 1..(Ceil2(w) - 1)
  BY <1>4, <1>6
<1>8. 2 * i <= w /\ i \in 1..Ceil2(w) /\ w > 1
  BY <1>3, <1>7 DEF Ceil2
<1>9. up[i] = Node(low[2 * i - 1], low[2 * i])
  <2>1. i \in 1..Len(RootTurn(low))
    BY <1>5, <1>6, <1>8
  <2>2. RootTurn(low)[i] = IF 2 * i <= Len(low) THEN Node(low[2 * i - 1], low[2 * i])
                           ELSE low[2 * i - 1]
    BY <1>3, <1>8, <2>1, RootTurnIs
  <2>3. QED
    BY <1>3, <1>5, <1>8, <2>2
<1>10. QED
  BY <1>4, <1>9

(* The last leaf of an odd number goes up alone until it is paired with an *)
(* entry that is a node.                                                   *)
Climbs(leaves, s, n) ==
  \/ Len(s.path) = 0 /\ s.idx = Len(Levels(leaves)[n]) - 1 /\ Len(Levels(leaves)[n]) >= 2
  \/ Len(s.path) >= 1 /\ \E l, r : s.path[1] = Node(l, r)

LEMMA ClimbStep ==
  ASSUME NEW leaves, Len(leaves) \in Nat, Len(leaves) >= 2, NEW j \in 0..(Len(leaves) - 1),
         Alone(j, Len(leaves)), NEW n \in 0..(Len(leaves) - 1),
         Climbs(leaves, ProofTurns(leaves, j)[n], n)
  PROVE  Climbs(leaves, ProofTurns(leaves, j)[n + 1], n + 1)
<1>1. PICK s, t : s = ProofTurns(leaves, j)[n] /\ t = ProofTurns(leaves, j)[n + 1]
  OBVIOUS
<1>2. /\ n \in 0..Len(leaves) /\ n + 1 \in 0..Len(leaves) /\ n + 1 > 0 /\ (n + 1) - 1 = n
      /\ Len(leaves) >= 1
  OBVIOUS
<1>3. PICK low, w : low = Levels(leaves)[n] /\ w = Len(low)
  OBVIOUS
<1>4. w \in Nat /\ w >= 1
  BY <1>2, <1>3, WidthsShrink
<1>5. Len(Levels(leaves)[n + 1]) = Ceil2(w)
  BY <1>2, <1>3, WidthsShrink
<1>6. /\ t.idx = s.idx \div 2
      /\ w = 1 \/ Alone(s.idx, w) => t.path = s.path
      /\ w > 1 /\ ~Alone(s.idx, w) =>
           /\ Len(t.path) = Len(s.path) + 1
           /\ t.path[Len(s.path) + 1] = low[SiblingOf(s.idx) + 1]
           /\ \A k \in 1..Len(s.path) : t.path[k] = s.path[k]
  <2>1. Grows(leaves, j, n)
    BY <1>2, ProofGrows
  <2>2. QED
    BY <1>1, <1>3, <2>1 DEF Grows
<1>7. Len(s.path) \in Nat
  BY <1>1, <1>2, ProofExtends
<1>8. w = 1 \/ w > 1
  BY <1>4
<1>9. CASE Len(s.path) >= 1 /\ \E l, r : s.path[1] = Node(l, r)
  <2>1. CASE w = 1 \/ Alone(s.idx, w)
    BY <1>1, <1>6, <1>9, <2>1 DEF Climbs
  <2>2. CASE w > 1 /\ ~Alone(s.idx, w)
    <3>1. 1 \in 1..Len(s.path) /\ Len(s.path) + 1 >= 1
      BY <1>7, <1>9
    <3>2. Len(t.path) >= 1 /\ t.path[1] = s.path[1]
      BY <1>6, <2>2, <3>1
    <3>3. QED
      BY <1>1, <1>9, <3>2 DEF Climbs
  <2>3. QED
    BY <1>8, <2>1, <2>2
<1>10. CASE Len(s.path) = 0 /\ s.idx = w - 1 /\ w >= 2
  <2>1. CASE Alone(s.idx, w)
    <3>1. w % 2 = 1
      BY <2>1 DEF Alone
    <3>2. (w - 1) \div 2 = Ceil2(w) - 1 /\ Ceil2(w) >= 2
      BY <1>4, <1>10, <3>1 DEF Ceil2
    <3>3. t.idx = Ceil2(w) - 1 /\ Len(t.path) = 0
      BY <1>6, <1>10, <2>1, <3>2
    <3>4. QED
      BY <1>1, <1>5, <3>2, <3>3 DEF Climbs
  <2>2. CASE ~Alone(s.idx, w)
    <3>1. n # 0
      <4> SUFFICES ASSUME n = 0
                   PROVE  FALSE
        OBVIOUS
      <4>1. s = [level |-> leaves, idx |-> j, path |-> <<>>]
        BY <1>1, ProofTurnsRun
      <4>2. low = leaves
        BY <1>3, LevelsRun
      <4>3. QED
        BY <1>3, <2>2, <4>1, <4>2
    <3>2. w % 2 = 0
      BY <1>4, <1>10, <2>2 DEF Alone
    <3>3. SiblingOf(w - 1) + 1 = w - 1
      BY <1>4, <1>10, <3>2 DEF SiblingOf
    <3>4. w > 1 /\ w - 1 \in 1..(w - 1)
      BY <1>4, <1>10
    <3>5. \E l, r : low[w - 1] = Node(l, r)
      <4>1. n \in 1..Len(leaves)
        BY <1>2, <3>1
      <4>2. QED
        BY <1>2, <1>3, <3>4, <4>1, InnerAreNodes
    <3>6. Len(t.path) = 1 /\ t.path[1] = low[w - 1]
      BY <1>6, <1>10, <2>2, <3>3, <3>4
    <3>7. QED
      BY <1>1, <3>5, <3>6 DEF Climbs
  <2>3. QED
    BY <2>1, <2>2
<1>11. QED
  BY <1>1, <1>3, <1>9, <1>10 DEF Climbs

LEMMA ClimbsAlways ==
  ASSUME NEW leaves, Len(leaves) \in Nat, Len(leaves) >= 2, NEW j \in 0..(Len(leaves) - 1),
         Alone(j, Len(leaves))
  PROVE  \A n \in 0..Len(leaves) : Climbs(leaves, ProofTurns(leaves, j)[n], n)
<1> DEFINE N == Len(leaves)
<1>1. PICK S : S = ProofTurns(leaves, j)
  OBVIOUS
<1> DEFINE T == {n \in Nat : n <= N /\ ~Climbs(leaves, S[n], n)}
<1>2. 0 \notin T
  <2>1. PICK s : s = S[0]
    OBVIOUS
  <2>2. s = [level |-> leaves, idx |-> j, path |-> <<>>]
    BY <1>1, <2>1, ProofTurnsRun
  <2>3. s.idx = j /\ s.path = <<>>
    BY <2>2
  <2>4. Len(s.path) = 0
    BY <2>3
  <2>5. Levels(leaves)[0] = leaves
    BY LevelsRun
  <2>6. j = N - 1
    BY DEF Alone
  <2>7. QED
    BY <2>1, <2>3, <2>4, <2>5, <2>6 DEF Climbs
<1>3. ASSUME NEW n \in Nat, n + 1 \in T
      PROVE  n \in T
  <2>1. n \in 0..(N - 1) /\ n <= N /\ ~Climbs(leaves, S[n + 1], n + 1)
    BY <1>3
  <2>2. ~Climbs(leaves, S[n], n)
    BY <1>1, <2>1, ClimbStep
  <2>3. QED
    BY <2>1, <2>2
<1>4. T = {}
  BY <1>2, <1>3, NoneFails
<1>5. QED
  BY <1>1, <1>4

(* What a proof starts with: the neighbour of its leaf, or a node when the *)
(* leaf is the last of an odd number.                                      *)
Starts(leaves, j, path) ==
  /\ Len(path) >= 1
  /\ ~Alone(j, Len(leaves)) =>
       SiblingOf(j) \in 0..(Len(leaves) - 1) /\ path[1] = leaves[SiblingOf(j) + 1]
  /\ Alone(j, Len(leaves)) => \E l, r : path[1] = Node(l, r)

LEMMA ProofStarts ==
  ASSUME NEW leaves, Len(leaves) \in Nat, Len(leaves) >= 2, NEW j \in 0..(Len(leaves) - 1)
  PROVE  Starts(leaves, j, merkleProof(leaves, j))
<1> DEFINE N == Len(leaves)
<1>1. PICK S : S = ProofTurns(leaves, j)
  OBVIOUS
<1>2. PICK P : P = merkleProof(leaves, j)
  OBVIOUS
<1>3. 0 \in 0..N /\ 1 \in 0..N /\ 0 \in 0..(N - 1) /\ N \in 0..N /\ N >= 1 /\ N > 1 /\ 0 + 1 = 1
  OBVIOUS
<1>4. \A n \in 0..N :
        /\ Len(S[n].path) \in Nat /\ Len(S[n].path) <= Len(P)
        /\ \A k \in 1..Len(S[n].path) : P[k] = S[n].path[k]
  BY <1>1, <1>2, <1>3, ProofExtends
<1>5. P = S[N].path
  BY <1>1, <1>2 DEF merkleProof
<1>6. CASE Alone(j, N)
  <2>1. Climbs(leaves, S[N], N)
    BY <1>1, <1>3, <1>6, ClimbsAlways
  <2>2. Len(Levels(leaves)[N]) = 1
    BY <1>3, LastWidth
  <2>3. Len(P) >= 1 /\ \E l, r : P[1] = Node(l, r)
    BY <1>5, <2>1, <2>2 DEF Climbs
  <2>4. QED
    BY <1>2, <1>6, <2>3 DEF Starts
<1>7. CASE ~Alone(j, N)
  <2>1. PICK s, t : s = S[0] /\ t = S[1]
    OBVIOUS
  <2>2. s.idx = j /\ s.path = <<>>
    <3>1. s = [level |-> leaves, idx |-> j, path |-> <<>>]
      BY <1>1, <2>1, ProofTurnsRun
    <3>2. QED
      BY <3>1
  <2>3. Len(s.path) = 0
    BY <2>2
  <2>4. Levels(leaves)[0] = leaves
    BY LevelsRun
  <2>5. Grows(leaves, j, 0)
    BY <1>3, ProofGrows
  <2>6. Len(t.path) = 0 + 1 /\ t.path[0 + 1] = leaves[SiblingOf(j) + 1]
    BY <1>1, <1>3, <1>7, <2>1, <2>2, <2>3, <2>4, <2>5 DEF Grows
  <2>7. Len(t.path) = 1 /\ t.path[1] = leaves[SiblingOf(j) + 1]
    BY <2>6
  <2>8. 1 \in 1..Len(t.path)
    BY <2>7
  <2>9. Len(t.path) <= Len(P) /\ P[1] = t.path[1]
    BY <1>3, <1>4, <2>1, <2>8
  <2>10. Len(P) \in Nat
    BY <1>3, <1>4, <1>5
  <2>11. Len(P) >= 1
    BY <2>7, <2>9, <2>10
  <2>12. SiblingOf(j) \in 0..(N - 1)
    BY <1>3, <1>7, SiblingIs
  <2>13. QED
    BY <1>2, <1>7, <2>7, <2>9, <2>11, <2>12 DEF Starts
<1>8. QED
  BY <1>6, <1>7

LEMMA SiblingsApart ==
  ASSUME NEW i \in Nat, NEW j \in Nat, SiblingOf(i) = SiblingOf(j)
  PROVE  i = j
BY DEF SiblingOf

(* The proofs of two leaves part at their first entry.                     *)
LEMMA ProofsPart ==
  ASSUME NEW leaves, AllLeaves(leaves),
         \A x, y \in 1..Len(leaves) : leaves[x] = leaves[y] => x = y,
         NEW i \in 0..(Len(leaves) - 1), NEW j \in 0..(Len(leaves) - 1), i # j
  PROVE  ~Begins(merkleProof(leaves, j), merkleProof(leaves, i))
<1>1. PICK N \in Nat : N = Len(leaves)
  BY DEF AllLeaves
<1>2. N >= 2 /\ i \in 0..(N - 1) /\ j \in 0..(N - 1) /\ i \in Nat /\ j \in Nat
  BY <1>1
<1>3. PICK p, q : p = merkleProof(leaves, i) /\ q = merkleProof(leaves, j)
  OBVIOUS
<1>4. Starts(leaves, i, p) /\ Starts(leaves, j, q)
  BY <1>1, <1>2, <1>3, ProofStarts
<1>5. Len(q) \in Nat
  <2>1. N \in 0..N /\ N >= 1
    BY <1>2
  <2>2. Len(ProofTurns(leaves, j)[N].path) \in Nat
    BY <1>1, <2>1, ProofExtends
  <2>3. QED
    BY <1>1, <1>3, <2>2 DEF merkleProof
<1> SUFFICES ASSUME Begins(q, p)
             PROVE  FALSE
  BY <1>3
<1>6. p[1] = q[1]
  <2>1. 1 \in 1..Len(q)
    BY <1>4, <1>5 DEF Starts
  <2>2. QED
    BY <2>1 DEF Begins
<1>7. ASSUME NEW x \in 1..N, NEW l, NEW r, leaves[x] = Node(l, r)
      PROVE  FALSE
  <2>1. PICK data : leaves[x] = leafHash(data)
    BY <1>1 DEF AllLeaves
  <2>2. QED
    BY <1>7, <2>1, NodeNoLeaf
<1>8. /\ ~Alone(i, N) => SiblingOf(i) \in 0..(N - 1) /\ p[1] = leaves[SiblingOf(i) + 1]
      /\ Alone(i, N) => \E l, r : p[1] = Node(l, r)
  BY <1>1, <1>4 DEF Starts
<1>9. /\ ~Alone(j, N) => SiblingOf(j) \in 0..(N - 1) /\ q[1] = leaves[SiblingOf(j) + 1]
      /\ Alone(j, N) => \E l, r : q[1] = Node(l, r)
  BY <1>1, <1>4 DEF Starts
<1>10. CASE Alone(i, N) /\ Alone(j, N)
  BY <1>10 DEF Alone
<1>11. CASE ~Alone(i, N) /\ ~Alone(j, N)
  <2>1. PICK x \in 0..(N - 1), y \in 0..(N - 1) : x = SiblingOf(i) /\ y = SiblingOf(j)
    BY <1>8, <1>9, <1>11
  <2>2. leaves[x + 1] = leaves[y + 1]
    BY <1>6, <1>8, <1>9, <1>11, <2>1
  <2>3. x + 1 \in 1..Len(leaves) /\ y + 1 \in 1..Len(leaves)
    BY <1>1
  <2>4. x + 1 = y + 1
    BY <2>2, <2>3
  <2>5. x = y
    BY <2>4
  <2>6. QED
    BY <1>2, <2>1, <2>5, SiblingsApart
<1>12. CASE ~Alone(i, N) /\ Alone(j, N)
  <2>1. PICK x \in 0..(N - 1) : p[1] = leaves[x + 1]
    BY <1>8, <1>12
  <2>2. x + 1 \in 1..N
    OBVIOUS
  <2>3. QED
    BY <1>6, <1>7, <1>9, <1>12, <2>1, <2>2
<1>13. CASE Alone(i, N) /\ ~Alone(j, N)
  <2>1. PICK x \in 0..(N - 1) : q[1] = leaves[x + 1]
    BY <1>9, <1>13
  <2>2. x + 1 \in 1..N
    OBVIOUS
  <2>3. QED
    BY <1>6, <1>7, <1>8, <1>13, <2>1, <2>2
<1>14. QED
  BY <1>10, <1>11, <1>12, <1>13

(* For a box of any size: a proof verifies for its own leaf at its own     *)
(* index and for nothing else, also where a tree is uneven and a proof is  *)
(* shorter than the tree is high (merkleProof, verifyProof).               *)
THEOREM ProofAlwaysPins == MerkleSpec => []ProofPinsLeaf
<1>1. BoxInv => ProofPinsLeaf
  <2> SUFFICES ASSUME BoxInv,
                      NEW i \in 0..(Len(boxed) - 1), NEW j \in 0..(Len(boxed) - 1), NEW claim
               PROVE  verifyProof(claim, j, Len(boxed), merkleProof(BoxLeaves, i), merkleRoot(BoxLeaves))
                        <=> (i = j /\ claim = BoxLeaves[i + 1])
    BY DEF ProofPinsLeaf
  <2>1. PICK s : s = BoxLeaves
    OBVIOUS
  <2>2. PICK N \in Nat : N = Len(boxed)
    BY DEF BoxInv
  <2>3. s = LeavesOf(boxed)
    BY <2>1 DEF BoxLeaves, LeavesOf
  <2>4. Len(s) = N /\ AllLeaves(s) /\ \A x \in 1..N : s[x] = ballotLeaf(boxed[x])
    BY <2>2, <2>3, LeavesOfIs DEF BoxInv
  <2>5. N >= 1 /\ s # <<>>
    <3>1. N >= 1
      BY <2>2
    <3>2. QED
      BY <2>2, <2>3, <2>4, <3>1, LeavesOfIs DEF BoxInv
  <2>6. ASSUME NEW x \in 1..N, NEW y \in 1..N, s[x] = s[y]
        PROVE  x = y
    <3>1. boxed[x] \in CastBallots /\ boxed[y] \in CastBallots
      BY <2>2 DEF BoxInv
    <3>2. boxed[x].id \in Int /\ boxed[y].id \in Int
      BY <3>1, CastBallotsAssumption
    <3>3. ballotLeaf(boxed[x]) = ballotLeaf(boxed[y])
      BY <2>4, <2>6
    <3>4. <<boxed[x].id, boxed[x].castAtHour, boxed[x].sealedVote>>
            = <<boxed[y].id, boxed[y].castAtHour, boxed[y].sealedVote>>
      BY <3>3, LeafTells DEF ballotLeaf
    <3>5. boxed[x].id = boxed[y].id
      BY <3>4
    <3>6. (x < y => boxed[x].id < boxed[y].id) /\ (y < x => boxed[y].id < boxed[x].id)
      BY <2>2 DEF BoxInv
    <3>7. ~(x < y) /\ ~(y < x)
      BY <3>2, <3>5, <3>6
    <3>8. QED
      BY <3>7
  <2>7. PICK p : p = merkleProof(s, i)
    OBVIOUS
  <2>8. Len(p) \in Nat
    <3>1. N \in 0..N /\ i \in 0..(N - 1)
      BY <2>2
    <3>2. Len(ProofTurns(s, i)[N].path) \in Nat
      BY <2>4, <2>5, <3>1, ProofExtends
    <3>3. QED
      BY <2>4, <2>7, <3>2 DEF merkleProof
  <2>9. i \in 0..(Len(s) - 1) /\ j \in 0..(Len(s) - 1) /\ Len(s) \in Nat /\ Len(s) >= 1
    BY <2>2, <2>4, <2>5
  <2>10. verifyProof(claim, j, Len(s), p, merkleRoot(s)) <=>
           claim = s[j + 1] /\ Begins(merkleProof(s, j), p)
    BY <2>5, <2>8, <2>9, OnlyItsPathVerifies
  <2>11. CASE i = j
    <3>1. Begins(p, p)
      BY <2>8 DEF Begins
    <3>2. QED
      BY <2>1, <2>2, <2>4, <2>7, <2>10, <2>11, <3>1
  <2>12. CASE i # j
    <3>1. \A x, y \in 1..Len(s) : s[x] = s[y] => x = y
      BY <2>4, <2>6
    <3>2. ~Begins(merkleProof(s, j), p)
      BY <2>4, <2>7, <2>9, <2>12, <3>1, ProofsPart
    <3>3. QED
      BY <2>1, <2>2, <2>4, <2>7, <2>10, <2>12, <3>2
  <2>13. QED
    BY <2>11, <2>12
<1>2. QED
  BY <1>1, BoxAlways, PTL
---------------------------------------------------------------------------
(* The field of 256 elements                                               *)

LEMMA XorByte ==
  ASSUME NEW a \in Byte, NEW b \in Byte
  PROVE  a ^^ b \in Byte
BY DEF ^^, Byte

LEMMA XorLaws ==
  ASSUME NEW a, NEW b, NEW c
  PROVE  /\ a ^^ b = b ^^ a
         /\ (a ^^ b) ^^ c = a ^^ (b ^^ c)
         /\ a ^^ Zero = a /\ Zero ^^ a = a
         /\ a ^^ a = Zero
         /\ a ^^ b = Zero => a = b
<1>1. a ^^ b = b ^^ a
  BY DEF ^^
<1>2. (a ^^ b) ^^ c = a ^^ (b ^^ c)
  BY DEF ^^
<1>3. a ^^ Zero = a /\ Zero ^^ a = a /\ a ^^ a = Zero
  BY DEF ^^, Zero
<1>4. a ^^ b = Zero => a = b
  BY DEF ^^, Zero
<1>5. QED
  BY <1>1, <1>2, <1>3, <1>4

LEMMA XorFour ==
  ASSUME NEW a, NEW b, NEW c, NEW d
  PROVE  (a ^^ b) ^^ (c ^^ d) = (a ^^ c) ^^ (b ^^ d)
<1>1. (a ^^ b) ^^ (c ^^ d) = a ^^ (b ^^ (c ^^ d))
  BY XorLaws
<1>2. b ^^ (c ^^ d) = (b ^^ c) ^^ d /\ (c ^^ b) ^^ d = c ^^ (b ^^ d) /\ b ^^ c = c ^^ b
  BY XorLaws
<1>3. a ^^ (c ^^ (b ^^ d)) = (a ^^ c) ^^ (b ^^ d)
  BY XorLaws
<1>4. QED
  BY <1>1, <1>2, <1>3

LEMMA ReducedLinear ==
  ASSUME NEW a, NEW b
  PROVE  Reduced(a ^^ b) = Reduced(a) ^^ Reduced(b)
<1>1. PICK m : m = {0, 1, 3, 4, 8}
  OBVIOUS
<1>2. 8 \in a ^^ b <=> ~(8 \in a <=> 8 \in b)
  BY DEF ^^
<1>3. \A d : Reduced(d) = IF 8 \in d THEN d ^^ m ELSE d
  BY <1>1 DEF Reduced
<1>4. (a ^^ m) ^^ (b ^^ m) = (a ^^ b) ^^ Zero /\ (a ^^ m) ^^ b = (a ^^ b) ^^ m
      /\ a ^^ (b ^^ m) = (a ^^ b) ^^ m
  <2>1. (a ^^ m) ^^ (b ^^ m) = (a ^^ b) ^^ (m ^^ m) /\ m ^^ m = Zero
    BY XorFour, XorLaws
  <2>2. (a ^^ m) ^^ b = a ^^ (m ^^ b) /\ m ^^ b = b ^^ m /\ a ^^ (b ^^ m) = (a ^^ b) ^^ m
    BY XorLaws
  <2>3. QED
    BY <2>1, <2>2
<1>5. (a ^^ b) ^^ Zero = a ^^ b
  BY XorLaws
<1>6. QED
  BY <1>2, <1>3, <1>4, <1>5

LEMMA ReducedByte ==
  ASSUME NEW d, d \subseteq 0..8
  PROVE  Reduced(d) \in Byte
BY DEF Reduced, ^^, Byte

LEMMA Times3Is ==
  ASSUME NEW a \in Byte, NEW b \in Byte
  PROVE  /\ times3[a] \in Byte
         /\ times3[a ^^ b] = times3[a] ^^ times3[b]
         /\ times3[Zero] = Zero
<1> DEFINE Up(x) == {i + 1 : i \in x}
<1>1. \A x \in Byte : times3[x] = Reduced(Up(x)) ^^ x
  BY DEF times3, times2
<1>2. \A x \in Byte : Up(x) \subseteq 0..8
  BY DEF Byte
<1>3. times3[a] \in Byte
  <2>1. Reduced(Up(a)) \in Byte
    <3> HIDE DEF Up
    <3>1. QED
      BY <1>2, ReducedByte
  <2>2. QED
    BY <1>1, <2>1, XorByte
<1>4. Up(a ^^ b) = Up(a) ^^ Up(b)
  <2>1. \A i \in 0..7, j \in 0..7 : i + 1 = j + 1 => i = j
    OBVIOUS
  <2>2. ASSUME NEW y
        PROVE  y \in Up(a ^^ b) <=> y \in Up(a) ^^ Up(b)
    <3>1. y \in Up(a ^^ b) <=> \E i \in 0..7 : y = i + 1 /\ ~(i \in a <=> i \in b)
      BY DEF Byte, ^^
    <3>2. y \in Up(a) <=> \E i \in 0..7 : y = i + 1 /\ i \in a
      BY DEF Byte
    <3>3. y \in Up(b) <=> \E i \in 0..7 : y = i + 1 /\ i \in b
      BY DEF Byte
    <3>4. y \in Up(a) ^^ Up(b) <=> ~(y \in Up(a) <=> y \in Up(b))
      <4> HIDE DEF Up
      <4>1. QED
        BY DEF ^^
    <3> HIDE DEF Up
    <3>5. QED
      BY <2>1, <3>1, <3>2, <3>3, <3>4
  <2> HIDE DEF Up
  <2>3. QED
    BY <2>2
<1>5. times3[a ^^ b] = times3[a] ^^ times3[b]
  <2>1. PICK p, q : p = Up(a) /\ q = Up(b)
    OBVIOUS
  <2>2. Reduced(Up(a ^^ b)) = Reduced(p) ^^ Reduced(q)
    <3> HIDE DEF Up
    <3>1. QED
      BY <1>4, <2>1, ReducedLinear
  <2>3. (Reduced(p) ^^ Reduced(q)) ^^ (a ^^ b) = (Reduced(p) ^^ a) ^^ (Reduced(q) ^^ b)
    BY XorFour
  <2>4. a ^^ b \in Byte
    BY XorByte
  <2> HIDE DEF Up
  <2>5. QED
    BY <1>1, <2>1, <2>2, <2>3, <2>4
<1>6. times3[Zero] = Zero
  <2>1. Zero \in Byte /\ Zero ^^ Zero = Zero
    BY XorLaws DEF Byte, Zero
  <2>2. Up(Zero) = Zero
    BY DEF Zero
  <2>3. Reduced(Zero) = Zero
    BY DEF Reduced, Zero
  <2> HIDE DEF Up
  <2>4. QED
    BY <1>1, <2>1, <2>2, <2>3
<1>7. QED
  BY <1>3, <1>5, <1>6

LEMMA Times3Kernel ==
  ASSUME NEW x \in Byte, times3[x] = Zero
  PROVE  x = Zero
<1>1. PICK m : m = {0, 1, 3, 4, 8}
  OBVIOUS
<1>2. PICK u : u = {i + 1 : i \in x}
  OBVIOUS
<1>3. x = (IF 8 \in u THEN u ^^ m ELSE u)
  <2>1. times3[x] = Reduced(u) ^^ x
    BY <1>2 DEF times3, times2
  <2>2. Reduced(u) = x
    BY <2>1, XorLaws
  <2>3. QED
    BY <1>1, <2>2 DEF Reduced
<1>4. 0 \notin u
  BY <1>2 DEF Byte
<1>5. \A i \in 0..7 : i + 1 \in u <=> i \in x
  BY <1>2 DEF Byte
<1>6. /\ 1 \in u <=> 0 \in x
      /\ 2 \in u <=> 1 \in x
      /\ 3 \in u <=> 2 \in x
      /\ 4 \in u <=> 3 \in x
      /\ 5 \in u <=> 4 \in x
      /\ 6 \in u <=> 5 \in x
      /\ 7 \in u <=> 6 \in x
      /\ 8 \in u <=> 7 \in x
  <2>1. /\ 0 + 1 \in u <=> 0 \in x
        /\ 1 + 1 \in u <=> 1 \in x
        /\ 2 + 1 \in u <=> 2 \in x
        /\ 3 + 1 \in u <=> 3 \in x
        /\ 4 + 1 \in u <=> 4 \in x
        /\ 5 + 1 \in u <=> 5 \in x
        /\ 6 + 1 \in u <=> 6 \in x
        /\ 7 + 1 \in u <=> 7 \in x
    BY <1>5
  <2>2. QED
    BY <2>1
<1>7. /\ 0 \in m /\ 1 \in m /\ 3 \in m /\ 4 \in m
      /\ 2 \notin m /\ 5 \notin m /\ 6 \notin m /\ 7 \notin m
  BY <1>1
<1>8. \A i : i \in x <=> IF 8 \in u THEN ~(i \in u <=> i \in m) ELSE i \in u
  <2>1. CASE 8 \in u
    BY <1>3, <2>1 DEF ^^
  <2>2. CASE 8 \notin u
    BY <1>3, <2>2
  <2>3. QED
    BY <2>1, <2>2
<1>9. /\ 0 \notin x /\ 1 \notin x /\ 2 \notin x /\ 3 \notin x
      /\ 4 \notin x /\ 5 \notin x /\ 6 \notin x /\ 7 \notin x
  BY <1>4, <1>6, <1>7, <1>8
<1>10. \A i \in 0..7 : i \notin x
  <2>1. \A i \in 0..7 : i = 0 \/ i = 1 \/ i = 2 \/ i = 3 \/ i = 4 \/ i = 5 \/ i = 6 \/ i = 7
    OBVIOUS
  <2>2. QED
    BY <1>9, <2>1
<1>11. QED
  BY <1>10 DEF Byte, Zero

LEMMA TableIs ==
  /\ \A i \in 0..254 : EXP[i] \in Byte /\ EXP[i] # Zero /\ LOG[EXP[i]] = i
  /\ \A x \in Byte : x # Zero => LOG[x] \in 0..254 /\ EXP[LOG[x]] = x
  /\ \A i, j \in 0..254 : EXP[i] = EXP[j] => i = j
BY TableAssumption

(* The table: what its definition says.                                    *)
LEMMA TableDefined ==
  /\ EXP[0] = One
  /\ \A i \in 1..254 :
       EXP[i] = IF i % 16 = 0 THEN times3To16[EXP[i - 16]] ELSE times3[EXP[i - 1]]
<1> DEFINE Entry(g, i) ==
             IF i = 0 THEN One
             ELSE IF i % 16 = 0 THEN times3To16[g[i - 16]] ELSE times3[g[i - 1]]
           Runs(n, g) == g = [i \in 0..n |-> Entry(g, i)]
           T == {n \in Nat : ~\E g : Runs(n, g)}
<1>1. 0 \notin T
  <2>1. Runs(0, [i \in 0..0 |-> One])
    OBVIOUS
  <2>2. QED
    BY <2>1
<1>2. ASSUME NEW n \in Nat, n + 1 \in T
      PROVE  n \in T
  <2> SUFFICES ASSUME NEW g, Runs(n, g)
               PROVE  FALSE
    BY <1>2
  <2> DEFINE h == [i \in 0..(n + 1) |-> IF i = n + 1 THEN Entry(g, i) ELSE g[i]]
  <2>1. \A i \in 0..(n + 1) : h[i] = Entry(h, i)
    <3> SUFFICES ASSUME NEW i \in 0..(n + 1)
                 PROVE  h[i] = Entry(h, i)
      OBVIOUS
    <3>1. CASE i = 0
      BY <3>1
    <3>2. CASE i # 0
      <4>1. h[i] = Entry(g, i)
        <5>1. CASE i = n + 1
          BY <5>1
        <5>2. CASE i # n + 1
          <6>1. i \in 0..n /\ h[i] = g[i]
            BY <5>2
          <6>2. g[i] = [j \in 0..n |-> Entry(g, j)][i]
            OBVIOUS
          <6>3. QED
            BY <6>1, <6>2
        <5>3. QED
          BY <5>1, <5>2
      <4>2. i - 1 \in 0..n /\ h[i - 1] = g[i - 1]
        BY <3>2
      <4>3. ASSUME i % 16 = 0
            PROVE  i - 16 \in 0..n /\ h[i - 16] = g[i - 16]
        <5> HIDE DEF h, Entry
        <5>1. i \in Nat /\ i >= 16 /\ i <= n + 1
          BY <3>2, <4>3
        <5>2. PICK m \in 0..n : m = i - 16 /\ m # n + 1
          BY <5>1
        <5>3. h[m] = g[m]
          BY <5>2 DEF h
        <5>4. QED
          BY <5>2, <5>3
      <4>4. QED
        BY <3>2, <4>1, <4>2, <4>3
    <3>3. QED
      BY <3>1, <3>2
  <2>2. Runs(n + 1, h)
    BY <2>1
  <2>3. QED
    BY <1>2, <2>2
<1>3. T = {}
  BY <1>1, <1>2, NoneFails
<1>4. \E g : Runs(254, g)
  <2>1. 254 \in Nat
    OBVIOUS
  <2>2. QED
    BY <1>3, <2>1
<1>5. Runs(254, EXP)
  BY <1>4 DEF EXP
<1>6. ASSUME NEW n \in Nat, NEW f, Runs(n, f)
      PROVE  /\ f[0] = One
             /\ \A i \in 1..n :
                  f[i] = IF i % 16 = 0 THEN times3To16[f[i - 16]] ELSE times3[f[i - 1]]
  BY <1>6
<1> HIDE DEF Runs
<1>7. 254 \in Nat
  OBVIOUS
<1>8. QED
  BY <1>5, <1>6, <1>7

(* Looking back over 16 turns is multiplying by 3 at each of them.         *)
LEMMA SixteenTurns ==
  ASSUME NEW p, \A j \in 0..16 : p[j] \in Byte, \A j \in 0..15 : p[j + 1] = times3[p[j]]
  PROVE  times3To16[p[0]] = p[16]
<1> DEFINE t2 == Twice(times3)
           t4 == Twice(t2)
           t8 == Twice(t4)
<1>1. \A j \in 0..14 : t2[p[j]] = p[j + 2]
  <2> SUFFICES ASSUME NEW j \in 0..14
               PROVE  t2[p[j]] = p[j + 2]
    OBVIOUS
  <2>1. p[j + 1] = times3[p[j]] /\ p[(j + 1) + 1] = times3[p[j + 1]]
    OBVIOUS
  <2>2. t2[p[j]] = times3[times3[p[j]]]
    BY DEF Twice
  <2>3. QED
    BY <2>1, <2>2
<1> HIDE DEF t2
<1>2. \A j \in 0..12 : t4[p[j]] = p[j + 4]
  <2> SUFFICES ASSUME NEW j \in 0..12
               PROVE  t4[p[j]] = p[j + 4]
    OBVIOUS
  <2>1. t2[p[j]] = p[j + 2] /\ t2[p[j + 2]] = p[(j + 2) + 2]
    BY <1>1
  <2>2. t4[p[j]] = t2[t2[p[j]]]
    BY DEF Twice
  <2>3. QED
    BY <2>1, <2>2
<1> HIDE DEF t4
<1>3. t8[p[0]] = p[8] /\ t8[p[8]] = p[16]
  <2>1. /\ t4[p[0]] = p[4] /\ t4[p[4]] = p[8]
        /\ t4[p[8]] = p[12] /\ t4[p[12]] = p[16]
    BY <1>2
  <2>2. t8[p[0]] = t4[t4[p[0]]] /\ t8[p[8]] = t4[t4[p[8]]]
    BY DEF Twice
  <2>3. QED
    BY <2>1, <2>2
<1>4. times3To16 = Twice(t8)
  BY DEF times3To16, t2, t4
<1> HIDE DEF t8
<1>5. Twice(t8)[p[0]] = t8[t8[p[0]]]
  BY DEF Twice
<1>6. QED
  BY <1>3, <1>4, <1>5

(* So each power is three times the one before it, also around the end.    *)
LEMMA TableRuns ==
  /\ EXP[0] = One
  /\ \A i \in 1..254 : EXP[i] = times3[EXP[i - 1]]
<1> SUFFICES ASSUME NEW i \in 1..254
             PROVE  EXP[i] = times3[EXP[i - 1]]
  BY TableDefined
<1>1. CASE i % 16 # 0
  BY <1>1, TableDefined
<1>2. CASE i % 16 = 0
  <2> DEFINE p == [j \in 0..16 |-> IF j = 16 THEN times3[EXP[i - 1]] ELSE EXP[(i - 16) + j]]
  <2>1. \A j \in 0..15 : (i - 16) + j \in 0..254
    BY <1>2
  <2>2. \A j \in 0..15 : p[j] = EXP[(i - 16) + j]
    OBVIOUS
  <2>3. p[16] = times3[EXP[i - 1]] /\ EXP[i - 1] \in Byte
    <3>1. i - 1 \in 0..254
      OBVIOUS
    <3>2. EXP[i - 1] \in Byte
      BY <3>1, TableIs
    <3>3. p[16] = times3[EXP[i - 1]]
      OBVIOUS
    <3>4. QED
      BY <3>2, <3>3
  <2>4. \A j \in 0..16 : p[j] \in Byte
    <3>1. \A j \in 0..15 : p[j] \in Byte
      BY <2>1, <2>2, TableIs
    <3>2. p[16] \in Byte
      BY <2>3, Times3Is
    <3>3. QED
      BY <3>1, <3>2
  <2>5. \A j \in 0..15 : p[j + 1] = times3[p[j]]
    <3> SUFFICES ASSUME NEW j \in 0..15
                 PROVE  p[j + 1] = times3[p[j]]
      OBVIOUS
    <3>1. CASE j = 15
      BY <2>2, <2>3, <3>1
    <3>2. CASE j # 15
      <4>1. PICK m \in 1..254 : m = (i - 16) + (j + 1) /\ m % 16 # 0 /\ m - 1 = (i - 16) + j
        <5>1. (i - 16) + (j + 1) \in 1..254
          BY <1>2, <3>2
        <5>2. ((i - 16) + (j + 1)) % 16 # 0
          BY <1>2, <3>2
        <5>3. QED
          BY <5>1, <5>2
      <4>2. EXP[m] = times3[EXP[m - 1]]
        BY <4>1, TableDefined
      <4>3. p[j] = EXP[m - 1] /\ p[j + 1] = EXP[m]
        BY <2>2, <3>2, <4>1
      <4>4. QED
        BY <4>2, <4>3
    <3>3. QED
      BY <3>1, <3>2
  <2> HIDE DEF p
  <2>6. times3To16[p[0]] = p[16]
    BY <2>4, <2>5, SixteenTurns
  <2>7. p[0] = EXP[i - 16]
    BY <2>1, <2>2 DEF p
  <2>8. EXP[i] = times3To16[EXP[i - 16]]
    BY <1>2, TableDefined
  <2>9. QED
    BY <2>3, <2>6, <2>7, <2>8
<1>3. QED
  BY <1>1, <1>2

LEMMA TableWraps == times3[EXP[254]] = EXP[0]
<1>1. 254 \in 0..254 /\ 0 \in 0..254
  OBVIOUS
<1>2. PICK z : z = EXP[254]
  OBVIOUS
<1>3. z \in Byte /\ z # Zero
  BY <1>1, <1>2, TableIs
<1>4. times3[z] \in Byte /\ times3[z] # Zero
  BY <1>3, Times3Is, Times3Kernel
<1>5. PICK m \in 0..254 : EXP[m] = times3[z]
  BY <1>4, TableIs
<1>6. m = 0
  <2> SUFFICES ASSUME m # 0
               PROVE  FALSE
    OBVIOUS
  <2>1. PICK n \in 0..254 : n = m - 1 /\ n # 254 /\ m \in 1..254
    <3>1. m - 1 \in 0..254 /\ m - 1 # 254 /\ m \in 1..254
      OBVIOUS
    <3>2. QED
      BY <3>1
  <2>2. PICK y : y = EXP[n]
    OBVIOUS
  <2>3. y \in Byte
    BY <2>1, <2>2, TableIs
  <2>4. times3[y] = times3[z]
    BY <1>5, <2>1, <2>2, TableRuns
  <2>5. times3[y ^^ z] = Zero /\ y ^^ z \in Byte
    <3>1. times3[y ^^ z] = times3[y] ^^ times3[z]
      BY <1>3, <2>3, Times3Is
    <3>2. times3[z] ^^ times3[z] = Zero
      BY XorLaws
    <3>3. QED
      BY <1>3, <2>3, <2>4, <3>1, <3>2, XorByte
  <2>6. y = z
    BY <2>5, Times3Kernel, XorLaws
  <2>7. n = 254
    <3>1. EXP[n] = EXP[254]
      BY <1>2, <2>2, <2>6
    <3>2. \A i \in 0..254 : LOG[EXP[i]] = i
      BY TableIs
    <3>3. LOG[EXP[n]] = n
      BY <3>2
    <3>4. LOG[EXP[254]] = 254
      BY <1>1, <3>2
    <3>5. QED
      BY <3>1, <3>3, <3>4
  <2>8. QED
    BY <2>1, <2>7
<1>7. QED
  BY <1>2, <1>5, <1>6

(* Multiplication adds exponents.                                          *)
LEMMA OneIsPower == EXP[0] = One /\ One \in Byte /\ One # Zero /\ Zero \in Byte
BY TableRuns DEF One, Zero, Byte

SumOf(i, j, n) == n = i + j \/ n = i + j - 255

LEMMA SumIn ==
  ASSUME NEW i \in 0..254, NEW j \in 0..254
  PROVE  \E n \in 0..254 : SumOf(i, j, n)
<1>1. CASE i + j <= 254
  <2>1. i + j \in 0..254
    BY <1>1
  <2>2. QED
    BY <2>1 DEF SumOf
<1>2. CASE ~(i + j <= 254)
  <2>1. i + j - 255 \in 0..254
    BY <1>2
  <2>2. QED
    BY <2>1 DEF SumOf
<1>3. QED
  BY <1>1, <1>2

LEMMA MulPowers ==
  ASSUME NEW i \in 0..254, NEW j \in 0..254, NEW n \in 0..254, SumOf(i, j, n)
  PROVE  mul(EXP[i], EXP[j]) = EXP[n]
<1>1. (i + j) % 255 = n
  BY DEF SumOf
<1>2. EXP[i] # Zero /\ EXP[j] # Zero
  BY TableIs
<1>3. \A m \in 0..254 : LOG[EXP[m]] = m
  BY TableIs
<1>4. LOG[EXP[i]] = i /\ LOG[EXP[j]] = j
  BY <1>3
<1>5. mul(EXP[i], EXP[j]) = EXP[(i + j) % 255]
  BY <1>2, <1>4 DEF mul
<1>6. QED
  BY <1>1, <1>5

LEMMA IsPower ==
  ASSUME NEW a \in Byte, a # Zero
  PROVE  \E i \in 0..254 : a = EXP[i]
BY TableIs

LEMMA MulZero ==
  ASSUME NEW a
  PROVE  mul(Zero, a) = Zero /\ mul(a, Zero) = Zero
BY DEF mul

LEMMA MulByte ==
  ASSUME NEW a \in Byte, NEW b \in Byte
  PROVE  /\ mul(a, b) \in Byte
         /\ a # Zero /\ b # Zero => mul(a, b) # Zero
<1>1. CASE a = Zero \/ b = Zero
  BY <1>1, MulZero
<1>2. CASE a # Zero /\ b # Zero
  <2>1. PICK i \in 0..254 : a = EXP[i]
    BY <1>2, IsPower
  <2>2. PICK j \in 0..254 : b = EXP[j]
    BY <1>2, IsPower
  <2>3. PICK n \in 0..254 : SumOf(i, j, n)
    BY SumIn
  <2>4. mul(a, b) = EXP[n]
    BY <2>1, <2>2, <2>3, MulPowers
  <2>5. EXP[n] \in Byte /\ EXP[n] # Zero
    BY TableIs
  <2>6. QED
    BY <2>4, <2>5
<1>3. QED
  BY <1>1, <1>2

LEMMA MulComm ==
  ASSUME NEW a \in Byte, NEW b \in Byte
  PROVE  mul(a, b) = mul(b, a)
<1>1. CASE a = Zero \/ b = Zero
  BY <1>1, MulZero
<1>2. CASE a # Zero /\ b # Zero
  <2>1. PICK i \in 0..254 : a = EXP[i]
    BY <1>2, IsPower
  <2>2. PICK j \in 0..254 : b = EXP[j]
    BY <1>2, IsPower
  <2>3. PICK n \in 0..254 : SumOf(i, j, n)
    BY SumIn
  <2>4. SumOf(j, i, n)
    BY <2>3 DEF SumOf
  <2>5. mul(EXP[i], EXP[j]) = EXP[n]
    BY <2>3, MulPowers
  <2>6. mul(EXP[j], EXP[i]) = EXP[n]
    BY <2>4, MulPowers
  <2>7. QED
    BY <2>1, <2>2, <2>5, <2>6
<1>3. QED
  BY <1>1, <1>2

LEMMA MulOne ==
  ASSUME NEW a \in Byte
  PROVE  mul(a, One) = a /\ mul(One, a) = a
<1>1. CASE a = Zero
  BY <1>1, MulZero
<1>2. CASE a # Zero
  <2>1. PICK i \in 0..254 : a = EXP[i]
    BY <1>2, IsPower
  <2>2. 0 \in 0..254 /\ SumOf(i, 0, i)
    BY DEF SumOf
  <2>3. mul(a, EXP[0]) = EXP[i]
    BY <2>1, <2>2, MulPowers
  <2>4. mul(a, One) = a
    BY <2>1, <2>3, OneIsPower
  <2>5. QED
    BY <2>4, MulComm, OneIsPower
<1>3. QED
  BY <1>1, <1>2

LEMMA MulAssoc ==
  ASSUME NEW a \in Byte, NEW b \in Byte, NEW c \in Byte
  PROVE  mul(mul(a, b), c) = mul(a, mul(b, c))
<1>1. CASE a = Zero \/ b = Zero \/ c = Zero
  BY <1>1, MulZero
<1>2. CASE a # Zero /\ b # Zero /\ c # Zero
  <2>1. PICK i \in 0..254 : a = EXP[i]
    BY <1>2, IsPower
  <2>2. PICK j \in 0..254 : b = EXP[j]
    BY <1>2, IsPower
  <2>3. PICK k \in 0..254 : c = EXP[k]
    BY <1>2, IsPower
  <2>4. PICK m \in 0..254 : SumOf(i, j, m)
    BY SumIn
  <2>5. PICK n \in 0..254 : SumOf(j, k, n)
    BY SumIn
  <2>6. PICK p \in 0..254 : SumOf(m, k, p)
    BY SumIn
  <2>7. SumOf(i, n, p)
    BY <2>4, <2>5, <2>6 DEF SumOf
  <2>8. mul(a, b) = EXP[m] /\ mul(b, c) = EXP[n]
    BY <2>1, <2>2, <2>3, <2>4, <2>5, MulPowers
  <2>9. mul(EXP[m], c) = EXP[p]
    BY <2>3, <2>6, MulPowers
  <2>10. mul(a, EXP[n]) = EXP[p]
    BY <2>1, <2>7, MulPowers
  <2>11. QED
    BY <2>8, <2>9, <2>10
<1>3. QED
  BY <1>1, <1>2

LEMMA MulNext ==
  ASSUME NEW a \in Byte, NEW j \in 0..253
  PROVE  mul(a, EXP[j + 1]) = times3[mul(a, EXP[j])]
<1>1. CASE a = Zero
  BY <1>1, MulZero, Times3Is
<1>2. CASE a # Zero
  <2>1. PICK i \in 0..254 : a = EXP[i]
    BY <1>2, IsPower
  <2>2. j \in 0..254 /\ j + 1 \in 0..254
    OBVIOUS
  <2>3. PICK n \in 0..254 : SumOf(i, j, n)
    BY <2>2, SumIn
  <2>4. PICK m \in 0..254 : SumOf(i, j + 1, m)
    BY <2>2, SumIn
  <2>5. mul(a, EXP[j]) = EXP[n] /\ mul(a, EXP[j + 1]) = EXP[m]
    BY <2>1, <2>2, <2>3, <2>4, MulPowers
  <2>6. (n = 254 /\ m = 0) \/ (m \in 1..254 /\ n = m - 1)
    BY <2>3, <2>4 DEF SumOf
  <2>7. CASE n = 254 /\ m = 0
    BY <2>5, <2>7, TableWraps
  <2>8. CASE m \in 1..254 /\ n = m - 1
    BY <2>5, <2>8, TableRuns
  <2>9. QED
    BY <2>6, <2>7, <2>8
<1>3. QED
  BY <1>1, <1>2

(* Multiplying by a power is multiplying by 3 so many times, which keeps   *)
(* sums.                                                                   *)
LEMMA MulAdd ==
  ASSUME NEW a \in Byte, NEW b \in Byte, NEW c \in Byte
  PROVE  /\ mul(a ^^ b, c) = mul(a, c) ^^ mul(b, c)
         /\ mul(c, a ^^ b) = mul(c, a) ^^ mul(c, b)
<1>1. a ^^ b \in Byte
  BY XorByte
<1> DEFINE T == {j \in Nat : j <= 254 /\ mul(a ^^ b, EXP[j]) # mul(a, EXP[j]) ^^ mul(b, EXP[j])}
<1>2. 0 \notin T
  BY <1>1, OneIsPower, MulOne
<1>3. ASSUME NEW j \in Nat, j + 1 \in T
      PROVE  j \in T
  <2>1. j \in 0..253 /\ j \in 0..254
        /\ mul(a ^^ b, EXP[j + 1]) # mul(a, EXP[j + 1]) ^^ mul(b, EXP[j + 1])
    BY <1>3
  <2>2. PICK p, q : p = mul(a, EXP[j]) /\ q = mul(b, EXP[j])
    OBVIOUS
  <2>3. p \in Byte /\ q \in Byte
    <3>1. EXP[j] \in Byte
      BY <2>1, TableIs
    <3>2. QED
      BY <2>2, <3>1, MulByte
  <2>4. mul(a, EXP[j + 1]) = times3[p] /\ mul(b, EXP[j + 1]) = times3[q]
        /\ mul(a ^^ b, EXP[j + 1]) = times3[mul(a ^^ b, EXP[j])]
    BY <1>1, <2>1, <2>2, MulNext
  <2>5. times3[p ^^ q] = times3[p] ^^ times3[q]
    BY <2>3, Times3Is
  <2>6. mul(a ^^ b, EXP[j]) # p ^^ q
    BY <2>1, <2>4, <2>5
  <2>7. QED
    BY <2>1, <2>2, <2>6
<1>4. T = {}
  BY <1>2, <1>3, NoneFails
<1>5. mul(a ^^ b, c) = mul(a, c) ^^ mul(b, c)
  <2>1. CASE c = Zero
    BY <2>1, MulZero, XorLaws
  <2>2. CASE c # Zero
    <3>1. PICK j \in 0..254 : c = EXP[j]
      BY <2>2, IsPower
    <3>2. QED
      BY <1>4, <3>1
  <2>3. QED
    BY <2>1, <2>2
<1>6. mul(c, a ^^ b) = mul(a ^^ b, c) /\ mul(c, a) = mul(a, c) /\ mul(c, b) = mul(b, c)
  BY <1>1, MulComm
<1>7. QED
  BY <1>5, <1>6

inv(a) == div(One, a)

LEMMA InvIs ==
  ASSUME NEW a \in Byte, a # Zero
  PROVE  inv(a) \in Byte /\ inv(a) # Zero /\ mul(a, inv(a)) = One
<1>1. PICK i \in 0..254 : a = EXP[i]
  BY IsPower
<1>2. \A n \in 0..254 : LOG[EXP[n]] = n
  BY TableIs
<1>3. LOG[a] = i
  BY <1>1, <1>2
<1>4. LOG[One] = 0
  <2>1. 0 \in 0..254
    OBVIOUS
  <2>2. QED
    BY <1>2, <2>1, OneIsPower
<1>5. PICK n \in 0..254 : n = (0 + 255 - i) % 255
  OBVIOUS
<1>6. inv(a) = EXP[n]
  BY <1>3, <1>4, <1>5, OneIsPower DEF inv, div
<1>7. 0 \in 0..254 /\ SumOf(i, n, 0)
  BY <1>5 DEF SumOf
<1>8. mul(a, EXP[n]) = EXP[0]
  BY <1>1, <1>7, MulPowers
<1>9. EXP[n] \in Byte /\ EXP[n] # Zero
  BY TableIs
<1>10. QED
  BY <1>6, <1>8, <1>9, OneIsPower

LEMMA DivIs ==
  ASSUME NEW a \in Byte, NEW b \in Byte, b # Zero
  PROVE  div(a, b) = mul(a, inv(b))
<1>1. CASE a = Zero
  BY <1>1, MulZero DEF div
<1>2. CASE a # Zero
  <2>1. PICK i \in 0..254 : a = EXP[i]
    BY <1>2, IsPower
  <2>2. PICK j \in 0..254 : b = EXP[j]
    BY IsPower
  <2>3. \A n \in 0..254 : LOG[EXP[n]] = n
    BY TableIs
  <2>4. LOG[a] = i /\ LOG[b] = j
    BY <2>1, <2>2, <2>3
  <2>5. LOG[One] = 0
    <3>1. 0 \in 0..254
      OBVIOUS
    <3>2. QED
      BY <2>3, <3>1, OneIsPower
  <2>6. PICK n \in 0..254 : n = (0 + 255 - j) % 255
    OBVIOUS
  <2>7. inv(b) = EXP[n]
    BY <2>4, <2>5, <2>6, OneIsPower DEF inv, div
  <2>8. div(a, b) = EXP[(i + 255 - j) % 255]
    BY <1>2, <2>4 DEF div
  <2>9. PICK p \in 0..254 : p = (i + 255 - j) % 255
    OBVIOUS
  <2>10. n = 0 - j \/ n = 255 - j
    BY <2>6
  <2>11. p = i - j \/ p = i + 255 - j
    <3>1. PICK m \in 0..509 : m = i + 255 - j
      OBVIOUS
    <3>2. m % 255 = m \/ m % 255 = m - 255
      OBVIOUS
    <3>3. QED
      BY <2>9, <3>1, <3>2
  <2>12. SumOf(i, n, p)
    BY <2>10, <2>11 DEF SumOf
  <2>13. mul(a, EXP[n]) = EXP[p]
    BY <2>1, <2>12, MulPowers
  <2>14. QED
    BY <2>7, <2>8, <2>9, <2>13
<1>3. QED
  BY <1>1, <1>2
---------------------------------------------------------------------------
(* Sums and products over some of the numbers 1..n                         *)

Values(f) == \A m \in DOMAIN f : f[m] \in Byte
Turn(op, f, m, a) == IF m \in DOMAIN f THEN op[<<a, f[m]>>] ELSE a

(* g is what a loop of n turns computes, S what loops of any length do.    *)
Run(op, e, f, n, g) ==
  /\ g \in [0..n -> Byte]
  /\ g[0] = e
  /\ \A m \in 1..n : g[m] = Turn(op, f, m, g[m - 1])

Runs(op, e, f, S) ==
  /\ S \in [Nat -> Byte]
  /\ S[0] = e
  /\ \A n \in Nat : S[n + 1] = Turn(op, f, n + 1, S[n])

LEMMA TurnByte ==
  ASSUME NEW op \in [Byte \X Byte -> Byte], NEW f, Values(f), NEW m, NEW a \in Byte
  PROVE  Turn(op, f, m, a) \in Byte
BY DEF Turn, Values

LEMMA RunExists ==
  ASSUME NEW op \in [Byte \X Byte -> Byte], NEW e \in Byte, NEW f, Values(f), NEW n \in Nat
  PROVE  \E g : Run(op, e, f, n, g)
<1> DEFINE T == {k \in Nat : ~\E g : Run(op, e, f, k, g)}
<1>1. 0 \notin T
  <2>1. Run(op, e, f, 0, [m \in 0..0 |-> e])
    BY DEF Run
  <2>2. QED
    BY <2>1
<1>2. ASSUME NEW k \in Nat, k + 1 \in T
      PROVE  k \in T
  <2> SUFFICES ASSUME NEW g, Run(op, e, f, k, g)
               PROVE  FALSE
    BY <1>2
  <2>1. PICK b : b = Turn(op, f, k + 1, g[k])
    OBVIOUS
  <2>2. b \in Byte
    <3>1. g[k] \in Byte
      BY DEF Run
    <3>2. QED
      BY <2>1, <3>1, TurnByte
  <2> DEFINE h == [m \in 0..(k + 1) |-> IF m = k + 1 THEN b ELSE g[m]]
  <2>3. h \in [0..(k + 1) -> Byte] /\ h[0] = e
    BY <2>2 DEF Run
  <2>4. \A m \in 1..(k + 1) : h[m] = Turn(op, f, m, h[m - 1])
    <3> SUFFICES ASSUME NEW m \in 1..(k + 1)
                 PROVE  h[m] = Turn(op, f, m, h[m - 1])
      OBVIOUS
    <3>1. CASE m = k + 1
      <4>1. h[m] = b /\ h[m - 1] = g[k]
        BY <3>1
      <4>2. QED
        BY <2>1, <3>1, <4>1
    <3>2. CASE m \in 1..k
      <4>1. h[m] = g[m] /\ h[m - 1] = g[m - 1]
        BY <3>2
      <4>2. g[m] = Turn(op, f, m, g[m - 1])
        BY <3>2 DEF Run
      <4>3. QED
        BY <4>1, <4>2
    <3>3. QED
      BY <3>1, <3>2
  <2> HIDE DEF h
  <2>5. Run(op, e, f, k + 1, h)
    BY <2>3, <2>4 DEF Run
  <2>6. QED
    BY <1>2, <2>5
<1>3. T = {}
  BY <1>1, <1>2, NoneFails
<1>4. QED
  BY <1>3

LEMMA RunsAgree ==
  ASSUME NEW op, NEW e, NEW f, NEW n \in Nat, NEW k \in Nat, k <= n,
         NEW g, Run(op, e, f, n, g), NEW h, Run(op, e, f, k, h)
  PROVE  \A m \in 0..k : g[m] = h[m]
<1> DEFINE T == {m \in Nat : m <= k /\ g[m] # h[m]}
<1>1. 0 \notin T
  BY DEF Run
<1>2. ASSUME NEW m \in Nat, m + 1 \in T
      PROVE  m \in T
  <2>1. m + 1 \in 1..k /\ m + 1 \in 1..n /\ (m + 1) - 1 = m
    BY <1>2
  <2>2. g[m + 1] = Turn(op, f, m + 1, g[m]) /\ h[m + 1] = Turn(op, f, m + 1, h[m])
    BY <2>1 DEF Run
  <2>3. QED
    BY <1>2, <2>1, <2>2
<1>3. T = {}
  BY <1>1, <1>2, NoneFails
<1>4. QED
  BY <1>3

LEMMA RunLonger ==
  ASSUME NEW op, NEW e, NEW f, NEW n \in Nat,
         NEW g, Run(op, e, f, n + 1, g), NEW h, Run(op, e, f, n, h)
  PROVE  g[n + 1] = Turn(op, f, n + 1, h[n])
<1>1. n + 1 \in Nat /\ n <= n + 1 /\ n + 1 \in 1..(n + 1) /\ (n + 1) - 1 = n /\ n \in 0..n
  OBVIOUS
<1>2. \A m \in 0..n : g[m] = h[m]
  BY <1>1, RunsAgree
<1>3. g[n + 1] = Turn(op, f, n + 1, g[n])
  BY <1>1 DEF Run
<1>4. QED
  BY <1>1, <1>2, <1>3

LEMMA RunsLast ==
  ASSUME NEW op \in [Byte \X Byte -> Byte], NEW e \in Byte, NEW f, NEW F,
         \A n \in Nat : Run(op, e, f, n, F[n])
  PROVE  Runs(op, e, f, [n \in Nat |-> F[n][n]])
<1>1. PICK S : S = [n \in Nat |-> F[n][n]]
  OBVIOUS
<1>2. \A n \in Nat : S[n] = F[n][n] /\ S[n] \in Byte
  BY <1>1 DEF Run
<1>3. S[0] = e
  BY <1>2 DEF Run
<1>4. ASSUME NEW n \in Nat
      PROVE  S[n + 1] = Turn(op, f, n + 1, S[n])
  <2>1. PICK g, h : g = F[n + 1] /\ h = F[n]
    OBVIOUS
  <2>2. n + 1 \in Nat /\ n <= n + 1 /\ n + 1 \in 1..(n + 1) /\ (n + 1) - 1 = n /\ n \in 0..n
    OBVIOUS
  <2>3. Run(op, e, f, n + 1, g) /\ Run(op, e, f, n, h)
    BY <2>1, <2>2
  <2>4. g[n + 1] = Turn(op, f, n + 1, h[n])
    BY <2>3, RunLonger
  <2>5. S[n] = h[n] /\ S[n + 1] = g[n + 1]
    BY <1>2, <2>1, <2>2
  <2>6. QED
    BY <2>4, <2>5
<1>5. S \in [Nat -> Byte]
  BY <1>1, <1>2
<1>6. QED
  BY <1>1, <1>3, <1>4, <1>5 DEF Runs

Plus  == [p \in Byte \X Byte |-> p[1] ^^ p[2]]
Times == [p \in Byte \X Byte |-> mul(p[1], p[2])]

SumTo(f, n)     == XorTurns(f, n)[n]
ProductTo(f, n) == MulTurns(f, n)[n]

LEMMA OpsAre ==
  /\ Plus \in [Byte \X Byte -> Byte]
  /\ Times \in [Byte \X Byte -> Byte]
  /\ \A a, b \in Byte : Plus[<<a, b>>] = a ^^ b
  /\ \A a, b \in Byte : Times[<<a, b>>] = mul(a, b)
<1>1. \A p \in Byte \X Byte : p[1] ^^ p[2] \in Byte
  BY XorByte
<1>2. \A p \in Byte \X Byte : mul(p[1], p[2]) \in Byte
  BY MulByte
<1>3. Plus \in [Byte \X Byte -> Byte]
  BY <1>1 DEF Plus
<1>4. Times \in [Byte \X Byte -> Byte]
  BY <1>2 DEF Times
<1>5. \A a, b \in Byte : Plus[<<a, b>>] = a ^^ b
  BY DEF Plus
<1>6. \A a, b \in Byte : Times[<<a, b>>] = mul(a, b)
  BY DEF Times
<1>7. QED
  BY <1>3, <1>4, <1>5, <1>6

LEMMA XorTurnsRun ==
  ASSUME NEW f, Values(f), NEW n \in Nat
  PROVE  Run(Plus, Zero, f, n, XorTurns(f, n))
<1> DEFINE Acc(g) == [m \in 0..n |-> IF m = 0 THEN Zero
                        ELSE IF m \in DOMAIN f THEN g[m - 1] ^^ f[m] ELSE g[m - 1]]
<1>1. PICK g : Run(Plus, Zero, f, n, g)
  BY OpsAre, OneIsPower, RunExists
<1>2. g = Acc(g)
  <2>1. \A m \in 1..n : g[m] = IF m \in DOMAIN f THEN g[m - 1] ^^ f[m] ELSE g[m - 1]
    <3> SUFFICES ASSUME NEW m \in 1..n
                 PROVE  g[m] = IF m \in DOMAIN f THEN g[m - 1] ^^ f[m] ELSE g[m - 1]
      OBVIOUS
    <3>1. g[m - 1] \in Byte /\ g[m] = Turn(Plus, f, m, g[m - 1])
      BY <1>1 DEF Run
    <3>2. QED
      BY <3>1, OpsAre DEF Turn, Values
  <2>2. QED
    BY <1>1, <2>1 DEF Run
<1>3. XorTurns(f, n) = CHOOSE h : h = Acc(h)
  BY DEF XorTurns
<1>4. PICK h : h = XorTurns(f, n)
  OBVIOUS
<1>5. h = Acc(h)
  <2> HIDE DEF Acc
  <2>1. QED
    BY <1>2, <1>3, <1>4
<1>6. h[0] = Zero /\ \A m \in 1..n : h[m] = IF m \in DOMAIN f THEN h[m - 1] ^^ f[m] ELSE h[m - 1]
  BY <1>5
<1>7. h = g
  <2> DEFINE T == {m \in Nat : m <= n /\ h[m] # g[m]}
  <2>1. 0 \notin T
    BY <1>1, <1>6 DEF Run
  <2>2. ASSUME NEW m \in Nat, m + 1 \in T
        PROVE  m \in T
    <3>1. m + 1 \in 1..n /\ (m + 1) - 1 = m
      BY <2>2
    <3>2. g[m + 1] = IF m + 1 \in DOMAIN f THEN g[m] ^^ f[m + 1] ELSE g[m]
      BY <1>2, <3>1
    <3>3. h[m + 1] = IF m + 1 \in DOMAIN f THEN h[m] ^^ f[m + 1] ELSE h[m]
      BY <1>6, <3>1
    <3>4. QED
      BY <2>2, <3>1, <3>2, <3>3
  <2>3. T = {}
    BY <2>1, <2>2, NoneFails
  <2>4. \A m \in 0..n : h[m] = g[m]
    BY <2>3
  <2>5. DOMAIN h = 0..n /\ h = [m \in 0..n |-> h[m]]
    BY <1>5
  <2>6. QED
    BY <1>1, <2>4, <2>5 DEF Run
<1>8. QED
  BY <1>1, <1>4, <1>7

LEMMA MulTurnsRun ==
  ASSUME NEW f, Values(f), NEW n \in Nat
  PROVE  Run(Times, One, f, n, MulTurns(f, n))
<1> DEFINE Acc(g) == [m \in 0..n |-> IF m = 0 THEN One
                        ELSE IF m \in DOMAIN f THEN mul(g[m - 1], f[m]) ELSE g[m - 1]]
<1>1. PICK g : Run(Times, One, f, n, g)
  BY OpsAre, OneIsPower, RunExists
<1>2. g = Acc(g)
  <2>1. \A m \in 1..n : g[m] = IF m \in DOMAIN f THEN mul(g[m - 1], f[m]) ELSE g[m - 1]
    <3> SUFFICES ASSUME NEW m \in 1..n
                 PROVE  g[m] = IF m \in DOMAIN f THEN mul(g[m - 1], f[m]) ELSE g[m - 1]
      OBVIOUS
    <3>1. g[m - 1] \in Byte /\ g[m] = Turn(Times, f, m, g[m - 1])
      BY <1>1 DEF Run
    <3>2. QED
      BY <3>1, OpsAre DEF Turn, Values
  <2>2. QED
    BY <1>1, <2>1 DEF Run
<1>3. MulTurns(f, n) = CHOOSE h : h = Acc(h)
  BY DEF MulTurns
<1>4. PICK h : h = MulTurns(f, n)
  OBVIOUS
<1>5. h = Acc(h)
  <2> HIDE DEF Acc
  <2>1. QED
    BY <1>2, <1>3, <1>4
<1>6. h[0] = One /\ \A m \in 1..n : h[m] = IF m \in DOMAIN f THEN mul(h[m - 1], f[m]) ELSE h[m - 1]
  BY <1>5
<1>7. h = g
  <2> DEFINE T == {m \in Nat : m <= n /\ h[m] # g[m]}
  <2>1. 0 \notin T
    BY <1>1, <1>6 DEF Run
  <2>2. ASSUME NEW m \in Nat, m + 1 \in T
        PROVE  m \in T
    <3>1. m + 1 \in 1..n /\ (m + 1) - 1 = m
      BY <2>2
    <3>2. g[m + 1] = IF m + 1 \in DOMAIN f THEN mul(g[m], f[m + 1]) ELSE g[m]
      BY <1>2, <3>1
    <3>3. h[m + 1] = IF m + 1 \in DOMAIN f THEN mul(h[m], f[m + 1]) ELSE h[m]
      BY <1>6, <3>1
    <3>4. QED
      BY <2>2, <3>1, <3>2, <3>3
  <2>3. T = {}
    BY <2>1, <2>2, NoneFails
  <2>4. \A m \in 0..n : h[m] = g[m]
    BY <2>3
  <2>5. DOMAIN h = 0..n /\ h = [m \in 0..n |-> h[m]]
    BY <1>5
  <2>6. QED
    BY <1>1, <2>4, <2>5 DEF Run
<1>8. QED
  BY <1>1, <1>4, <1>7

LEMMA SumRuns ==
  ASSUME NEW f, Values(f)
  PROVE  Runs(Plus, Zero, f, [n \in Nat |-> SumTo(f, n)])
<1>1. PICK F : F = [n \in Nat |-> XorTurns(f, n)]
  OBVIOUS
<1>2. \A n \in Nat : Run(Plus, Zero, f, n, F[n])
  BY <1>1, XorTurnsRun
<1>3. Runs(Plus, Zero, f, [n \in Nat |-> F[n][n]])
  BY <1>2, RunsLast, OpsAre, OneIsPower
<1>4. [n \in Nat |-> F[n][n]] = [n \in Nat |-> SumTo(f, n)]
  BY <1>1 DEF SumTo
<1>5. QED
  BY <1>3, <1>4

LEMMA ProductRuns ==
  ASSUME NEW f, Values(f)
  PROVE  Runs(Times, One, f, [n \in Nat |-> ProductTo(f, n)])
<1>1. PICK F : F = [n \in Nat |-> MulTurns(f, n)]
  OBVIOUS
<1>2. \A n \in Nat : Run(Times, One, f, n, F[n])
  BY <1>1, MulTurnsRun
<1>3. Runs(Times, One, f, [n \in Nat |-> F[n][n]])
  BY <1>2, RunsLast, OpsAre, OneIsPower
<1>4. [n \in Nat |-> F[n][n]] = [n \in Nat |-> ProductTo(f, n)]
  BY <1>1 DEF ProductTo
<1>5. QED
  BY <1>3, <1>4

(* What holds of both: one value can be taken out, and two loops over the  *)
(* same numbers can be made one.                                           *)
Commutes(op) ==
  /\ op \in [Byte \X Byte -> Byte]
  /\ \A a, b \in Byte : op[<<a, b>>] = op[<<b, a>>]
  /\ \A a, b, c \in Byte : op[<<op[<<a, b>>], c>>] = op[<<a, op[<<b, c>>]>>]

Without(f, z) == [m \in (DOMAIN f) \ {z} |-> f[m]]

LEMMA OpsCommute == Commutes(Plus) /\ Commutes(Times)
<1>1. Commutes(Plus)
  <2>1. ASSUME NEW a \in Byte, NEW b \in Byte
        PROVE  Plus[<<a, b>>] = Plus[<<b, a>>]
    <3>1. a ^^ b = b ^^ a
      BY XorLaws
    <3>2. QED
      BY <3>1, OpsAre
  <2>2. ASSUME NEW a \in Byte, NEW b \in Byte, NEW c \in Byte
        PROVE  Plus[<<Plus[<<a, b>>], c>>] = Plus[<<a, Plus[<<b, c>>]>>]
    <3>1. a ^^ b \in Byte /\ b ^^ c \in Byte /\ (a ^^ b) ^^ c = a ^^ (b ^^ c)
      BY XorByte, XorLaws
    <3>2. Plus[<<a, b>>] = a ^^ b /\ Plus[<<b, c>>] = b ^^ c
      BY OpsAre
    <3>3. Plus[<<a ^^ b, c>>] = (a ^^ b) ^^ c /\ Plus[<<a, b ^^ c>>] = a ^^ (b ^^ c)
      BY <3>1, OpsAre
    <3>4. QED
      BY <3>1, <3>2, <3>3
  <2>3. QED
    BY <2>1, <2>2, OpsAre DEF Commutes
<1>2. Commutes(Times)
  <2>1. ASSUME NEW a \in Byte, NEW b \in Byte
        PROVE  Times[<<a, b>>] = Times[<<b, a>>]
    <3>1. mul(a, b) = mul(b, a)
      BY MulComm
    <3>2. QED
      BY <3>1, OpsAre
  <2>2. ASSUME NEW a \in Byte, NEW b \in Byte, NEW c \in Byte
        PROVE  Times[<<Times[<<a, b>>], c>>] = Times[<<a, Times[<<b, c>>]>>]
    <3>1. mul(a, b) \in Byte /\ mul(b, c) \in Byte /\ mul(mul(a, b), c) = mul(a, mul(b, c))
      BY MulByte, MulAssoc
    <3>2. Times[<<a, b>>] = mul(a, b) /\ Times[<<b, c>>] = mul(b, c)
      BY OpsAre
    <3>3. Times[<<mul(a, b), c>>] = mul(mul(a, b), c) /\ Times[<<a, mul(b, c)>>] = mul(a, mul(b, c))
      BY <3>1, OpsAre
    <3>4. QED
      BY <3>1, <3>2, <3>3
  <2>3. QED
    BY <2>1, <2>2, OpsAre DEF Commutes
<1>3. QED
  BY <1>1, <1>2

LEMMA RunsTurn ==
  ASSUME NEW op, NEW e, NEW f, NEW S, Runs(op, e, f, S), NEW n \in Nat
  PROVE  /\ n + 1 \notin DOMAIN f => S[n + 1] = S[n]
         /\ n + 1 \in DOMAIN f => S[n + 1] = op[<<S[n], f[n + 1]>>]
         /\ S[n] \in Byte
<1>1. S[n + 1] = Turn(op, f, n + 1, S[n]) /\ S[n] \in Byte
  BY DEF Runs
<1>2. QED
  BY <1>1 DEF Turn

LEMMA RunsDrop ==
  ASSUME NEW op, Commutes(op), NEW e \in Byte, NEW f, Values(f),
         NEW z \in DOMAIN f, z \in Nat, z # 0,
         NEW S, Runs(op, e, f, S), NEW R, Runs(op, e, Without(f, z), R)
  PROVE  \A n \in Nat : S[n] = IF z <= n THEN op[<<R[n], f[z]>>] ELSE R[n]
<1> DEFINE Dropped(n) == S[n] = IF z <= n THEN op[<<R[n], f[z]>>] ELSE R[n]
           T == {n \in Nat : ~Dropped(n)}
<1>1. 0 \notin T
  <2>1. S[0] = e /\ R[0] = e
    BY DEF Runs
  <2>2. QED
    BY <2>1
<1>2. ASSUME NEW n \in Nat, Dropped(n)
      PROVE  Dropped(n + 1)
  <2>1. PICK m \in Nat : m = n + 1
    OBVIOUS
  <2>2. /\ m \notin DOMAIN f => S[m] = S[n]
        /\ m \in DOMAIN f => S[m] = op[<<S[n], f[m]>>]
    BY <2>1, RunsTurn
  <2>3. /\ m \notin DOMAIN f \/ m = z => R[m] = R[n]
        /\ m \in DOMAIN f /\ m # z => R[m] = op[<<R[n], f[m]>>]
        /\ R[n] \in Byte
    <3>1. m \in DOMAIN Without(f, z) <=> m \in DOMAIN f /\ m # z
      BY DEF Without
    <3>2. m \in DOMAIN f /\ m # z => Without(f, z)[m] = f[m]
      BY DEF Without
    <3>3. /\ m \notin DOMAIN Without(f, z) => R[m] = R[n]
          /\ m \in DOMAIN Without(f, z) => R[m] = op[<<R[n], Without(f, z)[m]>>]
          /\ R[n] \in Byte
      BY <2>1, RunsTurn
    <3>4. QED
      BY <3>1, <3>2, <3>3
  <2>4. CASE m = z
    <3>1. S[n] = R[n] /\ z <= m
      BY <1>2, <2>1, <2>4
    <3>2. QED
      BY <2>1, <2>2, <2>3, <2>4, <3>1
  <2>5. CASE m # z
    <3>1. z <= m <=> z <= n
      BY <2>1, <2>5
    <3>2. CASE m \notin DOMAIN f
      BY <1>2, <2>1, <2>2, <2>3, <3>1, <3>2
    <3>3. CASE m \in DOMAIN f
      <4>1. S[m] = op[<<S[n], f[m]>>] /\ R[m] = op[<<R[n], f[m]>>]
        BY <2>2, <2>3, <2>5, <3>3
      <4>2. CASE ~(z <= n)
        BY <1>2, <2>1, <3>1, <4>1, <4>2
      <4>3. CASE z <= n
        <5>1. S[n] = op[<<R[n], f[z]>>]
          BY <1>2, <4>3
        <5>2. PICK a, b, c : a = R[n] /\ b = f[z] /\ c = f[m]
          OBVIOUS
        <5>3. a \in Byte /\ b \in Byte /\ c \in Byte
          BY <2>3, <3>3, <5>2 DEF Values
        <5>4. op[<<op[<<a, b>>], c>>] = op[<<op[<<a, c>>], b>>]
          <6>1. op[<<op[<<a, b>>], c>>] = op[<<a, op[<<b, c>>]>>]
            BY <5>3 DEF Commutes
          <6>2. op[<<op[<<a, c>>], b>>] = op[<<a, op[<<c, b>>]>>]
            BY <5>3 DEF Commutes
          <6>3. op[<<b, c>>] = op[<<c, b>>]
            BY <5>3 DEF Commutes
          <6>4. QED
            BY <6>1, <6>2, <6>3
        <5>5. S[m] = op[<<R[m], f[z]>>]
          BY <4>1, <5>1, <5>2, <5>4
        <5>6. QED
          BY <2>1, <3>1, <4>3, <5>5
      <4>4. QED
        BY <4>2, <4>3
    <3>4. QED
      BY <3>2, <3>3
  <2>6. QED
    BY <2>4, <2>5
<1> HIDE DEF Dropped
<1>3. T = {}
  BY <1>1, <1>2, NoneFails
<1>4. \A n \in Nat : Dropped(n)
  BY <1>3
<1>5. QED
  BY <1>4 DEF Dropped

LEMMA RunsBoth ==
  ASSUME NEW op, Commutes(op), NEW e \in Byte, op[<<e, e>>] = e,
         NEW f, NEW g, NEW h, Values(f), Values(g), DOMAIN g = DOMAIN f, DOMAIN h = DOMAIN f,
         \A m \in DOMAIN f : h[m] = op[<<f[m], g[m]>>],
         NEW S, Runs(op, e, f, S), NEW R, Runs(op, e, g, R), NEW U, Runs(op, e, h, U)
  PROVE  \A n \in Nat : U[n] = op[<<S[n], R[n]>>]
<1> DEFINE Both(n) == U[n] = op[<<S[n], R[n]>>]
           T == {n \in Nat : ~Both(n)}
<1>1. 0 \notin T
  <2>1. S[0] = e /\ R[0] = e /\ U[0] = e
    BY DEF Runs
  <2>2. QED
    BY <2>1
<1>2. ASSUME NEW n \in Nat, Both(n)
      PROVE  Both(n + 1)
  <2>1. PICK m \in Nat : m = n + 1
    OBVIOUS
  <2>2. /\ m \notin DOMAIN f => S[m] = S[n]
        /\ m \in DOMAIN f => S[m] = op[<<S[n], f[m]>>]
        /\ S[n] \in Byte
    BY <2>1, RunsTurn
  <2>3. /\ m \notin DOMAIN g => R[m] = R[n]
        /\ m \in DOMAIN g => R[m] = op[<<R[n], g[m]>>]
        /\ R[n] \in Byte
    BY <2>1, RunsTurn
  <2>4. /\ m \notin DOMAIN h => U[m] = U[n]
        /\ m \in DOMAIN h => U[m] = op[<<U[n], h[m]>>]
    BY <2>1, RunsTurn
  <2>5. CASE m \notin DOMAIN f
    BY <1>2, <2>1, <2>2, <2>3, <2>4, <2>5
  <2>6. CASE m \in DOMAIN f
    <3>1. PICK a, b, c, d : a = S[n] /\ b = R[n] /\ c = f[m] /\ d = g[m]
      OBVIOUS
    <3>2. a \in Byte /\ b \in Byte /\ c \in Byte /\ d \in Byte
      BY <2>2, <2>3, <2>6, <3>1 DEF Values
    <3>3. S[m] = op[<<a, c>>] /\ R[m] = op[<<b, d>>] /\ U[m] = op[<<op[<<a, b>>], op[<<c, d>>]>>]
      BY <1>2, <2>2, <2>3, <2>4, <2>6, <3>1
    <3>4. op[<<op[<<a, b>>], op[<<c, d>>]>>] = op[<<op[<<a, c>>], op[<<b, d>>]>>]
      <4>1. PICK p : p = op[<<c, d>>]
        OBVIOUS
      <4>2. PICK q : q = op[<<b, d>>]
        OBVIOUS
      <4>3. p \in Byte /\ q \in Byte
        BY <3>2, <4>1, <4>2 DEF Commutes
      <4>4. op[<<op[<<a, b>>], p>>] = op[<<a, op[<<b, p>>]>>]
        BY <3>2, <4>3 DEF Commutes
      <4>5. op[<<op[<<a, c>>], q>>] = op[<<a, op[<<c, q>>]>>]
        BY <3>2, <4>3 DEF Commutes
      <4>6. op[<<b, p>>] = op[<<op[<<b, c>>], d>>] /\ op[<<c, q>>] = op[<<op[<<c, b>>], d>>]
        BY <3>2, <4>1, <4>2 DEF Commutes
      <4>7. op[<<b, c>>] = op[<<c, b>>]
        BY <3>2 DEF Commutes
      <4>8. QED
        BY <4>1, <4>2, <4>4, <4>5, <4>6, <4>7
    <3>5. QED
      BY <2>1, <3>3, <3>4
  <2>7. QED
    BY <2>5, <2>6
<1> HIDE DEF Both
<1>3. T = {}
  BY <1>1, <1>2, NoneFails
<1>4. \A n \in Nat : Both(n)
  BY <1>3
<1>5. QED
  BY <1>4 DEF Both
---------------------------------------------------------------------------
(* The two loops                                                           *)

LEMMA SumDef ==
  ASSUME NEW f, Values(f), NEW n \in Nat
  PROVE  /\ SumTo(f, 0) = Zero
         /\ n + 1 \notin DOMAIN f => SumTo(f, n + 1) = SumTo(f, n)
         /\ n + 1 \in DOMAIN f => SumTo(f, n + 1) = SumTo(f, n) ^^ f[n + 1]
         /\ SumTo(f, n) \in Byte
<1>1. PICK S : S = [m \in Nat |-> SumTo(f, m)]
  OBVIOUS
<1>2. Runs(Plus, Zero, f, S)
  BY <1>1, SumRuns
<1>3. S[0] = Zero
  BY <1>2 DEF Runs
<1>4. /\ n + 1 \notin DOMAIN f => S[n + 1] = S[n]
      /\ n + 1 \in DOMAIN f => S[n + 1] = Plus[<<S[n], f[n + 1]>>]
      /\ S[n] \in Byte
  BY <1>2, RunsTurn
<1>5. n + 1 \in DOMAIN f => Plus[<<S[n], f[n + 1]>>] = S[n] ^^ f[n + 1]
  BY <1>4, OpsAre DEF Values
<1>6. S[0] = SumTo(f, 0) /\ S[n] = SumTo(f, n) /\ S[n + 1] = SumTo(f, n + 1)
  BY <1>1
<1>7. QED
  BY <1>3, <1>4, <1>5, <1>6

LEMMA SumDrop ==
  ASSUME NEW f, Values(f), NEW n \in Nat, NEW z \in DOMAIN f, z \in 1..n
  PROVE  SumTo(f, n) = SumTo(Without(f, z), n) ^^ f[z]
<1>1. PICK g : g = Without(f, z)
  OBVIOUS
<1>2. Values(g)
  BY <1>1 DEF Without, Values
<1>3. PICK S : S = [m \in Nat |-> SumTo(f, m)]
  OBVIOUS
<1>4. PICK R : R = [m \in Nat |-> SumTo(g, m)]
  OBVIOUS
<1>5. Runs(Plus, Zero, f, S)
  BY <1>3, SumRuns
<1>6. Runs(Plus, Zero, g, R)
  BY <1>2, <1>4, SumRuns
<1>7. \A m \in Nat : S[m] = IF z <= m THEN Plus[<<R[m], f[z]>>] ELSE R[m]
  <2>1. z \in Nat /\ z # 0 /\ Zero \in Byte
    BY OneIsPower
  <2>2. QED
    BY <1>1, <1>5, <1>6, <2>1, OpsCommute, RunsDrop
<1>8. S[n] = Plus[<<R[n], f[z]>>]
  BY <1>7
<1>9. f[z] \in Byte /\ R[n] \in Byte
  BY <1>6 DEF Values, Runs
<1>10. S[n] = SumTo(f, n) /\ R[n] = SumTo(g, n)
  BY <1>3, <1>4
<1>11. QED
  BY <1>1, <1>8, <1>9, <1>10, OpsAre

LEMMA SumBoth ==
  ASSUME NEW f, NEW g, NEW h, Values(f), Values(g), DOMAIN g = DOMAIN f, DOMAIN h = DOMAIN f,
         \A m \in DOMAIN f : h[m] = f[m] ^^ g[m], NEW n \in Nat
  PROVE  SumTo(h, n) = SumTo(f, n) ^^ SumTo(g, n)
<1>1. \A m \in DOMAIN f : f[m] \in Byte /\ g[m] \in Byte
  BY DEF Values
<1>2. Values(h)
  BY <1>1, XorByte, MulByte DEF Values
<1>3. \A m \in DOMAIN f : h[m] = Plus[<<f[m], g[m]>>]
  BY <1>1, OpsAre
<1>4. PICK S : S = [m \in Nat |-> SumTo(f, m)]
  OBVIOUS
<1>5. PICK R : R = [m \in Nat |-> SumTo(g, m)]
  OBVIOUS
<1>6. PICK U : U = [m \in Nat |-> SumTo(h, m)]
  OBVIOUS
<1>7. Runs(Plus, Zero, f, S)
  BY <1>4, SumRuns
<1>8. Runs(Plus, Zero, g, R)
  BY <1>5, SumRuns
<1>9. Runs(Plus, Zero, h, U)
  BY <1>2, <1>6, SumRuns
<1>10. Plus[<<Zero, Zero>>] = Zero
  BY OneIsPower, OpsAre, XorLaws, MulOne
<1>11. \A m \in Nat : U[m] = Plus[<<S[m], R[m]>>]
  BY <1>3, <1>7, <1>8, <1>9, <1>10, OneIsPower, OpsCommute, RunsBoth
<1>12. U[n] = Plus[<<S[n], R[n]>>] /\ S[n] \in Byte /\ R[n] \in Byte
  BY <1>7, <1>8, <1>11 DEF Runs
<1>13. U[n] = SumTo(h, n) /\ S[n] = SumTo(f, n) /\ R[n] = SumTo(g, n)
  BY <1>4, <1>5, <1>6
<1>14. QED
  BY <1>12, <1>13, OpsAre

LEMMA ProductDef ==
  ASSUME NEW f, Values(f), NEW n \in Nat
  PROVE  /\ ProductTo(f, 0) = One
         /\ n + 1 \notin DOMAIN f => ProductTo(f, n + 1) = ProductTo(f, n)
         /\ n + 1 \in DOMAIN f => ProductTo(f, n + 1) = mul(ProductTo(f, n), f[n + 1])
         /\ ProductTo(f, n) \in Byte
<1>1. PICK S : S = [m \in Nat |-> ProductTo(f, m)]
  OBVIOUS
<1>2. Runs(Times, One, f, S)
  BY <1>1, ProductRuns
<1>3. S[0] = One
  BY <1>2 DEF Runs
<1>4. /\ n + 1 \notin DOMAIN f => S[n + 1] = S[n]
      /\ n + 1 \in DOMAIN f => S[n + 1] = Times[<<S[n], f[n + 1]>>]
      /\ S[n] \in Byte
  BY <1>2, RunsTurn
<1>5. n + 1 \in DOMAIN f => Times[<<S[n], f[n + 1]>>] = mul(S[n], f[n + 1])
  BY <1>4, OpsAre DEF Values
<1>6. S[0] = ProductTo(f, 0) /\ S[n] = ProductTo(f, n) /\ S[n + 1] = ProductTo(f, n + 1)
  BY <1>1
<1>7. QED
  BY <1>3, <1>4, <1>5, <1>6

LEMMA ProductDrop ==
  ASSUME NEW f, Values(f), NEW n \in Nat, NEW z \in DOMAIN f, z \in 1..n
  PROVE  ProductTo(f, n) = mul(ProductTo(Without(f, z), n), f[z])
<1>1. PICK g : g = Without(f, z)
  OBVIOUS
<1>2. Values(g)
  BY <1>1 DEF Without, Values
<1>3. PICK S : S = [m \in Nat |-> ProductTo(f, m)]
  OBVIOUS
<1>4. PICK R : R = [m \in Nat |-> ProductTo(g, m)]
  OBVIOUS
<1>5. Runs(Times, One, f, S)
  BY <1>3, ProductRuns
<1>6. Runs(Times, One, g, R)
  BY <1>2, <1>4, ProductRuns
<1>7. \A m \in Nat : S[m] = IF z <= m THEN Times[<<R[m], f[z]>>] ELSE R[m]
  <2>1. z \in Nat /\ z # 0 /\ One \in Byte
    BY OneIsPower
  <2>2. QED
    BY <1>1, <1>5, <1>6, <2>1, OpsCommute, RunsDrop
<1>8. S[n] = Times[<<R[n], f[z]>>]
  BY <1>7
<1>9. f[z] \in Byte /\ R[n] \in Byte
  BY <1>6 DEF Values, Runs
<1>10. S[n] = ProductTo(f, n) /\ R[n] = ProductTo(g, n)
  BY <1>3, <1>4
<1>11. QED
  BY <1>1, <1>8, <1>9, <1>10, OpsAre

LEMMA ProductBoth ==
  ASSUME NEW f, NEW g, NEW h, Values(f), Values(g), DOMAIN g = DOMAIN f, DOMAIN h = DOMAIN f,
         \A m \in DOMAIN f : h[m] = mul(f[m], g[m]), NEW n \in Nat
  PROVE  ProductTo(h, n) = mul(ProductTo(f, n), ProductTo(g, n))
<1>1. \A m \in DOMAIN f : f[m] \in Byte /\ g[m] \in Byte
  BY DEF Values
<1>2. Values(h)
  BY <1>1, XorByte, MulByte DEF Values
<1>3. \A m \in DOMAIN f : h[m] = Times[<<f[m], g[m]>>]
  BY <1>1, OpsAre
<1>4. PICK S : S = [m \in Nat |-> ProductTo(f, m)]
  OBVIOUS
<1>5. PICK R : R = [m \in Nat |-> ProductTo(g, m)]
  OBVIOUS
<1>6. PICK U : U = [m \in Nat |-> ProductTo(h, m)]
  OBVIOUS
<1>7. Runs(Times, One, f, S)
  BY <1>4, ProductRuns
<1>8. Runs(Times, One, g, R)
  BY <1>5, ProductRuns
<1>9. Runs(Times, One, h, U)
  BY <1>2, <1>6, ProductRuns
<1>10. Times[<<One, One>>] = One
  BY OneIsPower, OpsAre, XorLaws, MulOne
<1>11. \A m \in Nat : U[m] = Times[<<S[m], R[m]>>]
  BY <1>3, <1>7, <1>8, <1>9, <1>10, OneIsPower, OpsCommute, RunsBoth
<1>12. U[n] = Times[<<S[n], R[n]>>] /\ S[n] \in Byte /\ R[n] \in Byte
  BY <1>7, <1>8, <1>11 DEF Runs
<1>13. U[n] = ProductTo(h, n) /\ S[n] = ProductTo(f, n) /\ R[n] = ProductTo(g, n)
  BY <1>4, <1>5, <1>6
<1>14. QED
  BY <1>12, <1>13, OpsAre

LEMMA SumScale ==
  ASSUME NEW c \in Byte, NEW f, Values(f), NEW h, DOMAIN h = DOMAIN f,
         \A m \in DOMAIN f : h[m] = mul(c, f[m]), NEW n \in Nat
  PROVE  SumTo(h, n) = mul(c, SumTo(f, n))
<1>1. Values(h)
  BY MulByte DEF Values
<1> DEFINE Scaled(m) == SumTo(h, m) = mul(c, SumTo(f, m))
           T == {m \in Nat : ~Scaled(m)}
<1>2. 0 \notin T
  <2>1. SumTo(h, 0) = Zero /\ SumTo(f, 0) = Zero
    BY <1>1, SumDef
  <2>2. QED
    BY <2>1, MulZero
<1>3. ASSUME NEW m \in Nat, Scaled(m)
      PROVE  Scaled(m + 1)
  <2>1. PICK k \in Nat : k = m + 1
    OBVIOUS
  <2>2. /\ k \notin DOMAIN f => SumTo(f, k) = SumTo(f, m)
        /\ k \in DOMAIN f => SumTo(f, k) = SumTo(f, m) ^^ f[k]
        /\ SumTo(f, m) \in Byte
    BY <2>1, SumDef
  <2>3. /\ k \notin DOMAIN h => SumTo(h, k) = SumTo(h, m)
        /\ k \in DOMAIN h => SumTo(h, k) = SumTo(h, m) ^^ h[k]
    BY <1>1, <2>1, SumDef
  <2>4. CASE k \notin DOMAIN f
    BY <1>3, <2>1, <2>2, <2>3, <2>4
  <2>5. CASE k \in DOMAIN f
    <3>1. f[k] \in Byte
      BY <2>5 DEF Values
    <3>2. mul(c, SumTo(f, m) ^^ f[k]) = mul(c, SumTo(f, m)) ^^ mul(c, f[k])
      BY <2>2, <3>1, MulAdd
    <3>3. QED
      BY <1>3, <2>1, <2>2, <2>3, <2>5, <3>2
  <2>6. QED
    BY <2>4, <2>5
<1> HIDE DEF Scaled
<1>4. T = {}
  BY <1>2, <1>3, NoneFails
<1>5. \A m \in Nat : Scaled(m)
  BY <1>4
<1>6. QED
  BY <1>5 DEF Scaled

LEMMA SumEmpty ==
  ASSUME NEW f, DOMAIN f = {}, NEW n \in Nat
  PROVE  SumTo(f, n) = Zero
<1>1. Values(f) /\ \A m \in DOMAIN f : f[m] = mul(Zero, f[m])
  BY DEF Values
<1>2. SumTo(f, n) = mul(Zero, SumTo(f, n))
  BY <1>1, OneIsPower, SumScale
<1>3. QED
  BY <1>2, MulZero

LEMMA ProductOnes ==
  ASSUME NEW f, \A m \in DOMAIN f : f[m] = One, NEW n \in Nat
  PROVE  ProductTo(f, n) = One
<1>1. Values(f)
  BY OneIsPower DEF Values
<1> DEFINE Ones(m) == ProductTo(f, m) = One
           T == {m \in Nat : ~Ones(m)}
<1>2. 0 \notin T
  BY <1>1, ProductDef
<1>3. ASSUME NEW m \in Nat, Ones(m)
      PROVE  Ones(m + 1)
  <2>1. PICK k \in Nat : k = m + 1
    OBVIOUS
  <2>2. /\ k \notin DOMAIN f => ProductTo(f, k) = ProductTo(f, m)
        /\ k \in DOMAIN f => ProductTo(f, k) = mul(ProductTo(f, m), f[k])
    BY <1>1, <2>1, ProductDef
  <2>3. mul(One, One) = One
    BY OneIsPower, MulOne
  <2>4. QED
    BY <1>3, <2>1, <2>2, <2>3
<1> HIDE DEF Ones
<1>4. T = {}
  BY <1>2, <1>3, NoneFails
<1>5. \A m \in Nat : Ones(m)
  BY <1>4
<1>6. QED
  BY <1>5 DEF Ones
---------------------------------------------------------------------------
(* Divided differences.  The difference of g over the points in A is 0     *)
(* when g is a polynomial with fewer coefficients than A has points.       *)

Points(X, N) ==
  /\ N \in Nat
  /\ X \in [1..N -> Byte]
  /\ \A i, j \in 1..N : X[i] = X[j] => i = j

Among(A, N) == A \subseteq 1..N

AddedTo(N, f, g, h)     == h \in [1..N -> Byte] /\ \A i \in 1..N : h[i] = f[i] ^^ g[i]
ScaledBy(N, c, g, h)    == h \in [1..N -> Byte] /\ \A i \in 1..N : h[i] = mul(c, g[i])
ZeroAt(N, X, z, g, h)   ==
  h \in [1..N -> Byte] /\ \A i \in 1..N : h[i] = mul(X[i] ^^ X[z], g[i])

Apart(X, A, i)     == [j \in A \ {i} |-> inv(X[i] ^^ X[j])]
Weight(X, A, i, N) == ProductTo(Apart(X, A, i), N)
Terms(X, A, g, N)  == [i \in A |-> mul(g[i], Weight(X, A, i, N))]
Diff(X, A, g, N)   == SumTo(Terms(X, A, g, N), N)

LEMMA PointsApart ==
  ASSUME NEW N, NEW X, Points(X, N), NEW i \in 1..N, NEW j \in 1..N, i # j
  PROVE  /\ X[i] \in Byte /\ X[j] \in Byte
         /\ X[i] ^^ X[j] \in Byte
         /\ X[i] ^^ X[j] # Zero
         /\ inv(X[i] ^^ X[j]) \in Byte
         /\ mul(X[i] ^^ X[j], inv(X[i] ^^ X[j])) = One
<1>1. X[i] \in Byte /\ X[j] \in Byte /\ X[i] # X[j]
  BY DEF Points
<1>2. X[i] ^^ X[j] \in Byte /\ X[i] ^^ X[j] # Zero
  BY <1>1, XorByte, XorLaws
<1>3. QED
  BY <1>1, <1>2, InvIs

LEMMA ApartByte ==
  ASSUME NEW N, NEW X, Points(X, N), NEW A, Among(A, N), NEW i \in A
  PROVE  Values(Apart(X, A, i)) /\ Weight(X, A, i, N) \in Byte
<1>1. Values(Apart(X, A, i))
  <2>1. \A j \in A \ {i} : inv(X[i] ^^ X[j]) \in Byte
    BY PointsApart DEF Among
  <2>2. QED
    BY <2>1 DEF Apart, Values
<1>2. N \in Nat
  BY DEF Points
<1>3. QED
  BY <1>1, <1>2, ProductDef DEF Weight

LEMMA WeightDrop ==
  ASSUME NEW N, NEW X, Points(X, N), NEW A, Among(A, N),
         NEW i \in A, NEW z \in A, i # z
  PROVE  Weight(X, A, i, N) = mul(Weight(X, A \ {z}, i, N), inv(X[i] ^^ X[z]))
<1>1. PICK f : f = Apart(X, A, i)
  OBVIOUS
<1>2. Values(f)
  BY <1>1, ApartByte
<1>3. z \in DOMAIN f /\ f[z] = inv(X[i] ^^ X[z])
  BY <1>1 DEF Apart
<1>4. Without(f, z) = Apart(X, A \ {z}, i)
  <2>1. DOMAIN f = A \ {i} /\ \A j \in A \ {i} : f[j] = inv(X[i] ^^ X[j])
    BY <1>1 DEF Apart
  <2>2. (A \ {i}) \ {z} = (A \ {z}) \ {i}
    OBVIOUS
  <2>3. QED
    BY <2>1, <2>2 DEF Without, Apart
<1>5. N \in Nat /\ z \in 1..N
  BY DEF Points, Among
<1>6. ProductTo(f, N) = mul(ProductTo(Without(f, z), N), f[z])
  BY <1>2, <1>3, <1>5, ProductDrop
<1>7. QED
  BY <1>1, <1>3, <1>4, <1>6 DEF Weight

LEMMA TermsByte ==
  ASSUME NEW N, NEW X, Points(X, N), NEW A, Among(A, N), NEW g \in [1..N -> Byte]
  PROVE  Values(Terms(X, A, g, N)) /\ Diff(X, A, g, N) \in Byte
<1>1. Values(Terms(X, A, g, N))
  <2>1. \A i \in A : mul(g[i], Weight(X, A, i, N)) \in Byte
    <3>1. \A i \in A : g[i] \in Byte
      BY DEF Among
    <3>2. QED
      BY <3>1, ApartByte, MulByte
  <2>2. QED
    BY <2>1 DEF Terms, Values
<1>2. N \in Nat
  BY DEF Points
<1>3. QED
  BY <1>1, <1>2, SumDef DEF Diff

LEMMA DiffAdd ==
  ASSUME NEW N, NEW X, Points(X, N), NEW A, Among(A, N),
         NEW f \in [1..N -> Byte], NEW g \in [1..N -> Byte],
         NEW h, AddedTo(N, f, g, h)
  PROVE  Diff(X, A, h, N) = Diff(X, A, f, N) ^^ Diff(X, A, g, N)
<1>1. \A i \in 1..N : h[i] = f[i] ^^ g[i]
  BY DEF AddedTo
<1>2. PICK F : F = Terms(X, A, f, N)
  OBVIOUS
<1>3. PICK G : G = Terms(X, A, g, N)
  OBVIOUS
<1>4. PICK H : H = Terms(X, A, h, N)
  OBVIOUS
<1>5. Values(F) /\ Values(G)
  BY <1>2, <1>3, TermsByte
<1>6. DOMAIN G = DOMAIN F /\ DOMAIN H = DOMAIN F /\ DOMAIN F = A
  BY <1>2, <1>3, <1>4 DEF Terms
<1>7. ASSUME NEW i \in A
      PROVE  H[i] = F[i] ^^ G[i]
  <2>1. PICK w : w = Weight(X, A, i, N)
    OBVIOUS
  <2>2. f[i] \in Byte /\ g[i] \in Byte /\ w \in Byte /\ h[i] = f[i] ^^ g[i]
    BY <1>1, <2>1, ApartByte DEF Among
  <2>3. F[i] = mul(f[i], w) /\ G[i] = mul(g[i], w) /\ H[i] = mul(f[i] ^^ g[i], w)
    BY <1>2, <1>3, <1>4, <2>1, <2>2 DEF Terms
  <2>4. QED
    BY <2>2, <2>3, MulAdd
<1>8. N \in Nat
  BY DEF Points
<1>9. SumTo(H, N) = SumTo(F, N) ^^ SumTo(G, N)
  BY <1>5, <1>6, <1>7, <1>8, SumBoth
<1>10. QED
  BY <1>1, <1>2, <1>3, <1>4, <1>9 DEF Diff

LEMMA DiffScale ==
  ASSUME NEW N, NEW X, Points(X, N), NEW A, Among(A, N),
         NEW c \in Byte, NEW g \in [1..N -> Byte],
         NEW h, ScaledBy(N, c, g, h)
  PROVE  Diff(X, A, h, N) = mul(c, Diff(X, A, g, N))
<1>1. \A i \in 1..N : h[i] = mul(c, g[i])
  BY DEF ScaledBy
<1>2. PICK G : G = Terms(X, A, g, N)
  OBVIOUS
<1>3. PICK H : H = Terms(X, A, h, N)
  OBVIOUS
<1>4. Values(G)
  BY <1>2, TermsByte
<1>5. DOMAIN H = DOMAIN G /\ DOMAIN G = A
  BY <1>2, <1>3 DEF Terms
<1>6. ASSUME NEW i \in A
      PROVE  H[i] = mul(c, G[i])
  <2>1. PICK w : w = Weight(X, A, i, N)
    OBVIOUS
  <2>2. g[i] \in Byte /\ w \in Byte /\ h[i] = mul(c, g[i])
    BY <1>1, <2>1, ApartByte DEF Among
  <2>3. G[i] = mul(g[i], w) /\ H[i] = mul(mul(c, g[i]), w)
    BY <1>2, <1>3, <2>1, <2>2 DEF Terms
  <2>4. QED
    BY <2>2, <2>3, MulAssoc
<1>7. N \in Nat
  BY DEF Points
<1>8. SumTo(H, N) = mul(c, SumTo(G, N))
  BY <1>4, <1>5, <1>6, <1>7, SumScale
<1>9. QED
  BY <1>1, <1>2, <1>3, <1>8 DEF Diff

(* A factor that is 0 at one of the points takes that point away.          *)
LEMMA DiffDrop ==
  ASSUME NEW N, NEW X, Points(X, N), NEW A, Among(A, N), NEW z \in A,
         NEW g \in [1..N -> Byte],
         NEW h, ZeroAt(N, X, z, g, h)
  PROVE  Diff(X, A, h, N) = Diff(X, A \ {z}, g, N)
<1>1. \A i \in 1..N : h[i] = mul(X[i] ^^ X[z], g[i])
  BY DEF ZeroAt
<1>2. PICK H : H = Terms(X, A, h, N)
  OBVIOUS
<1>3. PICK G : G = Terms(X, A \ {z}, g, N)
  OBVIOUS
<1>4. h \in [1..N -> Byte]
  BY DEF ZeroAt
<1>5. Values(H) /\ DOMAIN H = A
  BY <1>2, <1>4, TermsByte DEF Terms
<1>6. H[z] = Zero
  <2>1. h[z] = mul(Zero, g[z])
    BY <1>1, XorLaws DEF Among
  <2>2. QED
    BY <1>2, <2>1, MulZero DEF Terms
<1>7. ASSUME NEW i \in A \ {z}
      PROVE  H[i] = G[i]
  <2>1. PICK d : d = X[i] ^^ X[z]
    OBVIOUS
  <2>2. PICK r : r = inv(d)
    OBVIOUS
  <2>3. d \in Byte /\ r \in Byte /\ mul(d, r) = One /\ g[i] \in Byte
    <3>1. i \in 1..N /\ z \in 1..N /\ i # z
      BY DEF Among
    <3>2. QED
      BY <2>1, <2>2, <3>1, PointsApart
  <2>4. PICK w : w = Weight(X, A \ {z}, i, N)
    OBVIOUS
  <2>5. w \in Byte
    <3>1. Among(A \ {z}, N)
      BY DEF Among
    <3>2. QED
      BY <2>4, <3>1, ApartByte
  <2>6. Weight(X, A, i, N) = mul(w, r)
    <3>1. i \in A /\ z \in A /\ i # z
      OBVIOUS
    <3>2. Weight(X, A, i, N) = mul(Weight(X, A \ {z}, i, N), inv(X[i] ^^ X[z]))
      BY <3>1, WeightDrop
    <3>3. QED
      BY <2>1, <2>2, <2>4, <3>2
  <2>7. H[i] = mul(mul(d, g[i]), mul(w, r))
    <3>1. h[i] = mul(d, g[i])
      BY <1>1, <2>1 DEF Among
    <3>2. QED
      BY <1>2, <2>6, <3>1 DEF Terms
  <2>8. mul(mul(d, g[i]), mul(w, r)) = mul(g[i], w)
    <3>1. mul(d, g[i]) = mul(g[i], d) /\ mul(w, r) = mul(r, w) /\ mul(r, w) \in Byte
      BY <2>3, <2>5, MulComm, MulByte
    <3>2. mul(mul(g[i], d), mul(r, w)) = mul(g[i], mul(d, mul(r, w)))
      BY <2>3, <3>1, MulAssoc
    <3>3. mul(d, mul(r, w)) = mul(mul(d, r), w)
      BY <2>3, <2>5, MulAssoc
    <3>4. mul(One, w) = w
      BY <2>5, MulOne
    <3>5. QED
      BY <2>3, <3>1, <3>2, <3>3, <3>4
  <2>9. QED
    BY <1>3, <2>4, <2>7, <2>8 DEF Terms
<1>8. Without(H, z) = G
  <2>1. DOMAIN G = A \ {z} /\ G = [i \in A \ {z} |-> G[i]]
    BY <1>3 DEF Terms
  <2>2. QED
    BY <1>5, <1>7, <2>1 DEF Without
<1>9. N \in Nat
  BY DEF Points
<1>10. SumTo(H, N) = SumTo(G, N) ^^ Zero
  <2>1. z \in 1..N /\ z \in DOMAIN H
    BY <1>5 DEF Among
  <2>2. QED
    BY <1>5, <1>6, <1>8, <1>9, <2>1, SumDrop
<1>11. SumTo(G, N) ^^ Zero = SumTo(G, N)
  BY XorLaws
<1>12. QED
  BY <1>1, <1>2, <1>3, <1>10, <1>11 DEF Diff

Ones(N) == [i \in 1..N |-> One]

LEMMA DiffEnds ==
  ASSUME NEW N, NEW X, Points(X, N), NEW A, Among(A, N), NEW a \in A, NEW b \in A
  PROVE  mul(X[a] ^^ X[b], Diff(X, A, Ones(N), N))
           = Diff(X, A \ {a}, Ones(N), N) ^^ Diff(X, A \ {b}, Ones(N), N)
<1>1. PICK e : e = Ones(N)
  OBVIOUS
<1>2. e \in [1..N -> Byte] /\ \A i \in 1..N : e[i] = One
  BY <1>1, OneIsPower DEF Ones
<1>3. PICK f : f = [i \in 1..N |-> mul(X[i] ^^ X[a], e[i])]
  OBVIOUS
<1>4. PICK g : g = [i \in 1..N |-> mul(X[i] ^^ X[b], e[i])]
  OBVIOUS
<1>5. PICK h : h = [i \in 1..N |-> f[i] ^^ g[i]]
  OBVIOUS
<1>6. PICK d : d = X[a] ^^ X[b]
  OBVIOUS
<1>7. \A i \in 1..N : X[i] \in Byte
  BY DEF Points
<1>8. d \in Byte /\ X[a] \in Byte /\ X[b] \in Byte
  BY <1>6, <1>7, XorByte DEF Among
<1>9. ASSUME NEW i \in 1..N
      PROVE  /\ f[i] = X[i] ^^ X[a] /\ g[i] = X[i] ^^ X[b]
             /\ f[i] \in Byte /\ g[i] \in Byte
             /\ h[i] = mul(d, e[i]) /\ h[i] \in Byte
  <2>1. X[i] ^^ X[a] \in Byte /\ X[i] ^^ X[b] \in Byte
    BY <1>7, <1>8, XorByte
  <2>2. f[i] = X[i] ^^ X[a] /\ g[i] = X[i] ^^ X[b]
    BY <1>2, <1>3, <1>4, <2>1, MulOne
  <2>3. (X[i] ^^ X[a]) ^^ (X[i] ^^ X[b]) = d
    <3>1. (X[i] ^^ X[a]) ^^ (X[i] ^^ X[b]) = (X[i] ^^ X[i]) ^^ (X[a] ^^ X[b])
      BY XorFour
    <3>2. X[i] ^^ X[i] = Zero /\ Zero ^^ d = d
      BY XorLaws
    <3>3. QED
      BY <1>6, <3>1, <3>2
  <2>4. mul(d, e[i]) = d
    BY <1>2, <1>8, MulOne
  <2>5. h[i] = d
    BY <1>5, <2>2, <2>3
  <2>6. QED
    BY <1>8, <2>1, <2>2, <2>4, <2>5
<1>10. f \in [1..N -> Byte] /\ g \in [1..N -> Byte] /\ h \in [1..N -> Byte]
  BY <1>3, <1>4, <1>5, <1>9
<1>11. Diff(X, A, f, N) = Diff(X, A \ {a}, e, N)
  <2>1. ZeroAt(N, X, a, e, f)
    BY <1>3, <1>10 DEF ZeroAt
  <2>2. QED
    BY <1>2, <2>1, DiffDrop
<1>12. Diff(X, A, g, N) = Diff(X, A \ {b}, e, N)
  <2>1. ZeroAt(N, X, b, e, g)
    BY <1>4, <1>10 DEF ZeroAt
  <2>2. QED
    BY <1>2, <2>1, DiffDrop
<1>13. Diff(X, A, h, N) = Diff(X, A, f, N) ^^ Diff(X, A, g, N)
  <2>1. AddedTo(N, f, g, h)
    BY <1>5, <1>10 DEF AddedTo
  <2>2. QED
    BY <1>10, <2>1, DiffAdd
<1>14. Diff(X, A, h, N) = mul(d, Diff(X, A, e, N))
  <2>1. ScaledBy(N, d, e, h)
    BY <1>9, <1>10 DEF ScaledBy
  <2>2. QED
    BY <1>2, <1>8, <2>1, DiffScale
<1>15. QED
  BY <1>1, <1>6, <1>11, <1>12, <1>13, <1>14

LEMMA DiffOne ==
  ASSUME NEW N, NEW X, Points(X, N), NEW z \in 1..N
  PROVE  Diff(X, {z}, Ones(N), N) = One
<1>1. PICK F : F = Terms(X, {z}, Ones(N), N)
  OBVIOUS
<1>2. N \in Nat
  BY DEF Points
<1>3. Weight(X, {z}, z, N) = One
  <2>1. DOMAIN Apart(X, {z}, z) = {}
    BY DEF Apart
  <2>2. QED
    BY <1>2, <2>1, ProductOnes DEF Weight
<1>4. F[z] = One /\ DOMAIN F = {z}
  <2>1. mul(One, One) = One
    BY OneIsPower, MulOne
  <2>2. QED
    BY <1>1, <1>3, <2>1 DEF Terms, Ones
<1>5. Values(F)
  BY <1>4, OneIsPower DEF Values
<1>6. SumTo(Without(F, z), N) = Zero
  <2>1. DOMAIN Without(F, z) = {}
    BY <1>4 DEF Without
  <2>2. QED
    BY <1>2, <2>1, SumEmpty
<1>7. SumTo(F, N) = Zero ^^ One
  BY <1>2, <1>4, <1>5, <1>6, SumDrop
<1>8. QED
  BY <1>1, <1>7, XorLaws DEF Diff

Constant(X, N, l) ==
  \A lo, hi \in 1..N : hi = lo + l + 1 => Diff(X, lo..hi, Ones(N), N) = Zero

LEMMA DiffOfOnes ==
  ASSUME NEW N, NEW X, Points(X, N), NEW m \in 2..N
  PROVE  Diff(X, 1..m, Ones(N), N) = Zero
<1> DEFINE T == {l \in Nat : ~Constant(X, N, l)}
<1>1. N \in Nat /\ \A i \in 1..N : X[i] \in Byte
  BY DEF Points
<1>2. ASSUME NEW lo \in 1..N, NEW hi \in 1..N, lo < hi,
             Diff(X, (lo + 1)..hi, Ones(N), N) = Diff(X, lo..(hi - 1), Ones(N), N)
      PROVE  Diff(X, lo..hi, Ones(N), N) = Zero
  <2>1. PICK A : A = lo..hi
    OBVIOUS
  <2>2. Among(A, N) /\ lo \in A /\ hi \in A /\ lo # hi
    BY <1>1, <1>2, <2>1 DEF Among
  <2>3. A \ {lo} = (lo + 1)..hi
    BY <2>1
  <2>4. A \ {hi} = lo..(hi - 1)
    BY <2>1
  <2>5. mul(X[lo] ^^ X[hi], Diff(X, A, Ones(N), N))
          = Diff(X, A \ {lo}, Ones(N), N) ^^ Diff(X, A \ {hi}, Ones(N), N)
    BY <2>2, DiffEnds
  <2>6. mul(X[lo] ^^ X[hi], Diff(X, A, Ones(N), N)) = Zero
    <3>1. PICK y : y = Diff(X, (lo + 1)..hi, Ones(N), N)
      OBVIOUS
    <3>2. mul(X[lo] ^^ X[hi], Diff(X, A, Ones(N), N)) = y ^^ y
      BY <1>2, <2>3, <2>4, <2>5, <3>1
    <3>3. QED
      BY <3>2, XorLaws
  <2>7. X[lo] ^^ X[hi] \in Byte /\ X[lo] ^^ X[hi] # Zero
    BY <2>2, PointsApart
  <2>8. Diff(X, A, Ones(N), N) \in Byte
    <3>1. Ones(N) \in [1..N -> Byte]
      BY OneIsPower DEF Ones
    <3>2. QED
      BY <2>2, <3>1, TermsByte
  <2>9. QED
    BY <2>1, <2>6, <2>7, <2>8, MulByte
<1>3. 0 \notin T
  <2>1. ASSUME NEW lo \in 1..N, NEW hi \in 1..N, hi = lo + 0 + 1
        PROVE  Diff(X, lo..hi, Ones(N), N) = Zero
    <3>1. lo < hi /\ (lo + 1)..hi = {hi} /\ lo..(hi - 1) = {lo}
      BY <2>1
    <3>2. Diff(X, {hi}, Ones(N), N) = One /\ Diff(X, {lo}, Ones(N), N) = One
      BY DiffOne
    <3>3. QED
      BY <1>2, <3>1, <3>2
  <2>2. QED
    BY <2>1 DEF Constant
<1>4. ASSUME NEW l \in Nat, Constant(X, N, l)
      PROVE  Constant(X, N, l + 1)
  <2>1. ASSUME NEW lo \in 1..N, NEW hi \in 1..N, hi = lo + (l + 1) + 1
        PROVE  Diff(X, lo..hi, Ones(N), N) = Zero
    <3>1. PICK a \in 1..N : a = lo + 1
      BY <1>1, <2>1
    <3>2. PICK b \in 1..N : b = hi - 1
      BY <1>1, <2>1
    <3>3. hi = a + l + 1 /\ b = lo + l + 1 /\ lo < hi
      BY <2>1, <3>1, <3>2
    <3>4. Diff(X, a..hi, Ones(N), N) = Zero
      BY <1>4, <3>3 DEF Constant
    <3>5. Diff(X, lo..b, Ones(N), N) = Zero
      BY <1>4, <3>3 DEF Constant
    <3>6. QED
      BY <1>2, <3>1, <3>2, <3>3, <3>4, <3>5
  <2>2. QED
    BY <2>1 DEF Constant
<1>5. T = {}
  BY <1>3, <1>4, NoneFails
<1>6. PICK l \in Nat : l = m - 2
  BY <1>1
<1>7. Constant(X, N, l) /\ 1 \in 1..N /\ m \in 1..N /\ m = 1 + l + 1
  BY <1>1, <1>5, <1>6
<1>8. QED
  BY <1>7 DEF Constant

(* A turn of Horner's rule adds a coefficient.                             *)
HornerOf(N, X, c, g, h) ==
  h \in [1..N -> Byte] /\ \A i \in 1..N : h[i] = mul(g[i], X[i]) ^^ c

LEMMA DiffTurn ==
  ASSUME NEW N, NEW X, Points(X, N), NEW m \in 2..N, NEW c \in Byte,
         NEW g \in [1..N -> Byte], NEW h, HornerOf(N, X, c, g, h),
         Diff(X, 1..m, g, N) = Zero, Diff(X, 1..(m - 1), g, N) = Zero
  PROVE  Diff(X, 1..m, h, N) = Zero
<1>1. PICK A : A = 1..m
  OBVIOUS
<1>2. PICK e : e = Ones(N)
  OBVIOUS
<1>3. N \in Nat /\ m \in A /\ Among(A, N) /\ A \ {m} = 1..(m - 1) /\ m \in 1..N
  BY <1>1 DEF Points, Among
<1>4. X[m] \in Byte /\ \A i \in 1..N : X[i] \in Byte /\ g[i] \in Byte
  BY <1>3 DEF Points
<1>5. e \in [1..N -> Byte] /\ \A i \in 1..N : e[i] = One
  BY <1>2, OneIsPower DEF Ones
<1>6. PICK u : u = [i \in 1..N |-> mul(X[i] ^^ X[m], g[i])]
  OBVIOUS
<1>7. PICK v : v = [i \in 1..N |-> mul(X[m], g[i])]
  OBVIOUS
<1>8. PICK w : w = [i \in 1..N |-> mul(c, e[i])]
  OBVIOUS
<1>9. PICK t : t = [i \in 1..N |-> u[i] ^^ v[i]]
  OBVIOUS
<1>10. ASSUME NEW i \in 1..N
       PROVE  /\ u[i] \in Byte /\ v[i] \in Byte /\ w[i] \in Byte /\ t[i] \in Byte
              /\ t[i] = mul(g[i], X[i]) /\ w[i] = c
  <2>1. X[i] \in Byte /\ g[i] \in Byte /\ X[i] ^^ X[m] \in Byte
    BY <1>4, XorByte
  <2>2. w[i] = c
    BY <1>5, <1>8, MulOne
  <2>3. u[i] = mul(X[i], g[i]) ^^ mul(X[m], g[i])
    BY <1>4, <1>6, <2>1, MulAdd
  <2>4. u[i] \in Byte /\ v[i] \in Byte /\ mul(X[i], g[i]) = mul(g[i], X[i])
    BY <1>4, <1>6, <1>7, <2>1, MulByte, MulComm
  <2>5. t[i] = mul(X[i], g[i])
    <3>1. t[i] = (mul(X[i], g[i]) ^^ v[i]) ^^ v[i]
      BY <1>7, <1>9, <2>3
    <3>2. (mul(X[i], g[i]) ^^ v[i]) ^^ v[i] = mul(X[i], g[i]) ^^ (v[i] ^^ v[i])
      BY XorLaws
    <3>3. v[i] ^^ v[i] = Zero /\ mul(X[i], g[i]) ^^ Zero = mul(X[i], g[i])
      BY XorLaws
    <3>4. QED
      BY <3>1, <3>2, <3>3
  <2>6. t[i] \in Byte
    BY <1>9, <2>4, XorByte
  <2>7. QED
    BY <2>2, <2>4, <2>5, <2>6
<1>11. /\ u \in [1..N -> Byte] /\ v \in [1..N -> Byte]
       /\ w \in [1..N -> Byte] /\ t \in [1..N -> Byte]
  BY <1>6, <1>7, <1>8, <1>9, <1>10
<1>12. Diff(X, A, u, N) = Zero
  <2>1. ZeroAt(N, X, m, g, u)
    BY <1>6, <1>11 DEF ZeroAt
  <2>2. Diff(X, A, u, N) = Diff(X, A \ {m}, g, N)
    BY <1>3, <2>1, DiffDrop
  <2>3. QED
    BY <1>3, <2>2
<1>13. Diff(X, A, v, N) = Zero
  <2>1. ScaledBy(N, X[m], g, v)
    BY <1>7, <1>11 DEF ScaledBy
  <2>2. Diff(X, A, v, N) = mul(X[m], Diff(X, A, g, N))
    BY <1>3, <1>4, <2>1, DiffScale
  <2>3. QED
    BY <1>1, <2>2, MulZero
<1>14. Diff(X, A, w, N) = Zero
  <2>1. ScaledBy(N, c, e, w)
    BY <1>8, <1>11 DEF ScaledBy
  <2>2. Diff(X, A, w, N) = mul(c, Diff(X, A, e, N))
    BY <1>3, <1>5, <2>1, DiffScale
  <2>3. Diff(X, A, e, N) = Zero
    BY <1>1, <1>2, DiffOfOnes
  <2>4. QED
    BY <2>2, <2>3, MulZero
<1>15. Diff(X, A, t, N) = Zero
  <2>1. AddedTo(N, u, v, t)
    BY <1>9, <1>11 DEF AddedTo
  <2>2. Diff(X, A, t, N) = Diff(X, A, u, N) ^^ Diff(X, A, v, N)
    BY <1>3, <1>11, <2>1, DiffAdd
  <2>3. QED
    BY <1>12, <1>13, <2>2, XorLaws
<1>16. AddedTo(N, t, w, h)
  BY <1>10 DEF HornerOf, AddedTo
<1>17. Diff(X, A, h, N) = Diff(X, A, t, N) ^^ Diff(X, A, w, N)
  BY <1>3, <1>11, <1>16, DiffAdd
<1>18. QED
  BY <1>1, <1>14, <1>15, <1>17, XorLaws

LEMMA HornerIs ==
  ASSUME NEW coeffs, NEW l \in Nat, l = Len(coeffs), \A d \in 1..l : coeffs[d] \in Byte,
         NEW x \in Byte
  PROVE  /\ HornerTurns(coeffs, x)[0] = Zero
         /\ \A d \in 0..l : HornerTurns(coeffs, x)[d] \in Byte
         /\ \A d \in 1..l : HornerTurns(coeffs, x)[d]
                              = mul(HornerTurns(coeffs, x)[d - 1], x) ^^ coeffs[l - d + 1]
<1> DEFINE Acc(g) == [d \in 0..l |-> IF d = 0 THEN Zero
                                     ELSE mul(g[d - 1], x) ^^ coeffs[l - d + 1]]
<1>1. PICK f : f = [d \in 1..l |-> coeffs[l - d + 1]]
  OBVIOUS
<1>2. PICK op : op = [p \in Byte \X Byte |-> mul(p[1], x) ^^ p[2]]
  OBVIOUS
<1>3. op \in [Byte \X Byte -> Byte]
  <2>1. \A p \in Byte \X Byte : mul(p[1], x) ^^ p[2] \in Byte
    BY MulByte, XorByte
  <2>2. QED
    BY <1>2, <2>1
<1>4. Values(f) /\ DOMAIN f = 1..l
  <2>1. \A d \in 1..l : l - d + 1 \in 1..l
    OBVIOUS
  <2>2. QED
    BY <1>1, <2>1 DEF Values
<1>5. PICK g : Run(op, Zero, f, l, g)
  BY <1>3, <1>4, OneIsPower, RunExists
<1>6. g = Acc(g)
  <2>1. ASSUME NEW d \in 1..l
        PROVE  g[d] = mul(g[d - 1], x) ^^ coeffs[l - d + 1]
    <3>1. g[d - 1] \in Byte /\ g[d] = op[<<g[d - 1], f[d]>>]
      <4>1. d - 1 \in 0..l /\ d \in DOMAIN f
        BY <1>4
      <4>2. g[d - 1] \in Byte /\ g[d] = Turn(op, f, d, g[d - 1])
        BY <1>5, <4>1 DEF Run
      <4>3. QED
        BY <4>1, <4>2 DEF Turn
    <3>2. f[d] \in Byte /\ f[d] = coeffs[l - d + 1]
      BY <1>1, <1>4 DEF Values
    <3>3. QED
      BY <1>2, <3>1, <3>2
  <2>2. QED
    BY <1>5, <2>1 DEF Run
<1>7. HornerTurns(coeffs, x) = CHOOSE h : h = Acc(h)
  BY DEF HornerTurns
<1>8. PICK h : h = HornerTurns(coeffs, x)
  OBVIOUS
<1>9. h = Acc(h)
  <2> HIDE DEF Acc
  <2>1. QED
    BY <1>6, <1>7, <1>8
<1>10. h[0] = Zero /\ \A d \in 1..l : h[d] = mul(h[d - 1], x) ^^ coeffs[l - d + 1]
  BY <1>9
<1> DEFINE T == {d \in Nat : d <= l /\ h[d] \notin Byte}
<1>11. 0 \notin T
  BY <1>10, OneIsPower
<1>12. ASSUME NEW d \in Nat, d + 1 \in T
       PROVE  d \in T
  <2>1. d + 1 \in 1..l /\ (d + 1) - 1 = d /\ l - (d + 1) + 1 \in 1..l
    BY <1>12
  <2>2. h[d + 1] = mul(h[d], x) ^^ coeffs[l - (d + 1) + 1]
    BY <1>10, <2>1
  <2>3. h[d] \in Byte => h[d + 1] \in Byte
    BY <2>1, <2>2, MulByte, XorByte
  <2>4. QED
    BY <1>12, <2>1, <2>3
<1>13. T = {}
  BY <1>11, <1>12, NoneFails
<1>14. \A d \in 0..l : h[d] \in Byte
  BY <1>13
<1>15. QED
  BY <1>8, <1>10, <1>14

HornerAt(N, X, coeffs, d) == [i \in 1..N |-> HornerTurns(coeffs, X[i])[d]]

LEMMA DiffHorner ==
  ASSUME NEW N, NEW X, Points(X, N), NEW coeffs, NEW l \in Nat, l = Len(coeffs),
         \A d \in 1..l : coeffs[d] \in Byte
  PROVE  \A d \in 0..l : /\ HornerAt(N, X, coeffs, d) \in [1..N -> Byte]
                         /\ \A m \in (d + 1)..N : Diff(X, 1..m, HornerAt(N, X, coeffs, d), N) = Zero
<1>1. N \in Nat /\ \A i \in 1..N : X[i] \in Byte
  BY DEF Points
<1>2. ASSUME NEW d \in 0..l
      PROVE  HornerAt(N, X, coeffs, d) \in [1..N -> Byte]
  BY <1>1, HornerIs DEF HornerAt
<1> DEFINE Vanishes(d) == \A m \in (d + 1)..N : Diff(X, 1..m, HornerAt(N, X, coeffs, d), N) = Zero
           T == {d \in Nat : d <= l /\ ~Vanishes(d)}
<1>3. Vanishes(0)
  <2> SUFFICES ASSUME NEW m \in 1..N
               PROVE  Diff(X, 1..m, HornerAt(N, X, coeffs, 0), N) = Zero
    OBVIOUS
  <2>1. PICK h : h = HornerAt(N, X, coeffs, 0)
    OBVIOUS
  <2>2. h \in [1..N -> Byte] /\ \A i \in 1..N : h[i] = Zero
    <3>1. 0 \in 0..l
      OBVIOUS
    <3>2. \A i \in 1..N : HornerTurns(coeffs, X[i])[0] = Zero
      BY <1>1, HornerIs
    <3>3. QED
      BY <1>2, <2>1, <3>1, <3>2 DEF HornerAt
  <2>3. ScaledBy(N, Zero, h, h)
    BY <2>2, MulZero DEF ScaledBy
  <2>4. PICK A : A = 1..m
    OBVIOUS
  <2>5. Among(A, N)
    BY <1>1, <2>4 DEF Among
  <2>6. Diff(X, A, h, N) = mul(Zero, Diff(X, A, h, N))
    BY <2>2, <2>3, <2>5, OneIsPower, DiffScale
  <2>7. QED
    BY <2>1, <2>4, <2>6, MulZero
<1>4. ASSUME NEW d \in Nat, d + 1 <= l, Vanishes(d)
      PROVE  Vanishes(d + 1)
  <2> SUFFICES ASSUME NEW m \in (d + 1 + 1)..N
               PROVE  Diff(X, 1..m, HornerAt(N, X, coeffs, d + 1), N) = Zero
    OBVIOUS
  <2>1. PICK g : g = HornerAt(N, X, coeffs, d)
    OBVIOUS
  <2>2. PICK h : h = HornerAt(N, X, coeffs, d + 1)
    OBVIOUS
  <2>3. d \in 0..l /\ d + 1 \in 0..l /\ d + 1 \in 1..l /\ (d + 1) - 1 = d
    BY <1>4
  <2>4. g \in [1..N -> Byte] /\ h \in [1..N -> Byte]
    BY <1>2, <2>1, <2>2, <2>3
  <2>5. PICK c : c = coeffs[l - (d + 1) + 1]
    OBVIOUS
  <2>6. c \in Byte
    <3>1. l - (d + 1) + 1 \in 1..l
      BY <2>3
    <3>2. QED
      BY <2>5, <3>1
  <2>7. HornerOf(N, X, c, g, h)
    <3>1. ASSUME NEW i \in 1..N
          PROVE  h[i] = mul(g[i], X[i]) ^^ c
      <4>1. PICK x \in Byte : x = X[i]
        BY <1>1
      <4>2. PICK a : a = HornerTurns(coeffs, x)
        OBVIOUS
      <4>3. \A e \in 1..l : a[e] = mul(a[e - 1], x) ^^ coeffs[l - e + 1]
        BY <4>2, HornerIs
      <4>4. a[d + 1] = mul(a[d], x) ^^ c
        BY <2>3, <2>5, <4>3
      <4>5. h[i] = a[d + 1] /\ g[i] = a[d]
        BY <2>1, <2>2, <4>1, <4>2 DEF HornerAt
      <4>6. QED
        BY <4>1, <4>4, <4>5
    <3>2. QED
      BY <2>4, <3>1 DEF HornerOf
  <2>8. m \in 2..N /\ m \in (d + 1)..N /\ m - 1 \in (d + 1)..N
    BY <1>1
  <2>9. Diff(X, 1..m, g, N) = Zero /\ Diff(X, 1..(m - 1), g, N) = Zero
    BY <1>4, <2>1, <2>8
  <2>10. Diff(X, 1..m, h, N) = Zero
    BY <2>4, <2>6, <2>7, <2>8, <2>9, DiffTurn
  <2>11. QED
    BY <2>2, <2>10
<1> HIDE DEF Vanishes
<1>5. 0 \notin T
  BY <1>3
<1>6. \A d \in Nat : d + 1 \in T => d \in T
  BY <1>4
<1>7. T = {}
  BY <1>5, <1>6, NoneFails
<1>8. \A d \in 0..l : Vanishes(d)
  BY <1>7
<1>9. QED
  BY <1>2, <1>8 DEF Vanishes
---------------------------------------------------------------------------
(* Interpolation.  The points of the shares, and 0 as one more.            *)

Numbers(xs, k) ==
  /\ k \in Nat
  /\ xs \in [1..k -> Byte]
  /\ \A i \in 1..k : xs[i] # Zero
  /\ \A i, j \in 1..k : xs[i] = xs[j] => i = j

WithZero(xs, k) == [i \in 1..(k + 1) |-> IF i = k + 1 THEN Zero ELSE xs[i]]

LEMMA ZeroIsPoint ==
  ASSUME NEW k, NEW xs, Numbers(xs, k)
  PROVE  /\ Points(WithZero(xs, k), k + 1)
         /\ WithZero(xs, k)[k + 1] = Zero
         /\ \A i \in 1..k : WithZero(xs, k)[i] = xs[i]
<1>1. PICK X : X = WithZero(xs, k)
  OBVIOUS
<1>2. k \in Nat /\ \A i \in 1..k : xs[i] \in Byte /\ xs[i] # Zero
  BY DEF Numbers
<1>3. X[k + 1] = Zero /\ \A i \in 1..k : X[i] = xs[i]
  BY <1>1, <1>2 DEF WithZero
<1>4. \A i \in 1..(k + 1) : i = k + 1 \/ i \in 1..k
  BY <1>2
<1>5. X \in [1..(k + 1) -> Byte]
  <2>1. \A i \in 1..(k + 1) : X[i] \in Byte
    BY <1>2, <1>3, <1>4, OneIsPower
  <2>2. QED
    BY <1>1, <2>1 DEF WithZero
<1>6. ASSUME NEW i \in 1..(k + 1), NEW j \in 1..(k + 1), X[i] = X[j]
      PROVE  i = j
  <2>1. CASE i = k + 1
    BY <1>2, <1>3, <1>4, <1>6, <2>1
  <2>2. CASE j = k + 1
    BY <1>2, <1>3, <1>4, <1>6, <2>2
  <2>3. CASE i \in 1..k /\ j \in 1..k
    BY <1>3, <1>6, <2>3 DEF Numbers
  <2>4. QED
    BY <1>4, <2>1, <2>2, <2>3
<1>7. k + 1 \in Nat
  BY <1>2
<1>8. QED
  BY <1>1, <1>3, <1>5, <1>6, <1>7 DEF Points

LEMMA LastWeight ==
  ASSUME NEW k, NEW xs, Numbers(xs, k)
  PROVE  /\ Weight(WithZero(xs, k), 1..(k + 1), k + 1, k + 1) \in Byte
         /\ mul(ProductTo(xs, k), Weight(WithZero(xs, k), 1..(k + 1), k + 1, k + 1)) = One
<1>1. PICK X : X = WithZero(xs, k)
  OBVIOUS
<1>2. k \in Nat /\ DOMAIN xs = 1..k /\ \A i \in 1..k : xs[i] \in Byte /\ xs[i] # Zero
  BY DEF Numbers
<1>3. PICK N \in Nat : N = k + 1
  BY <1>2
<1>4. X[N] = Zero /\ \A i \in 1..k : X[i] = xs[i]
  BY <1>1, <1>3, ZeroIsPoint
<1>5. PICK g : g = [j \in 1..k |-> inv(xs[j])]
  OBVIOUS
<1>6. Values(g) /\ Values(xs) /\ DOMAIN g = 1..k /\ \A j \in 1..k : mul(xs[j], g[j]) = One
  BY <1>2, <1>5, InvIs DEF Values
<1>7. Apart(X, 1..N, N) = g
  <2>1. (1..N) \ {N} = 1..k
    BY <1>2, <1>3
  <2>2. ASSUME NEW j \in 1..k
        PROVE  inv(X[N] ^^ X[j]) = inv(xs[j])
    <3>1. X[N] ^^ X[j] = xs[j]
      BY <1>4, XorLaws
    <3>2. QED
      BY <3>1
  <2>3. QED
    BY <1>5, <2>1, <2>2 DEF Apart
<1>8. ProductTo(g, N) = ProductTo(g, k) /\ ProductTo(g, k) \in Byte
  <2>1. k + 1 \notin DOMAIN g
    BY <1>2, <1>6
  <2>2. QED
    BY <1>2, <1>3, <1>6, <2>1, ProductDef
<1>9. mul(ProductTo(xs, k), ProductTo(g, k)) = One
  <2>1. PICK h : h = [j \in 1..k |-> One]
    OBVIOUS
  <2>2. DOMAIN h = DOMAIN xs /\ DOMAIN g = DOMAIN xs /\ \A j \in DOMAIN xs : h[j] = mul(xs[j], g[j])
    BY <1>2, <1>6, <2>1
  <2>3. ProductTo(h, k) = mul(ProductTo(xs, k), ProductTo(g, k))
    BY <1>2, <1>6, <2>2, ProductBoth
  <2>4. \A j \in DOMAIN h : h[j] = One
    BY <2>1
  <2>5. ProductTo(h, k) = One
    BY <1>2, <2>4, ProductOnes
  <2>6. QED
    BY <2>3, <2>5
<1>10. Weight(X, 1..N, N, N) = ProductTo(g, k)
  BY <1>7, <1>8 DEF Weight
<1>11. QED
  BY <1>1, <1>3, <1>8, <1>9, <1>10

LEMMA BasisIs ==
  ASSUME NEW k, NEW xs, Numbers(xs, k), NEW i \in 1..k
  PROVE  /\ Weight(WithZero(xs, k), 1..(k + 1), i, k + 1) \in Byte
         /\ Basis(xs, i) = mul(ProductTo(xs, k), Weight(WithZero(xs, k), 1..(k + 1), i, k + 1))
         /\ ProductTo(xs, k) \in Byte
<1>1. PICK X : X = WithZero(xs, k)
  OBVIOUS
<1>2. k \in Nat /\ DOMAIN xs = 1..k /\ \A j \in 1..k : xs[j] \in Byte /\ xs[j] # Zero
  BY DEF Numbers
<1>3. PICK N \in Nat : N = k + 1
  BY <1>2
<1>4. Points(X, N) /\ X[N] = Zero /\ \A j \in 1..k : X[j] = xs[j]
  BY <1>1, <1>3, ZeroIsPoint
<1>5. PICK g : g = [j \in (1..k) \ {i} |-> inv(xs[i] ^^ xs[j])]
  OBVIOUS
<1>6. PICK f : f = Without(xs, i)
  OBVIOUS
<1>7. PICK h : h = [j \in (1..k) \ {i} |-> div(xs[j], xs[i] ^^ xs[j])]
  OBVIOUS
<1>8. ASSUME NEW j \in (1..k) \ {i}
      PROVE  g[j] \in Byte /\ f[j] = xs[j] /\ h[j] = mul(f[j], g[j])
  <2>1. PICK d : d = xs[i] ^^ xs[j]
    OBVIOUS
  <2>2. d \in Byte
    BY <1>2, <2>1, XorByte
  <2>3. d # Zero
    BY <2>1, XorLaws DEF Numbers
  <2>4. inv(d) \in Byte /\ div(xs[j], d) = mul(xs[j], inv(d))
    BY <1>2, <2>2, <2>3, InvIs, DivIs
  <2>5. f[j] = xs[j]
    BY <1>2, <1>6 DEF Without
  <2>6. QED
    BY <1>5, <1>7, <2>1, <2>4, <2>5
<1>9. Values(xs) /\ Values(f) /\ Values(g)
  <2>1. \A j \in DOMAIN f : f[j] \in Byte
    BY <1>2, <1>6 DEF Without
  <2>2. \A j \in DOMAIN g : g[j] \in Byte
    BY <1>5, <1>8
  <2>3. QED
    BY <1>2, <2>1, <2>2 DEF Values
<1>10. DOMAIN f = (1..k) \ {i} /\ DOMAIN g = (1..k) \ {i} /\ DOMAIN h = (1..k) \ {i}
  BY <1>2, <1>5, <1>6, <1>7 DEF Without
<1>11. PICK p : p = ProductTo(f, k)
  OBVIOUS
<1>12. PICK v : v = ProductTo(g, k)
  OBVIOUS
<1>13. PICK x : x = xs[i]
  OBVIOUS
<1>14. p \in Byte /\ v \in Byte /\ x \in Byte /\ x # Zero
  BY <1>2, <1>9, <1>11, <1>12, <1>13, ProductDef
<1>15. ProductTo(h, k) = mul(p, v)
  BY <1>2, <1>8, <1>9, <1>10, <1>11, <1>12, ProductBoth
<1>16. Basis(xs, i) = mul(p, v)
  <2>1. Len(xs) = k
    <3>1. xs \in Seq(Byte)
      BY <1>2 DEF Numbers
    <3>2. QED
      BY <1>2, <3>1
  <2>2. Basis(xs, i) = ProductTo(h, k)
    BY <1>2, <1>7, <2>1 DEF Basis, ProductTo
  <2>3. QED
    BY <1>15, <2>2
<1>17. ProductTo(xs, k) = mul(p, x)
  BY <1>2, <1>6, <1>9, <1>11, <1>13, ProductDrop
<1>18. Weight(X, 1..N, i, N) = mul(v, inv(x))
  <2>1. PICK A : A = 1..N
    OBVIOUS
  <2>2. i \in A /\ N \in A /\ i # N /\ Among(A, N)
    BY <1>2, <1>3, <2>1 DEF Among
  <2>3. Weight(X, A, i, N) = mul(Weight(X, A \ {N}, i, N), inv(X[i] ^^ X[N]))
    BY <1>4, <2>2, WeightDrop
  <2>4. X[i] ^^ X[N] = x
    BY <1>4, <1>13, XorLaws
  <2>5. Apart(X, A \ {N}, i) = g
    <3>1. (A \ {N}) \ {i} = (1..k) \ {i}
      BY <1>2, <1>3, <2>1
    <3>2. \A j \in (1..k) \ {i} : X[i] ^^ X[j] = xs[i] ^^ xs[j]
      BY <1>4
    <3>3. QED
      BY <1>5, <3>1, <3>2 DEF Apart
  <2>6. ProductTo(g, N) = v
    <3>1. k + 1 \notin DOMAIN g
      BY <1>2, <1>10
    <3>2. QED
      BY <1>2, <1>3, <1>9, <1>12, <3>1, ProductDef
  <2>7. Weight(X, A \ {N}, i, N) = v
    BY <2>5, <2>6 DEF Weight
  <2>8. QED
    BY <2>1, <2>3, <2>4, <2>7
<1>19. PICK r : r = inv(x)
  OBVIOUS
<1>20. r \in Byte /\ mul(x, r) = One
  BY <1>14, <1>19, InvIs
<1>21. mul(mul(p, x), mul(v, r)) = mul(p, v)
  <2>1. mul(v, r) = mul(r, v) /\ mul(r, v) \in Byte
    BY <1>14, <1>20, MulComm, MulByte
  <2>2. mul(mul(p, x), mul(r, v)) = mul(p, mul(x, mul(r, v)))
    BY <1>14, <2>1, MulAssoc
  <2>3. mul(x, mul(r, v)) = mul(mul(x, r), v)
    BY <1>14, <1>20, MulAssoc
  <2>4. mul(One, v) = v
    BY <1>14, MulOne
  <2>5. QED
    BY <1>20, <2>1, <2>2, <2>3, <2>4
<1>22. mul(v, r) \in Byte /\ mul(p, x) \in Byte
  BY <1>14, <1>20, MulByte
<1>23. QED
  BY <1>1, <1>3, <1>16, <1>17, <1>18, <1>19, <1>21, <1>22

(* The loops of interpolate give back the constant term of a polynomial    *)
(* that was computed by Horner's rule at as many different points other    *)
(* than 0 as it has coefficients.                                          *)
LEMMA Interpolates ==
  ASSUME NEW k, NEW xs, Numbers(xs, k), k # 0, NEW coeffs, Len(coeffs) = k - 1,
         \A d \in 1..(k - 1) : coeffs[d] \in Byte, NEW byte \in Byte
  PROVE  SumTo([i \in 1..k |-> mul(Horner(coeffs, xs[i], byte), Basis(xs, i))], k) = byte
<1>1. PICK X : X = WithZero(xs, k)
  OBVIOUS
<1>2. k \in Nat /\ \A j \in 1..k : xs[j] \in Byte
  BY DEF Numbers
<1>3. PICK N \in Nat : N = k + 1
  BY <1>2
<1>4. Points(X, N) /\ X[N] = Zero /\ \A j \in 1..k : X[j] = xs[j]
  BY <1>1, <1>3, ZeroIsPoint
<1>5. PICK l \in Nat : l = k - 1
  BY <1>2
<1>6. PICK g : g = HornerAt(N, X, coeffs, l)
  OBVIOUS
<1>7. PICK H : H = [i \in 1..N |-> Horner(coeffs, X[i], byte)]
  OBVIOUS
<1>8. PICK A : A = 1..N
  OBVIOUS
<1>9. N \in A /\ Among(A, N) /\ A \ {N} = 1..k
  BY <1>2, <1>3, <1>8 DEF Among
<1>10. /\ g \in [1..N -> Byte]
       /\ Diff(X, 1..N, g, N) = Zero
       /\ Diff(X, 1..(N - 1), g, N) = Zero
  <2>1. l = Len(coeffs) /\ \A d \in 1..l : coeffs[d] \in Byte
    BY <1>5
  <2>2. \A d \in 0..l : /\ HornerAt(N, X, coeffs, d) \in [1..N -> Byte]
                        /\ \A m \in (d + 1)..N : Diff(X, 1..m, HornerAt(N, X, coeffs, d), N) = Zero
    BY <1>4, <2>1, DiffHorner
  <2>3. l \in 0..l /\ N \in (l + 1)..N /\ N - 1 \in (l + 1)..N
    BY <1>2, <1>3, <1>5
  <2>4. QED
    BY <1>6, <2>2, <2>3
<1>11. HornerOf(N, X, byte, g, H)
  <2>1. \A i \in 1..N : H[i] = mul(g[i], X[i]) ^^ byte
    BY <1>5, <1>6, <1>7 DEF Horner, HornerAt
  <2>2. \A i \in 1..N : X[i] \in Byte /\ g[i] \in Byte
    BY <1>4, <1>10 DEF Points
  <2>3. \A i \in 1..N : H[i] \in Byte
    BY <2>1, <2>2, MulByte, XorByte
  <2>4. QED
    BY <1>7, <2>1, <2>3 DEF HornerOf
<1>12. Diff(X, A, H, N) = Zero
  <2>1. N \in 2..N
    BY <1>2, <1>3
  <2>2. QED
    BY <1>4, <1>8, <1>10, <1>11, <2>1, DiffTurn
<1>13. H \in [1..N -> Byte] /\ H[N] = byte
  <2>1. H[N] = mul(g[N], Zero) ^^ byte
    BY <1>4, <1>8, <1>9, <1>11 DEF HornerOf
  <2>2. QED
    BY <1>11, <2>1, MulZero, XorLaws DEF HornerOf
<1>14. PICK F : F = Terms(X, A, H, N)
  OBVIOUS
<1>15. Values(F) /\ DOMAIN F = A /\ \A i \in A : F[i] = mul(H[i], Weight(X, A, i, N))
  BY <1>4, <1>9, <1>13, <1>14, TermsByte DEF Terms
<1>16. PICK G : G = Without(F, N)
  OBVIOUS
<1>17. Values(G) /\ DOMAIN G = 1..k /\ \A i \in 1..k : G[i] = mul(H[i], Weight(X, A, i, N))
  BY <1>9, <1>15, <1>16 DEF Without, Values
<1>18. SumTo(G, k) = F[N]
  <2>1. SumTo(F, N) = SumTo(G, N) ^^ F[N]
    <3>1. N \in DOMAIN F /\ N \in 1..N
      BY <1>8, <1>9, <1>15
    <3>2. QED
      BY <1>15, <1>16, <3>1, SumDrop
  <2>2. SumTo(F, N) = Zero
    BY <1>12, <1>14 DEF Diff
  <2>3. SumTo(G, N) = SumTo(G, k)
    <3>1. k + 1 \notin DOMAIN G
      BY <1>2, <1>17
    <3>2. QED
      BY <1>2, <1>3, <1>17, <3>1, SumDef
  <2>4. PICK a, b : a = SumTo(G, k) /\ b = F[N]
    OBVIOUS
  <2>5. a ^^ b = Zero
    BY <2>1, <2>2, <2>3, <2>4
  <2>6. QED
    BY <2>4, <2>5, XorLaws
<1>19. PICK e : e = ProductTo(xs, k)
  OBVIOUS
<1>20. PICK S : S = [i \in 1..k |-> mul(Horner(coeffs, xs[i], byte), Basis(xs, i))]
  OBVIOUS
<1>21. e \in Byte
  <2>1. 1 \in 1..k
    BY <1>2
  <2>2. QED
    BY <1>19, <2>1, BasisIs
<1>22. ASSUME NEW i \in 1..k
       PROVE  S[i] = mul(e, G[i])
  <2>1. PICK w : w = Weight(X, A, i, N)
    OBVIOUS
  <2>2. w \in Byte /\ Basis(xs, i) = mul(e, w)
    BY <1>1, <1>3, <1>8, <1>19, <2>1, BasisIs
  <2>3. PICK a : a = H[i]
    OBVIOUS
  <2>4. a \in Byte /\ a = Horner(coeffs, xs[i], byte)
    BY <1>2, <1>3, <1>4, <1>7, <1>13, <2>3
  <2>5. S[i] = mul(a, mul(e, w)) /\ G[i] = mul(a, w)
    BY <1>17, <1>20, <2>1, <2>2, <2>3, <2>4
  <2>6. mul(a, mul(e, w)) = mul(e, mul(a, w))
    <3>1. mul(a, mul(e, w)) = mul(mul(a, e), w)
      BY <1>21, <2>2, <2>4, MulAssoc
    <3>2. mul(a, e) = mul(e, a)
      BY <1>21, <2>4, MulComm
    <3>3. mul(mul(e, a), w) = mul(e, mul(a, w))
      BY <1>21, <2>2, <2>4, MulAssoc
    <3>4. QED
      BY <3>1, <3>2, <3>3
  <2>7. QED
    BY <2>5, <2>6
<1>23. SumTo(S, k) = mul(e, SumTo(G, k))
  <2>1. DOMAIN S = DOMAIN G /\ \A i \in DOMAIN G : S[i] = mul(e, G[i])
    BY <1>17, <1>20, <1>22
  <2>2. QED
    BY <1>2, <1>17, <1>21, <2>1, SumScale
<1>24. mul(e, F[N]) = byte
  <2>1. PICK w : w = Weight(X, A, N, N)
    OBVIOUS
  <2>2. w \in Byte /\ mul(e, w) = One
    BY <1>1, <1>3, <1>8, <1>19, <2>1, LastWeight
  <2>3. F[N] = mul(byte, w)
    BY <1>9, <1>13, <1>15, <2>1
  <2>4. mul(e, mul(byte, w)) = mul(mul(e, byte), w)
    BY <1>21, <2>2, MulAssoc
  <2>5. mul(e, byte) = mul(byte, e)
    BY <1>21, MulComm
  <2>6. mul(mul(byte, e), w) = mul(byte, mul(e, w))
    BY <1>21, <2>2, MulAssoc
  <2>7. mul(byte, One) = byte
    BY MulOne
  <2>8. QED
    BY <2>2, <2>3, <2>4, <2>5, <2>6, <2>7
<1>25. QED
  BY <1>18, <1>20, <1>23, <1>24
---------------------------------------------------------------------------
(* The numbers of shares                                                   *)

LEMMA PlacesHalve ==
  ASSUME NEW n \in 0..255
  PROVE  /\ n = 2 * (n \div 2) + (n % 2)
         /\ n \div 2 = 2 * (n \div 4) + ((n \div 2) % 2)
         /\ n \div 4 = 2 * (n \div 8) + ((n \div 4) % 2)
         /\ n \div 8 = 2 * (n \div 16) + ((n \div 8) % 2)
         /\ n \div 16 = 2 * (n \div 32) + ((n \div 16) % 2)
         /\ n \div 32 = 2 * (n \div 64) + ((n \div 32) % 2)
         /\ n \div 64 = 2 * (n \div 128) + ((n \div 64) % 2)
         /\ n \div 128 = (n \div 128) % 2
<1>1. n = 2 * (n \div 2) + (n % 2)
  OBVIOUS
<1>2. n \div 2 = 2 * (n \div 4) + ((n \div 2) % 2)
  OBVIOUS
<1>3. n \div 4 = 2 * (n \div 8) + ((n \div 4) % 2)
  OBVIOUS
<1>4. n \div 8 = 2 * (n \div 16) + ((n \div 8) % 2)
  OBVIOUS
<1>5. n \div 16 = 2 * (n \div 32) + ((n \div 16) % 2)
  OBVIOUS
<1>6. n \div 32 = 2 * (n \div 64) + ((n \div 32) % 2)
  OBVIOUS
<1>7. n \div 64 = 2 * (n \div 128) + ((n \div 64) % 2)
  OBVIOUS
<1>8. n \div 128 = (n \div 128) % 2
  OBVIOUS
<1>9. QED
  BY <1>1, <1>2, <1>3, <1>4, <1>5, <1>6, <1>7, <1>8

LEMMA BitsAre ==
  ASSUME NEW n \in 0..255
  PROVE  /\ 0 \in bits(n) <=> n % 2 = 1
         /\ 1 \in bits(n) <=> (n \div 2) % 2 = 1
         /\ 2 \in bits(n) <=> (n \div 4) % 2 = 1
         /\ 3 \in bits(n) <=> (n \div 8) % 2 = 1
         /\ 4 \in bits(n) <=> (n \div 16) % 2 = 1
         /\ 5 \in bits(n) <=> (n \div 32) % 2 = 1
         /\ 6 \in bits(n) <=> (n \div 64) % 2 = 1
         /\ 7 \in bits(n) <=> (n \div 128) % 2 = 1
<1>1. /\ PLACES[0 + 1] = 1 /\ PLACES[1 + 1] = 2 /\ PLACES[2 + 1] = 4 /\ PLACES[3 + 1] = 8
      /\ PLACES[4 + 1] = 16 /\ PLACES[5 + 1] = 32 /\ PLACES[6 + 1] = 64 /\ PLACES[7 + 1] = 128
  BY DEF PLACES
<1>2. \A i \in 0..7 : i \in bits(n) <=> (n \div PLACES[i + 1]) % 2 = 1
  BY DEF bits
<1>3. 0 \in bits(n) <=> n % 2 = 1
  <2>1. 0 \in bits(n) <=> (n \div PLACES[0 + 1]) % 2 = 1
    BY <1>2
  <2>2. n \div 1 = n
    OBVIOUS
  <2>3. QED
    BY <1>1, <2>1, <2>2
<1>4. 1 \in bits(n) <=> (n \div 2) % 2 = 1
  <2>1. 1 \in bits(n) <=> (n \div PLACES[1 + 1]) % 2 = 1
    BY <1>2
  <2>2. QED
    BY <1>1, <2>1
<1>5. 2 \in bits(n) <=> (n \div 4) % 2 = 1
  <2>1. 2 \in bits(n) <=> (n \div PLACES[2 + 1]) % 2 = 1
    BY <1>2
  <2>2. QED
    BY <1>1, <2>1
<1>6. 3 \in bits(n) <=> (n \div 8) % 2 = 1
  <2>1. 3 \in bits(n) <=> (n \div PLACES[3 + 1]) % 2 = 1
    BY <1>2
  <2>2. QED
    BY <1>1, <2>1
<1>7. 4 \in bits(n) <=> (n \div 16) % 2 = 1
  <2>1. 4 \in bits(n) <=> (n \div PLACES[4 + 1]) % 2 = 1
    BY <1>2
  <2>2. QED
    BY <1>1, <2>1
<1>8. 5 \in bits(n) <=> (n \div 32) % 2 = 1
  <2>1. 5 \in bits(n) <=> (n \div PLACES[5 + 1]) % 2 = 1
    BY <1>2
  <2>2. QED
    BY <1>1, <2>1
<1>9. 6 \in bits(n) <=> (n \div 64) % 2 = 1
  <2>1. 6 \in bits(n) <=> (n \div PLACES[6 + 1]) % 2 = 1
    BY <1>2
  <2>2. QED
    BY <1>1, <2>1
<1>10. 7 \in bits(n) <=> (n \div 128) % 2 = 1
  <2>1. 7 \in bits(n) <=> (n \div PLACES[7 + 1]) % 2 = 1
    BY <1>2
  <2>2. QED
    BY <1>1, <2>1
<1>11. QED
  BY <1>3, <1>4, <1>5, <1>6, <1>7, <1>8, <1>9, <1>10

LEMMA BitsTell ==
  ASSUME NEW m \in 0..255, NEW n \in 0..255, bits(m) = bits(n)
  PROVE  m = n
<1>1. /\ m % 2 = n % 2
      /\ (m \div 2) % 2 = (n \div 2) % 2
      /\ (m \div 4) % 2 = (n \div 4) % 2
      /\ (m \div 8) % 2 = (n \div 8) % 2
      /\ (m \div 16) % 2 = (n \div 16) % 2
      /\ (m \div 32) % 2 = (n \div 32) % 2
      /\ (m \div 64) % 2 = (n \div 64) % 2
      /\ (m \div 128) % 2 = (n \div 128) % 2
  <2>1. \A a, b \in Nat : (a % 2 = 1 <=> b % 2 = 1) => a % 2 = b % 2
    OBVIOUS
  <2>2. /\ m \div 2 \in Nat /\ n \div 2 \in Nat
        /\ m \div 4 \in Nat /\ n \div 4 \in Nat
        /\ m \div 8 \in Nat /\ n \div 8 \in Nat
        /\ m \div 16 \in Nat /\ n \div 16 \in Nat
        /\ m \div 32 \in Nat /\ n \div 32 \in Nat
        /\ m \div 64 \in Nat /\ n \div 64 \in Nat
        /\ m \div 128 \in Nat /\ n \div 128 \in Nat
    OBVIOUS
  <2>3. /\ m % 2 = 1 <=> n % 2 = 1
        /\ (m \div 2) % 2 = 1 <=> (n \div 2) % 2 = 1
        /\ (m \div 4) % 2 = 1 <=> (n \div 4) % 2 = 1
        /\ (m \div 8) % 2 = 1 <=> (n \div 8) % 2 = 1
        /\ (m \div 16) % 2 = 1 <=> (n \div 16) % 2 = 1
        /\ (m \div 32) % 2 = 1 <=> (n \div 32) % 2 = 1
        /\ (m \div 64) % 2 = 1 <=> (n \div 64) % 2 = 1
        /\ (m \div 128) % 2 = 1 <=> (n \div 128) % 2 = 1
    <3>1. PICK s : s = bits(m) /\ s = bits(n)
      OBVIOUS
    <3>2. /\ 0 \in s <=> m % 2 = 1
          /\ 1 \in s <=> (m \div 2) % 2 = 1
          /\ 2 \in s <=> (m \div 4) % 2 = 1
          /\ 3 \in s <=> (m \div 8) % 2 = 1
          /\ 4 \in s <=> (m \div 16) % 2 = 1
          /\ 5 \in s <=> (m \div 32) % 2 = 1
          /\ 6 \in s <=> (m \div 64) % 2 = 1
          /\ 7 \in s <=> (m \div 128) % 2 = 1
      BY <3>1, BitsAre
    <3>3. /\ 0 \in s <=> n % 2 = 1
          /\ 1 \in s <=> (n \div 2) % 2 = 1
          /\ 2 \in s <=> (n \div 4) % 2 = 1
          /\ 3 \in s <=> (n \div 8) % 2 = 1
          /\ 4 \in s <=> (n \div 16) % 2 = 1
          /\ 5 \in s <=> (n \div 32) % 2 = 1
          /\ 6 \in s <=> (n \div 64) % 2 = 1
          /\ 7 \in s <=> (n \div 128) % 2 = 1
      BY <3>1, BitsAre
    <3>4. QED
      BY <3>2, <3>3
  <2>4. QED
    BY <2>1, <2>2, <2>3
<1>2. /\ m = 2 * (m \div 2) + (m % 2)
      /\ m \div 2 = 2 * (m \div 4) + ((m \div 2) % 2)
      /\ m \div 4 = 2 * (m \div 8) + ((m \div 4) % 2)
      /\ m \div 8 = 2 * (m \div 16) + ((m \div 8) % 2)
      /\ m \div 16 = 2 * (m \div 32) + ((m \div 16) % 2)
      /\ m \div 32 = 2 * (m \div 64) + ((m \div 32) % 2)
      /\ m \div 64 = 2 * (m \div 128) + ((m \div 64) % 2)
      /\ m \div 128 = (m \div 128) % 2
  BY PlacesHalve
<1>3. /\ n = 2 * (n \div 2) + (n % 2)
      /\ n \div 2 = 2 * (n \div 4) + ((n \div 2) % 2)
      /\ n \div 4 = 2 * (n \div 8) + ((n \div 4) % 2)
      /\ n \div 8 = 2 * (n \div 16) + ((n \div 8) % 2)
      /\ n \div 16 = 2 * (n \div 32) + ((n \div 16) % 2)
      /\ n \div 32 = 2 * (n \div 64) + ((n \div 32) % 2)
      /\ n \div 64 = 2 * (n \div 128) + ((n \div 64) % 2)
      /\ n \div 128 = (n \div 128) % 2
  BY PlacesHalve
<1>4. m \div 128 = n \div 128
  BY <1>1, <1>2, <1>3
<1>5. m \div 64 = n \div 64
  BY <1>1, <1>2, <1>3, <1>4
<1>6. m \div 32 = n \div 32
  BY <1>1, <1>2, <1>3, <1>5
<1>7. m \div 16 = n \div 16
  BY <1>1, <1>2, <1>3, <1>6
<1>8. m \div 8 = n \div 8
  BY <1>1, <1>2, <1>3, <1>7
<1>9. m \div 4 = n \div 4
  BY <1>1, <1>2, <1>3, <1>8
<1>10. m \div 2 = n \div 2
  BY <1>1, <1>2, <1>3, <1>9
<1>11. QED
  BY <1>1, <1>2, <1>3, <1>10

LEMMA BitsOfShares ==
  ASSUME NEW n \in 1..MAX_SHARES
  PROVE  /\ bits(n) \in Byte
         /\ bits(n) # Zero
         /\ \A m \in 1..MAX_SHARES : bits(m) = bits(n) => m = n
<1>1. n \in 0..255 /\ n # 0 /\ 0 \in 0..255 /\ \A m \in 1..MAX_SHARES : m \in 0..255
  BY DEF MAX_SHARES
<1>2. bits(n) \in Byte
  BY DEF bits, Byte
<1>3. bits(0) = Zero
  <2>1. \A i \in 0..7 : (0 \div PLACES[i + 1]) % 2 # 1
    <3>1. \A i \in 0..7 : i = 0 \/ i = 1 \/ i = 2 \/ i = 3 \/ i = 4 \/ i = 5 \/ i = 6 \/ i = 7
      OBVIOUS
    <3>2. /\ 0 \notin bits(0) /\ 1 \notin bits(0) /\ 2 \notin bits(0) /\ 3 \notin bits(0)
          /\ 4 \notin bits(0) /\ 5 \notin bits(0) /\ 6 \notin bits(0) /\ 7 \notin bits(0)
      BY <1>1, BitsAre
    <3>3. \A i \in 0..7 : i \notin bits(0)
      BY <3>1, <3>2
    <3>4. QED
      BY <3>3 DEF bits
  <2>2. QED
    BY <2>1 DEF bits, Zero
<1>4. QED
  BY <1>1, <1>2, <1>3, BitsTell
---------------------------------------------------------------------------
(* Any k shares of one split restore its secret.                           *)

Dealt(secret, n, k, coeffs) ==
  /\ secret \in Seq(Byte) /\ n \in Nat /\ k \in Nat
  /\ Splittable(secret, n, k)
  /\ coeffs \in [DOMAIN secret -> [1..(k - 1) -> Byte]]

Quorate(shares_, papers, k) ==
  /\ shares_ \in Seq({shares_[i] : i \in DOMAIN shares_}) /\ Len(shares_) = k
  /\ \A i \in DOMAIN shares_ : \E m \in DOMAIN papers : shares_[i] = papers[m]
  /\ \A i, j \in DOMAIN shares_ : shares_[i].x = shares_[j].x => i = j

LEMMA CoeffsAre ==
  ASSUME NEW secret, NEW n, NEW k, NEW coeffs, Dealt(secret, n, k, coeffs), NEW pos \in DOMAIN secret
  PROVE  /\ Len(coeffs[pos]) = k - 1
         /\ \A d \in 1..(k - 1) : coeffs[pos][d] \in Byte
         /\ secret[pos] \in Byte
<1>1. k - 1 \in Nat
  BY DEF Dealt, Splittable
<1>2. coeffs[pos] \in [1..(k - 1) -> Byte]
  BY DEF Dealt
<1>3. PICK l \in Nat : l = k - 1
  BY <1>1
<1>4. coeffs[pos] \in Seq(Byte) /\ Len(coeffs[pos]) = l
  BY <1>2, <1>3
<1>5. secret[pos] \in Byte
  BY ElementOfSeq, LenProperties DEF Dealt
<1>6. QED
  BY <1>2, <1>3, <1>4, <1>5

LEMMA PaperIs ==
  ASSUME NEW secret, NEW n, NEW k, NEW coeffs, Dealt(secret, n, k, coeffs),
         NEW m \in DOMAIN split(secret, n, k, coeffs),
         NEW s, s = split(secret, n, k, coeffs)[m]
  PROVE  /\ m \in 1..MAX_SHARES /\ s.x = m /\ s.threshold = k /\ s.checksum = secret
         /\ DOMAIN s.y = DOMAIN secret /\ Len(s.y) = Len(secret)
         /\ \A pos \in DOMAIN secret : s.y[pos] = Horner(coeffs[pos], bits(m), secret[pos])
<1>1. m \in 1..n /\ n <= MAX_SHARES /\ n \in Nat
  BY DEF split, Dealt, Splittable
<1>2. /\ s.x = m /\ s.threshold = k /\ s.checksum = secret
      /\ s.y = [pos \in DOMAIN secret |-> Horner(coeffs[pos], bits(m), secret[pos])]
  BY DEF split, checksumOf
<1>3. m \in 1..MAX_SHARES
  BY <1>1 DEF MAX_SHARES
<1>4. ASSUME NEW pos \in DOMAIN secret
      PROVE  Horner(coeffs[pos], bits(m), secret[pos]) \in Byte
  <2>1. PICK c : c = coeffs[pos]
    OBVIOUS
  <2>2. PICK l \in Nat : l = Len(c)
    <3>1. k - 1 \in Nat
      BY DEF Dealt, Splittable
    <3>2. QED
      BY <2>1, <3>1, CoeffsAre
  <2>3. secret[pos] \in Byte /\ \A d \in 1..l : c[d] \in Byte
    BY <2>1, <2>2, CoeffsAre
  <2>4. bits(m) \in Byte
    BY <1>3, BitsOfShares
  <2>5. \A d \in 0..l : HornerTurns(c, bits(m))[d] \in Byte
    BY <2>2, <2>3, <2>4, HornerIs
  <2>6. HornerTurns(c, bits(m))[Len(c)] \in Byte
    BY <2>2, <2>5
  <2>7. QED
    BY <2>1, <2>3, <2>4, <2>6, MulByte, XorByte DEF Horner
<1>5. Len(s.y) = Len(secret)
  <2>1. PICK l \in Nat : l = Len(secret) /\ DOMAIN secret = 1..l
    BY LenProperties DEF Dealt
  <2>2. s.y \in [1..l -> Byte]
    BY <1>2, <1>4, <2>1
  <2>3. QED
    BY <2>1, <2>2
<1>6. QED
  BY <1>2, <1>3, <1>5

LEMMA InterpolateRestores ==
  ASSUME NEW secret, NEW n, NEW k, NEW coeffs, Dealt(secret, n, k, coeffs),
         NEW use, Quorate(use, split(secret, n, k, coeffs), k)
  PROVE  interpolate(use) = secret
<1>1. PICK papers : papers = split(secret, n, k, coeffs)
  OBVIOUS
<1>2. k \in Nat /\ 2 <= k
  BY DEF Dealt, Splittable
<1>3. DOMAIN use = 1..k /\ Len(use) = k
  BY <1>2, LenProperties DEF Quorate
<1>4. PICK num : num = [i \in 1..k |-> CHOOSE m \in DOMAIN papers : use[i] = papers[m]]
  OBVIOUS
<1>5. ASSUME NEW i \in 1..k
      PROVE  num[i] \in DOMAIN papers /\ use[i] = papers[num[i]]
  <2>1. \E m \in DOMAIN papers : use[i] = papers[m]
    BY <1>1, <1>3 DEF Quorate
  <2>2. QED
    BY <1>4, <2>1
<1>6. ASSUME NEW i \in 1..k
      PROVE  /\ num[i] \in 1..MAX_SHARES /\ use[i].x = num[i] /\ DOMAIN use[i].y = DOMAIN secret
             /\ \A pos \in DOMAIN secret : use[i].y[pos] = Horner(coeffs[pos], bits(num[i]), secret[pos])
  BY <1>1, <1>5, PaperIs
<1>7. PICK xs : xs = [i \in 1..k |-> bits(use[i].x)]
  OBVIOUS
<1>8. Numbers(xs, k)
  <2>1. ASSUME NEW i \in 1..k
        PROVE  xs[i] \in Byte /\ xs[i] # Zero /\ xs[i] = bits(num[i])
    BY <1>6, <1>7, BitsOfShares
  <2>2. ASSUME NEW i \in 1..k, NEW j \in 1..k, xs[i] = xs[j]
        PROVE  i = j
    <3>1. bits(num[i]) = bits(num[j]) /\ num[i] \in 1..MAX_SHARES /\ num[j] \in 1..MAX_SHARES
      BY <1>6, <2>1, <2>2
    <3>2. num[i] = num[j]
      BY <3>1, BitsOfShares
    <3>3. use[i].x = use[j].x
      BY <1>6, <3>2
    <3>4. QED
      BY <1>3, <3>3 DEF Quorate
  <2>3. xs \in [1..k -> Byte]
    BY <1>7, <2>1
  <2>4. QED
    BY <1>2, <2>1, <2>2, <2>3 DEF Numbers
<1>9. ASSUME NEW pos \in DOMAIN secret
      PROVE  XorTurns([i \in 1..k |-> mul(use[i].y[pos], Basis(xs, i))], k)[k] = secret[pos]
  <2>1. PICK c : c = coeffs[pos]
    OBVIOUS
  <2>2. PICK byte : byte = secret[pos]
    OBVIOUS
  <2>3. byte \in Byte /\ Len(c) = k - 1 /\ \A d \in 1..(k - 1) : c[d] \in Byte
    BY <2>1, <2>2, CoeffsAre
  <2>4. SumTo([i \in 1..k |-> mul(Horner(c, xs[i], byte), Basis(xs, i))], k) = byte
    BY <1>2, <1>8, <2>3, Interpolates
  <2>5. [i \in 1..k |-> mul(use[i].y[pos], Basis(xs, i))]
          = [i \in 1..k |-> mul(Horner(c, xs[i], byte), Basis(xs, i))]
    <3>1. \A i \in 1..k : use[i].y[pos] = Horner(c, xs[i], byte)
      BY <1>6, <1>7, <2>1, <2>2
    <3>2. QED
      BY <3>1
  <2>6. QED
    BY <2>2, <2>4, <2>5 DEF SumTo
<1>10. 1 \in 1..k
  BY <1>2
<1>11. interpolate(use) = [pos \in DOMAIN secret |->
         XorTurns([i \in 1..k |-> mul(use[i].y[pos], Basis(xs, i))], k)[k]]
  BY <1>3, <1>6, <1>7, <1>10 DEF interpolate
<1>12. interpolate(use) = [pos \in DOMAIN secret |-> secret[pos]]
  BY <1>9, <1>11
<1>13. secret = [pos \in DOMAIN secret |-> secret[pos]]
  BY DEF Dealt
<1>14. QED
  BY <1>12, <1>13

LEMMA CombineRestores ==
  ASSUME NEW secret, NEW n, NEW k, NEW coeffs, Dealt(secret, n, k, coeffs),
         NEW use, Quorate(use, split(secret, n, k, coeffs), k)
  PROVE  combine(use) = secret /\ secret # Error
<1>1. k \in Nat /\ 2 <= k /\ secret # Error
  BY DEF Dealt, Splittable, Error
<1>2. DOMAIN use = 1..k /\ Len(use) = k /\ 1 \in 1..k /\ use # <<>>
  BY <1>1, LenProperties, EmptySeq DEF Quorate
<1>3. ASSUME NEW i \in DOMAIN use
      PROVE  /\ use[i].x \in 1..MAX_SHARES /\ use[i].threshold = k
             /\ use[i].checksum = secret /\ Len(use[i].y) = Len(secret)
  <2>1. PICK m \in DOMAIN split(secret, n, k, coeffs) : use[i] = split(secret, n, k, coeffs)[m]
    BY DEF Quorate
  <2>2. QED
    BY <2>1, PaperIs
<1>4. OfOneSplit(use)
  BY <1>2, <1>3 DEF OfOneSplit
<1>5. DifferentX(use)
  BY DEF DifferentX, Quorate
<1>6. use[1].threshold = k /\ use[1].checksum = secret
  BY <1>2, <1>3
<1>7. SubSeq(use, 1, k) = use
  BY <1>1, <1>2, SubSeqFull DEF Quorate
<1>8. interpolate(use) = secret
  BY InterpolateRestores
<1>9. ChecksumRight(secret, secret)
  BY DEF ChecksumRight, checksumOf
<1>10. ~(Len(use) < use[1].threshold)
  BY <1>1, <1>2, <1>6
<1>11. QED
  BY <1>1, <1>2, <1>4, <1>5, <1>6, <1>7, <1>8, <1>9, <1>10 DEF combine
---------------------------------------------------------------------------
(* A quorum of shares                                                      *)

(* need reads the line that was accepted last.                             *)
LEMMA LastIsOne ==
  ASSUME NEW s, NEW n \in Nat, Sequence(s), Len(s) = n, n # 0
  PROVE  n \in DOMAIN s /\ need(s) = s[n].threshold
BY LenProperties DEF Sequence, need, Last

LEMMA QuorumOfOne ==
  ASSUME CeremonyInv, SplitsDealt, SharesApart, over => key = Restored(shares)
  PROVE  QuorumRestores
<1> SUFFICES ASSUME NEW i \in DOMAIN splits,
                    over, shares # <<>>, Len(shares) = splits[i][1].threshold,
                    \A j \in DOMAIN shares : shares[j] \in {splits[i][m] : m \in DOMAIN splits[i]},
                    public \in {None} \cup {rawPublicOf(k) : k \in
                      {k \in Keys : KeyText[k] = splits[i][1].checksum}}
             PROVE  key # Error
  BY DEF QuorumRestores
<1>1. PICK a \in Keys : \E shape \in Shapes :
               /\ Splittable(KeyText[a], shape[1], shape[2])
               /\ \E coeffs \in [DOMAIN KeyText[a] -> [1..(shape[2] - 1) -> Coeffs]] :
                    splits[i] = split(KeyText[a], shape[1], shape[2], coeffs)
  BY DEF SplitsDealt
<1>2. PICK shape \in Shapes :
               /\ Splittable(KeyText[a], shape[1], shape[2])
               /\ \E coeffs \in [DOMAIN KeyText[a] -> [1..(shape[2] - 1) -> Coeffs]] :
                    splits[i] = split(KeyText[a], shape[1], shape[2], coeffs)
  BY <1>1
<1>3. PICK coeffs \in [DOMAIN KeyText[a] -> [1..(shape[2] - 1) -> Coeffs]] :
               splits[i] = split(KeyText[a], shape[1], shape[2], coeffs)
  BY <1>2
<1>4. PICK n \in Nat : n = shape[1]
  BY SplitsAssumption
<1>5. PICK k \in Nat : k = shape[2]
  BY SplitsAssumption
<1>6. PICK secret : secret = KeyText[a]
  OBVIOUS
<1>7. PICK papers : papers = split(secret, n, k, coeffs)
  OBVIOUS
<1>8. splits[i] = papers
  BY <1>3, <1>4, <1>5, <1>6, <1>7
<1>9. Dealt(secret, n, k, coeffs)
  <2>1. coeffs \in [DOMAIN secret -> [1..(k - 1) -> Byte]]
    BY <1>3, <1>5, <1>6, BytesAssumption
  <2>2. secret \in Seq(Byte)
    BY <1>6, BytesAssumption
  <2>3. Splittable(secret, n, k)
    BY <1>2, <1>4, <1>5, <1>6
  <2>4. QED
    BY <2>1, <2>2, <2>3 DEF Dealt
<1>10. papers[1].threshold = k /\ papers[1].checksum = secret
  <2>1. 1 \in DOMAIN papers
    BY <1>7, <1>9 DEF Dealt, Splittable, split
  <2>2. QED
    BY <1>7, <1>9, <2>1, PaperIs
<1>11. Quorate(shares, papers, k)
  <2>1. Sequence(shares)
    BY DEF CeremonyInv, SharesSound
  <2>2. \A j \in DOMAIN shares : \E m \in DOMAIN papers : shares[j] = papers[m]
    BY <1>8
  <2>3. QED
    BY <1>8, <1>10, <2>1, <2>2 DEF Quorate, Sequence, SharesApart
<1>12. combine(shares) = secret /\ secret # Error
  BY <1>7, <1>9, <1>11, CombineRestores
<1>13. need(shares) = k
  <2>1. Len(shares) = k /\ k # 0 /\ Sequence(shares)
    BY <1>9, <1>11 DEF Quorate, Dealt, Splittable, CeremonyInv, SharesSound
  <2>2. k \in DOMAIN shares /\ need(shares) = shares[k].threshold
    BY <2>1, LastIsOne
  <2>3. PICK m \in DOMAIN papers : shares[k] = papers[m]
    BY <1>8, <2>2
  <2>4. QED
    BY <1>7, <1>9, <2>2, <2>3, PaperIs
<1>14. public # None => \E b \in Keys : KeyText[b] = secret /\ keyPairMatches(public, b)
  <2>1. ASSUME public # None
        PROVE  \E b \in Keys : KeyText[b] = splits[i][1].checksum /\ public = rawPublicOf(b)
    BY <2>1
  <2>2. QED
    BY <1>8, <1>10, <2>1 DEF keyPairMatches
<1>15. Len(shares) = k
  BY <1>8, <1>10
<1>16. ~(Len(shares) < need(shares))
  BY <1>13, <1>15
<1>17. Restored(shares) = secret
  BY <1>12, <1>14, <1>16 DEF Restored
<1>18. QED
  BY <1>12, <1>17

LEMMA QuorumStart == CeremonyInit => QuorumInv
<1> SUFFICES ASSUME CeremonyInit PROVE QuorumInv
  OBVIOUS
<1>1. CeremonyInv
  BY CeremonyStart
<1>2. splits = <<>> /\ shares = <<>> /\ ~over
  BY DEF CeremonyInit
<1>3. DOMAIN <<>> = {}
  BY EmptySeq, LenProperties
<1>4. SplitsDealt /\ SharesApart
  BY <1>2, <1>3 DEF SplitsDealt, SharesApart
<1>5. QED
  BY <1>1, <1>2, <1>4 DEF QuorumInv

LEMMA QuorumDeals ==
  ASSUME QuorumInv, NEW k \in Keys, NEW given, NEW shape \in Shapes, KeySplit(k, given, shape)
  PROVE  SplitsDealt' /\ SharesApart' /\ (over => key = Restored(shares))'
<1>1. /\ UNCHANGED <<public, shares, over, key>>
      /\ Splittable(KeyText[k], shape[1], shape[2])
      /\ \E coeffs \in [DOMAIN KeyText[k] -> [1..(shape[2] - 1) -> Coeffs]] :
           splits' = Append(splits, split(KeyText[k], shape[1], shape[2], coeffs))
  BY DEF KeySplit
<1>2. PICK coeffs \in [DOMAIN KeyText[k] -> [1..(shape[2] - 1) -> Coeffs]] :
        splits' = Append(splits, split(KeyText[k], shape[1], shape[2], coeffs))
  BY <1>1
<1>3. PICK papers : papers = split(KeyText[k], shape[1], shape[2], coeffs)
  OBVIOUS
<1>4. Sequence(splits)
  BY DEF QuorumInv, CeremonyInv, SplitsSound
<1>5. SplitsDealt'
  <2> SUFFICES ASSUME NEW i \in DOMAIN splits'
               PROVE  \E c \in Keys, s \in Shapes :
                        /\ Splittable(KeyText[c], s[1], s[2])
                        /\ \E f \in [DOMAIN KeyText[c] -> [1..(s[2] - 1) -> Coeffs]] :
                             splits'[i] = split(KeyText[c], s[1], s[2], f)
    BY DEF SplitsDealt
  <2>1. (i \in DOMAIN splits /\ splits'[i] = splits[i]) \/ splits'[i] = papers
    BY <1>2, <1>3, <1>4, Appended
  <2>2. CASE i \in DOMAIN splits /\ splits'[i] = splits[i]
    BY <2>2 DEF QuorumInv, SplitsDealt
  <2>3. CASE splits'[i] = papers
    BY <1>1, <1>2, <1>3, <2>3
  <2>4. QED
    BY <2>1, <2>2, <2>3
<1>6. SharesApart'
  BY <1>1 DEF QuorumInv, SharesApart
<1>7. (over => key = Restored(shares))'
  BY <1>1 DEF QuorumInv, Restored
<1>8. QED
  BY <1>5, <1>6, <1>7

LEMMA QuorumTypes ==
  ASSUME QuorumInv, NEW line, TypeLine(line)
  PROVE  SplitsDealt' /\ SharesApart' /\ (over => key = Restored(shares))'
<1>1. /\ Acceptable(line) /\ shares' = Append(shares, line)
      /\ key' = IF over' THEN Restored(shares') ELSE Error
      /\ splits' = splits /\ public' = public
  BY DEF TypeLine
<1>2. Sequence(shares)
  BY DEF QuorumInv, CeremonyInv, SharesSound
<1>3. PICK n \in Nat : DOMAIN shares = 1..n /\ Len(shares) = n
  BY <1>2, LenProperties DEF Sequence
<1>4. DOMAIN shares' = 1..(n + 1) /\ shares'[n + 1] = line /\ \A i \in 1..n : shares'[i] = shares[i]
  BY <1>1, <1>2, <1>3 DEF Sequence
<1>5. SharesApart'
  <2> SUFFICES ASSUME NEW i \in 1..(n + 1), NEW j \in 1..(n + 1), shares'[i].x = shares'[j].x
               PROVE  i = j
    BY <1>4 DEF SharesApart
  <2>1. \A m \in 1..n : shares[m].x # line.x
    BY <1>1, <1>3 DEF Acceptable
  <2>2. CASE i = n + 1 \/ j = n + 1
    BY <1>4, <2>1, <2>2
  <2>3. CASE i \in 1..n /\ j \in 1..n
    BY <1>3, <1>4, <2>3 DEF QuorumInv, SharesApart
  <2>4. QED
    BY <2>2, <2>3
<1>6. SplitsDealt'
  BY <1>1 DEF QuorumInv, SplitsDealt
<1>7. (over => key = Restored(shares))'
  BY <1>1 DEF Restored
<1>8. QED
  BY <1>5, <1>6, <1>7

LEMMA QuorumStep == QuorumInv /\ [CeremonyNext]_ceremonyVars => QuorumInv'
<1> SUFFICES ASSUME QuorumInv, [CeremonyNext]_ceremonyVars PROVE QuorumInv'
  OBVIOUS
<1>1. CeremonyInv'
  BY CeremonyStep DEF QuorumInv
<1>2. ASSUME UNCHANGED ceremonyVars
      PROVE  SplitsDealt' /\ SharesApart' /\ (over => key = Restored(shares))'
  <2>1. splits' = splits /\ shares' = shares /\ public' = public
    BY <1>2 DEF ceremonyVars
  <2>2. SplitsDealt' /\ SharesApart'
    <3>1. SplitsDealt'
      BY <2>1 DEF QuorumInv, SplitsDealt
    <3>2. SharesApart'
      BY <2>1 DEF QuorumInv, SharesApart
    <3>3. QED
      BY <3>1, <3>2
  <2>3. (over => key = Restored(shares))'
    BY <1>2, <2>1 DEF ceremonyVars, QuorumInv, Restored
  <2>4. QED
    BY <2>2, <2>3
<1>3. ASSUME EmptyLine
      PROVE  SplitsDealt' /\ SharesApart' /\ (over => key = Restored(shares))'
  <2>1. splits' = splits /\ shares' = shares /\ public' = public
    BY <1>3 DEF EmptyLine
  <2>2. SplitsDealt' /\ SharesApart'
    <3>1. SplitsDealt'
      BY <2>1 DEF QuorumInv, SplitsDealt
    <3>2. SharesApart'
      BY <2>1 DEF QuorumInv, SharesApart
    <3>3. QED
      BY <3>1, <3>2
  <2>3. (over => key = Restored(shares))'
    BY <1>3, <2>1 DEF EmptyLine, QuorumInv, Restored
  <2>4. QED
    BY <2>2, <2>3
<1>4. ASSUME NewSession
      PROVE  SplitsDealt' /\ SharesApart' /\ (over => key = Restored(shares))'
  <2>1. splits' = splits /\ shares' = <<>> /\ ~over'
    BY <1>4 DEF NewSession
  <2>2. SharesApart'
    <3>1. DOMAIN <<>> = {}
      BY EmptySeq, LenProperties
    <3>2. QED
      BY <2>1, <3>1 DEF SharesApart
  <2>3. QED
    BY <2>1, <2>2 DEF QuorumInv, SplitsDealt
<1>5. SplitsDealt' /\ SharesApart' /\ (over => key = Restored(shares))'
  <2>1. CASE \E k \in Keys, given \in {rawPublicOf(j) : j \in Keys} \cup {None}, shape \in Shapes :
               KeySplit(k, given, shape)
    BY <2>1, QuorumDeals
  <2>2. CASE \E line \in Lines : TypeLine(line)
    BY <2>2, QuorumTypes
  <2>3. CASE \E line \in Lines : LineRefused(line)
    BY <1>2, <2>3 DEF LineRefused
  <2>4. QED
    BY <1>2, <1>3, <1>4, <2>1, <2>2, <2>3 DEF CeremonyNext
<1>6. QED
  BY <1>1, <1>5 DEF QuorumInv

(* Whoever types as many shares of one split as it asks for gets the key   *)
(* back, whichever they are, in whatever order, with whatever was refused  *)
(* in between (combine, key-combine).                                      *)
THEOREM QuorumAlwaysRestores == CeremonySpec => []QuorumRestores
<1>1. QuorumInv => QuorumRestores
  BY QuorumOfOne DEF QuorumInv
<1>2. QED
  BY <1>1, QuorumStart, QuorumStep, PTL DEF CeremonySpec
===========================================================================
