---------------------------- MODULE KeyCeremony ----------------------------
(***************************************************************************)
(* How a tally key is kept (scripts/key-split) and comes back on the day   *)
(* of the tally (scripts/key-combine): it is split, perhaps more than once, *)
(* the shares are written down, and commissioners type them in any order,  *)
(* with slips of the pen, lines of other splits and rubbish in between.    *)
(* A session that failed is started again.  The key then opens the ballots. *)
(***************************************************************************)
EXTENDS Shamir, BallotSeal

CONSTANTS
  Keys,       \* private keys of elections
  KeyText,    \* their texts, as sequences of bytes
  Coeffs,     \* bytes that randomBytes may return
  Shapes,     \* the <<n, k>> that are asked for
  MaxSplits   \* bound: how often key-split is run

ASSUME KeysAssumption ==
  /\ DOMAIN KeyText = Keys
  /\ \A a, b \in Keys : KeyText[a] = KeyText[b] => a = b
ASSUME BytesAssumption == Coeffs \subseteq Byte /\ \A k \in Keys : KeyText[k] \in Seq(Byte)
ASSUME UuidsAssumption == "no uuid" \notin Uuids
ASSUME SplitsAssumption == MaxSplits \in Nat /\ \A s \in Shapes : s \in (Nat \X Nat)

VARIABLES
  splits,   \* what key-split printed, one entry per run
  public,   \* the --public-key of this session, or None
  shares,   \* the lines key-combine has accepted
  over,     \* whether the session has ended, and
  key       \* what it printed, or Error

ceremonyVars == <<splits, public, shares, over, key>>

None == <<"no public key">>

CeremonyInit ==
  /\ splits = <<>> /\ public \in {rawPublicOf(k) : k \in Keys} \cup {None}
  /\ shares = <<>> /\ over = FALSE /\ key = Error
---------------------------------------------------------------------------
(* key-split: a pasted key, compared with the public key if there is one   *)
Pasted(k, given) == given # None => keyPairMatches(given, k)

KeySplit(k, given, shape) ==
  /\ Len(splits) < MaxSplits
  /\ Pasted(k, given)
  /\ Splittable(KeyText[k], shape[1], shape[2])
  /\ \E coeffs \in [DOMAIN KeyText[k] -> [1..(shape[2] - 1) -> Coeffs]] :
       splits' = Append(splits, split(KeyText[k], shape[1], shape[2], coeffs))
  /\ UNCHANGED <<public, shares, over, key>>

(* What somebody may type: a share, one with a slip, or no share at all.   *)
Papers == UNION {{splits[i][j] : j \in DOMAIN splits[i]} : i \in DOMAIN splits}
Slips(s) == {[s EXCEPT !.y[1] = @ ^^ One], [s EXCEPT !.x = @ + 1],
             [s EXCEPT !.threshold = @ + 1]}
Rubbish  == [x |-> 0]
Lines    == Papers \cup (UNION {Slips(s) : s \in Papers}) \cup {Rubbish}
---------------------------------------------------------------------------
(* key-combine *)

(* need: the threshold of the line accepted last                           *)
need(accepted) == Last(accepted).threshold

Acceptable(line) ==
  /\ Decodes(line)
  /\ \A i \in DOMAIN shares : shares[i].x # line.x
  /\ shares # <<>> => line.checksum = shares[1].checksum

(* The end of a session: the restored key, unless it is not the one of the *)
(* given public key.                                                       *)
Restored(accepted) ==
  IF accepted = <<>> \/ Len(accepted) < need(accepted) THEN Error
  ELSE LET text == combine(accepted) IN
       IF \/ text = Error
          \/ public # None /\ ~\E k \in Keys : KeyText[k] = text /\ keyPairMatches(public, k)
       THEN Error ELSE text

TypeLine(line) ==
  /\ ~over
  /\ Acceptable(line)
  /\ shares' = Append(shares, line)
  /\ over' = (Len(shares') >= need(shares'))
  /\ key' = IF over' THEN Restored(shares') ELSE Error
  /\ UNCHANGED <<splits, public>>

(* A line that is not accepted is reported and asked for again.            *)
LineRefused(line) == ~over /\ ~Acceptable(line) /\ UNCHANGED ceremonyVars

EmptyLine ==
  /\ ~over
  /\ over' = TRUE /\ key' = Restored(shares)
  /\ UNCHANGED <<splits, public, shares>>

NewSession ==
  /\ over
  /\ shares' = <<>> /\ over' = FALSE /\ key' = Error
  /\ UNCHANGED <<splits, public>>

CeremonyNext ==
  \/ \E k \in Keys, given \in {rawPublicOf(j) : j \in Keys} \cup {None}, shape \in Shapes :
       KeySplit(k, given, shape)
  \/ \E line \in Lines : TypeLine(line) \/ LineRefused(line)
  \/ EmptyLine \/ NewSession

CeremonySpec == CeremonyInit /\ [][CeremonyNext]_ceremonyVars
---------------------------------------------------------------------------
(* Properties                                                              *)

(* A session never prints a wrong key: what comes out was split before, is *)
(* the one for the given public key, whatever slips, mixed splits and      *)
(* coincidences of thresholds went in (combine, key-combine).              *)
KeyNeverGarbled ==
  key # Error =>
    \E k \in Keys : /\ KeyText[k] = key
                    /\ public \in {rawPublicOf(k), None}
                    /\ \E i \in DOMAIN splits : splits[i][1].checksum = key

(* k shares of one split always restore, in any order and any choice, and  *)
(* whatever was typed in between and refused.                              *)
QuorumRestores ==
  \A i \in DOMAIN splits :
    /\ over /\ shares # <<>> /\ Len(shares) = splits[i][1].threshold
    /\ \A j \in DOMAIN shares : shares[j] \in {splits[i][m] : m \in DOMAIN splits[i]}
    /\ public \in {None} \cup {rawPublicOf(k) : k \in {k \in Keys : KeyText[k] = splits[i][1].checksum}}
    => key # Error

(* With a restored key each ballot opens to what the browser sealed; one   *)
(* that was altered, moved from another election or holds no candidate     *)
(* throws: damage is never read as an abstention.                          *)
Edited(sealed) ==
  {[sealed EXCEPT !.length = @ - 1], [sealed EXCEPT !.nonce = @ + 1],
   [sealed EXCEPT !.ephemeral = rawPublicOf("twice")], [sealed EXCEPT !.body.nonce = @ + 1]}

OpensAsSealed ==
  key # Error =>
    \A k \in {k \in Keys : KeyText[k] = key}, choice \in Uuids \cup {Abstain} :
      LET pair   == generateElectionKeyPair(k)
          Open(sealed) == openBallot(k, pair.publicKey, sealed)
          sealed == sealBallot(pair.publicKey, choice, "once", 0)
      IN /\ Open(sealed) = choice
         /\ \A other \in Edited(sealed) : Open(other) = Throws
         /\ \A j \in Keys \ {k} : Open(sealBallot(rawPublicOf(j), choice, "once", 0)) = Throws
         /\ \A plain \in {[flag |-> 2, uuid |-> choice], [flag |-> 1, uuid |-> "no uuid"]} :
              Open(SealPlain(pair.publicKey, plain, "once", 0)) = Throws
---------------------------------------------------------------------------
(* The inductive invariant behind KeyNeverGarbled: whatever was accepted   *)
(* carries the checksum of a key that was split.                           *)
ShareFields == {"x", "threshold", "checksum", "y"}

Sequence(s) == s \in Seq({s[i] : i \in DOMAIN s})

SplitsSound ==
  /\ Sequence(splits)
  /\ \A i \in DOMAIN splits :
       /\ 1 \in DOMAIN splits[i]
       /\ \A j \in DOMAIN splits[i] : DOMAIN splits[i][j] = ShareFields
       /\ \E k \in Keys : \A j \in DOMAIN splits[i] : splits[i][j].checksum = KeyText[k]

SharesSound ==
  /\ Sequence(shares)
  /\ \A j \in DOMAIN shares : \E i \in DOMAIN splits : shares[j].checksum = splits[i][1].checksum

CeremonyInv == SplitsSound /\ SharesSound /\ KeyNeverGarbled

(* And the one behind QuorumRestores: the papers are points of polynomials *)
(* through the bytes of a key, no number was accepted twice, and what came *)
(* out was made from what was accepted.                                    *)
SplitsDealt ==
  \A i \in DOMAIN splits :
    \E k \in Keys, shape \in Shapes :
      /\ Splittable(KeyText[k], shape[1], shape[2])
      /\ \E coeffs \in [DOMAIN KeyText[k] -> [1..(shape[2] - 1) -> Coeffs]] :
           splits[i] = split(KeyText[k], shape[1], shape[2], coeffs)

SharesApart == \A i, j \in DOMAIN shares : shares[i].x = shares[j].x => i = j

QuorumInv == CeremonyInv /\ SplitsDealt /\ SharesApart /\ (over => key = Restored(shares))
===========================================================================
