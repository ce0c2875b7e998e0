--------------------------- MODULE SignIn_proofs ---------------------------
(***************************************************************************)
(* Signing in keeps its types, sends no more text messages than the limit  *)
(* and the races allow, sends receipts to the voter only, and serves a     *)
(* person for one row only: for any roster, any number of requests, any    *)
(* limits, whatever way of signing in is deployed.                         *)
(***************************************************************************)
EXTENDS SignIn, FiniteSetTheorems, TLAPS

(* The values a handler may have in its locals, by where it is.            *)
LEMMA SignInShape ==
  ASSUME NEW l \in Req
  PROVE  /\ l.pc \in {"otp.lock", "otp.store", "otp.text", "otp.token", "verify.session"}
              => l \in OtpReq
         /\ l.pc = "verify.compare" => l \in CompareReq
         /\ l.pc \in {"identity.match", "identity.ci", "identity.session"} => l \in IdentityReq
BY DEF Req, OtpReq, CompareReq, IdentityReq, Idle

LEMMA SignInIdle == Idle \in Req /\ Idle.pc = "idle"
BY DEF Req, Idle

(* Requests in flight, before and after one of them moves.                 *)
LEMMA InFlightFinite ==
  ASSUME NEW pc, NEW v
  PROVE  /\ IsFiniteSet(InFlight(pc, v))
         /\ Cardinality(InFlight(pc, v)) \in Nat
         /\ Cardinality(InFlight(pc, v)) <= Cardinality(Requests)
         /\ Cardinality(Requests) \in Nat
<1>1. InFlight(pc, v) \subseteq Requests
  BY DEF InFlight
<1>2. QED
  BY <1>1, RequestsAssumption, FS_Subset, FS_CardinalityType

LEMMA InFlightShrinks ==
  ASSUME NEW pc, NEW v, InFlight(pc, v)' \subseteq InFlight(pc, v)
  PROVE  /\ Cardinality(InFlight(pc, v)') \in Nat
         /\ Cardinality(InFlight(pc, v)') <= Cardinality(InFlight(pc, v))
BY InFlightFinite, FS_Subset, FS_CardinalityType

LEMMA InFlightLeaves ==
  ASSUME NEW pc, NEW v, NEW r \in InFlight(pc, v),
         InFlight(pc, v)' \subseteq InFlight(pc, v) \ {r}
  PROVE  /\ Cardinality(InFlight(pc, v)') \in Nat
         /\ Cardinality(InFlight(pc, v)') <= Cardinality(InFlight(pc, v)) - 1
<1>1. /\ IsFiniteSet(InFlight(pc, v) \ {r})
      /\ Cardinality(InFlight(pc, v) \ {r}) = Cardinality(InFlight(pc, v)) - 1
  BY InFlightFinite, FS_RemoveElement
<1>2. QED
  BY <1>1, FS_Subset, FS_CardinalityType

LEMMA InFlightJoins ==
  ASSUME NEW pc, NEW v, NEW r,
         InFlight(pc, v)' \subseteq InFlight(pc, v) \cup {r}
  PROVE  /\ Cardinality(InFlight(pc, v)') \in Nat
         /\ Cardinality(InFlight(pc, v)') <= Cardinality(InFlight(pc, v)) + 1
<1>1. /\ IsFiniteSet(InFlight(pc, v) \cup {r})
      /\ Cardinality(InFlight(pc, v) \cup {r}) <= Cardinality(InFlight(pc, v)) + 1
  BY InFlightFinite, FS_AddElement
<1>2. QED
  BY <1>1, InFlightFinite, FS_Subset, FS_CardinalityType

(* A request that does not come to pc leaves no more there than before.    *)
LEMMA NotJoining ==
  ASSUME NEW r \in Requests, NEW l, req \in [Requests -> Req],
         req' = [req EXCEPT ![r] = l], NEW pc, l.pc # pc, NEW v
  PROVE  InFlight(pc, v)' \subseteq InFlight(pc, v) \ {r}
BY DEF InFlight, At

LEMMA SendsKept ==
  ASSUME SignInInv, NEW r \in Requests, NEW l,
         req' = [req EXCEPT ![r] = l], l.pc \notin {"otp.store", "otp.text"},
         texted' = texted,
         \A v \in Voters : voter'[v].otpSentCount = voter[v].otpSentCount
  PROVE  SendsCounted'
<1> SUFFICES ASSUME NEW v \in Voters
             PROVE  /\ texted'[v] + Cardinality(InFlight("otp.text", v)')
                         <= voter'[v].otpSentCount
                    /\ voter'[v].otpSentCount + Cardinality(InFlight("otp.store", v)')
                         <= MAX_OTP_SENDS + Cardinality(Requests) - 1
  BY DEF SendsCounted
<1>1. req \in [Requests -> Req]
  BY DEF SignInInv, SignInTypeOK
<1>2. /\ InFlight("otp.text", v)' \subseteq InFlight("otp.text", v)
      /\ InFlight("otp.store", v)' \subseteq InFlight("otp.store", v)
  BY <1>1, NotJoining
<1>3. /\ Cardinality(InFlight("otp.text", v)') <= Cardinality(InFlight("otp.text", v))
      /\ Cardinality(InFlight("otp.store", v)') <= Cardinality(InFlight("otp.store", v))
      /\ Cardinality(InFlight("otp.text", v)') \in Nat
      /\ Cardinality(InFlight("otp.store", v)') \in Nat
  BY <1>2, InFlightShrinks
<1>4. texted[v] \in Nat /\ voter[v].otpSentCount \in Nat
  BY DEF SignInInv, SignInTypeOK, Row
<1>5. MAX_OTP_SENDS \in Nat /\ Cardinality(Requests) \in Nat
  BY LimitAssumption, InFlightFinite
<1>6. QED
  BY <1>3, <1>4, <1>5, InFlightFinite DEF SignInInv, SendsCounted
---------------------------------------------------------------------------
(* A step of r that leaves the CIs alone                                   *)
Tokens(s, c) ==
  /\ c \subseteq Token
  /\ \A d \in c : d.phone = d.sub
  /\ s \subseteq [voter : Voters, phone : Voters \cup {Null}, ci : CIs]
  /\ \A t \in s : t.phone \in {Null, t.voter} /\ Recorded(t.voter, t.ci)

LEMMA TokensSound == SignInInv => Tokens(session, challenge)
BY DEF SignInInv, SignInTypeOK, TokensOwn, ReceiptToVoter, SessionsRecorded, Tokens

LEMMA CisKept ==
  ASSUME SignInInv, \A v \in Voters : voter'[v].ciHash = voter[v].ciHash
  PROVE  /\ CiOfOwner' /\ CiUnique'
         /\ \A phone \in Voters, ci \in CIs : Recorded(phone, ci) => Recorded(phone, ci)'
BY DEF SignInInv, CiOfOwner, CiUnique, Recorded

(* Steps that keep or add CIs, with what that asks of them                 *)
LEMMA TokensKept ==
  ASSUME \A phone \in Voters, ci \in CIs : Recorded(phone, ci) => Recorded(phone, ci)',
         Tokens(session', challenge')
  PROVE  TokensOwn' /\ ReceiptToVoter' /\ SessionsRecorded'
<1>1. TokensOwn' /\ ReceiptToVoter'
  BY DEF TokensOwn, ReceiptToVoter, Tokens
<1>2. \A t \in session' : t.voter \in Voters /\ t.ci \in CIs
  BY DEF Tokens
<1>3. SessionsRecorded'
  BY <1>2 DEF Tokens, SessionsRecorded, Recorded
<1>4. QED
  BY <1>1, <1>3

LEMMA LocalsKept ==
  ASSUME \A phone \in Voters, ci \in CIs : Recorded(phone, ci) => Recorded(phone, ci)',
         NEW k \in Req, LocalSound(k)
  PROVE  /\ k.pc \in {"identity.ci", "identity.session"} => k.identity.owner
         /\ k.pc = "identity.session" =>
              (k.identity.ci # Null => voter'[k.identity.phone].ciHash = k.identity.ci)
<1>1. k.pc = "identity.session" => k.identity.phone \in Voters /\ k.identity.ci \in CIs
  BY SignInShape, IdentityAssumption DEF IdentityReq, CIs
<1>2. QED
  BY <1>1 DEF LocalSound, Recorded

LEMMA RecordingStep ==
  ASSUME SignInInv, NEW r \in Requests, NEW l \in Req,
         req' = [req EXCEPT ![r] = l],
         mode' = mode, tx' \in BOOLEAN,
         voter' \in [Voters -> Row], texted' \in [Voters -> Nat],
         \A phone \in Voters, ci \in CIs : Recorded(phone, ci) => Recorded(phone, ci)',
         CiOfOwner', CiUnique', Tokens(session', challenge'), SendsCounted',
         /\ l.pc \in {"identity.ci", "identity.session"} => l.identity.owner
         /\ l.pc = "identity.session" =>
              (l.identity.ci # Null => voter'[l.identity.phone].ciHash = l.identity.ci)
  PROVE  SignInInv'
<1>1. req \in [Requests -> Req] /\ req' \in [Requests -> Req]
  BY DEF SignInInv, SignInTypeOK
<1>2. SignInTypeOK'
  BY <1>1 DEF SignInInv, SignInTypeOK, Tokens, Token, CIs
<1>3. LocalsSound'
  <2>1. \A q \in Requests : req'[q] = l \/ (req'[q] = req[q] /\ req[q] \in Req)
    BY <1>1
  <2>2. \A q \in Requests : LocalSound(req[q])
    BY DEF SignInInv, LocalsSound
  <2>3. QED
    BY <2>1, <2>2, LocalsKept DEF LocalsSound, LocalSound, Recorded
<1>4. QED
  BY <1>2, <1>3, TokensKept DEF SignInInv

(* Steps of the handlers that leave the CIs alone                          *)
LEMMA HandlerStep ==
  ASSUME SignInInv, NEW r \in Requests, NEW l \in Req,
         req' = [req EXCEPT ![r] = l],
         mode' = mode, tx' \in BOOLEAN,
         voter' \in [Voters -> Row], texted' \in [Voters -> Nat],
         \A v \in Voters : voter'[v].ciHash = voter[v].ciHash,
         Tokens(session', challenge'), SendsCounted',
         LocalSound(l)
  PROVE  SignInInv'
BY CisKept, LocalsKept, RecordingStep

(* Steps of nobody's handler                                               *)
LEMMA OutsideStep ==
  ASSUME SignInInv, UNCHANGED <<mode, texted, challenge, session, req>>, tx' \in BOOLEAN,
         voter' \in [Voters -> Row],
         \A v \in Voters : /\ voter'[v].ciHash = voter[v].ciHash
                           /\ voter'[v].otpSentCount = voter[v].otpSentCount
  PROVE  SignInInv'
<1>1. SignInTypeOK'
  BY DEF SignInInv, SignInTypeOK
<1>2. SendsCounted'
  <2>1. \A v : /\ InFlight("otp.text", v)' = InFlight("otp.text", v)
               /\ InFlight("otp.store", v)' = InFlight("otp.store", v)
    BY DEF InFlight, At
  <2>2. QED
    BY <2>1 DEF SignInInv, SendsCounted
<1>3. /\ CiOfOwner' /\ CiUnique' /\ TokensOwn' /\ ReceiptToVoter' /\ SessionsRecorded'
  BY CisKept, TokensKept, TokensSound
<1>4. LocalsSound'
  <2>1. \A q \in Requests : req[q] \in Req /\ LocalSound(req[q])
    BY DEF SignInInv, SignInTypeOK, LocalsSound
  <2>2. QED
    BY <2>1, CisKept, LocalsKept DEF LocalsSound, LocalSound, Recorded
<1>5. QED
  BY <1>1, <1>2, <1>3, <1>4 DEF SignInInv
---------------------------------------------------------------------------
(* Requesting a code                                                       *)
LEMMA SendsNumbers ==
  /\ MAX_OTP_SENDS \in Nat \ {0}
  /\ Cardinality(Requests) \in Nat
  /\ \A r \in Requests : Cardinality(Requests) >= 1
<1>1. \A r \in Requests : Cardinality(Requests) >= 1
  BY RequestsAssumption, FS_EmptySet, FS_CardinalityType
<1>2. QED
  BY <1>1, LimitAssumption, InFlightFinite

LEMMA OtpReadPreserves ==
  ASSUME SignInInv, NEW r \in Requests, NEW v \in Voters, OtpRead(r, v)
  PROVE  SignInInv'
<1> DEFINE l == [pc |-> IF LimitReached(v) THEN "otp.lock" ELSE "otp.store", voter |-> v]
<1>1. /\ req \in [Requests -> Req] /\ voter \in [Voters -> Row] /\ texted \in [Voters -> Nat]
      /\ tx \in BOOLEAN
  BY DEF SignInInv, SignInTypeOK
<1>2. req' = [req EXCEPT ![r] = l] /\ l \in Req /\ LocalSound(l)
  BY DEF OtpRead, Goto, Req, OtpReq, LocalSound
<1>3. CASE LimitReached(v)
  <2>1. l.pc \notin {"otp.store", "otp.text"}
    BY <1>3
  <2>2. SendsCounted'
    BY <1>2, <2>1, SendsKept DEF OtpRead
  <2>3. QED
    BY <1>1, <1>2, <2>2, TokensSound, HandlerStep DEF OtpRead
<1>4. CASE ~LimitReached(v)
  <2>1. l.pc = "otp.store" /\ l.voter = v /\ Idle.pc = "idle" /\ req[r] = Idle
    BY <1>4 DEF OtpRead, Arriving, Idle
  <2>2. voter[v].otpSentCount <= MAX_OTP_SENDS - 1 /\ voter[v].otpSentCount \in Nat
    BY <1>1, <1>4, SendsNumbers DEF LimitReached, Row
  <2>3. SendsCounted'
    <3> SUFFICES ASSUME NEW w \in Voters
                 PROVE  /\ texted[w] + Cardinality(InFlight("otp.text", w)')
                             <= voter[w].otpSentCount
                        /\ voter[w].otpSentCount + Cardinality(InFlight("otp.store", w)')
                             <= MAX_OTP_SENDS + Cardinality(Requests) - 1
      BY DEF OtpRead, SendsCounted
    <3>1. texted[w] \in Nat /\ voter[w].otpSentCount \in Nat
      BY <1>1 DEF Row
    <3>2. InFlight("otp.text", w)' \subseteq InFlight("otp.text", w)
      BY <1>1, <1>2, <2>1, NotJoining
    <3>3. /\ Cardinality(InFlight("otp.text", w)') \in Nat
          /\ Cardinality(InFlight("otp.text", w)') <= Cardinality(InFlight("otp.text", w))
      BY <3>2, InFlightShrinks
    <3>4. CASE w = v
      <4>1. InFlight("otp.store", w)' \subseteq Requests /\ IsFiniteSet(Requests)
        BY RequestsAssumption DEF InFlight
      <4>2. /\ Cardinality(InFlight("otp.store", w)') <= Cardinality(Requests)
            /\ Cardinality(InFlight("otp.store", w)') \in Nat
        BY <4>1, FS_Subset, FS_CardinalityType
      <4>3. QED
        BY <3>1, <3>3, <3>4, <4>2, <2>2, SendsNumbers, InFlightFinite DEF SignInInv, SendsCounted
    <3>5. CASE w # v
      <4>1. InFlight("otp.store", w)' \subseteq InFlight("otp.store", w)
        BY <3>5, <1>1, <1>2, <2>1 DEF InFlight, At
      <4>2. /\ Cardinality(InFlight("otp.store", w)') \in Nat
            /\ Cardinality(InFlight("otp.store", w)') <= Cardinality(InFlight("otp.store", w))
        BY <4>1, InFlightShrinks
      <4>3. QED
        BY <3>1, <3>3, <4>2, SendsNumbers, InFlightFinite DEF SignInInv, SendsCounted
    <3>6. QED
      BY <3>4, <3>5
  <2>4. QED
    BY <1>1, <1>2, <2>3, TokensSound, HandlerStep DEF OtpRead
<1>5. QED
  BY <1>3, <1>4

LEMMA OtpLockPreserves ==
  ASSUME SignInInv, NEW r \in Requests, OtpLock(r)
  PROVE  SignInInv'
<1>1. /\ req \in [Requests -> Req] /\ voter \in [Voters -> Row] /\ texted \in [Voters -> Nat]
      /\ tx \in BOOLEAN
  BY DEF SignInInv, SignInTypeOK
<1>2. req[r].voter \in Voters
  BY <1>1, SignInShape DEF OtpLock, At, OtpReq
<1>3. /\ voter' \in [Voters -> Row]
      /\ \A w \in Voters : /\ voter'[w].ciHash = voter[w].ciHash
                            /\ voter'[w].otpSentCount = voter[w].otpSentCount
  BY <1>1, <1>2 DEF OtpLock, Row
<1>4. req' = [req EXCEPT ![r] = Idle] /\ LocalSound(Idle) /\ Idle.pc \notin {"otp.store", "otp.text"}
  BY DEF OtpLock, Goto, LocalSound, Idle
<1>5. SendsCounted'
  BY <1>3, <1>4, SendsKept DEF OtpLock
<1>6. QED
  BY <1>1, <1>3, <1>4, <1>5, SignInIdle, TokensSound, HandlerStep DEF OtpLock

LEMMA OtpStorePreserves ==
  ASSUME SignInInv, NEW r \in Requests, OtpStore(r)
  PROVE  SignInInv'
<1> DEFINE v == req[r].voter
           l == [pc |-> "otp.text", voter |-> v]
<1>1. /\ req \in [Requests -> Req] /\ voter \in [Voters -> Row] /\ texted \in [Voters -> Nat]
      /\ tx \in BOOLEAN
  BY DEF SignInInv, SignInTypeOK
<1>2. v \in Voters /\ r \in InFlight("otp.store", v)
  BY <1>1, SignInShape DEF OtpStore, At, OtpReq, InFlight
<1>3. /\ voter' \in [Voters -> Row]
      /\ \A w \in Voters : voter'[w].ciHash = voter[w].ciHash
      /\ \A w \in Voters \ {v} : voter'[w].otpSentCount = voter[w].otpSentCount
      /\ voter'[v].otpSentCount = voter[v].otpSentCount + 1
  BY <1>1, <1>2 DEF OtpStore, Row
<1>4. req' = [req EXCEPT ![r] = l] /\ l \in Req /\ LocalSound(l) /\ l.pc # "otp.store"
  BY <1>2 DEF OtpStore, Goto, LocalSound, Req, OtpReq
<1>5. SendsCounted'
  <2> SUFFICES ASSUME NEW w \in Voters
               PROVE  /\ texted[w] + Cardinality(InFlight("otp.text", w)')
                           <= voter'[w].otpSentCount
                      /\ voter'[w].otpSentCount + Cardinality(InFlight("otp.store", w)')
                           <= MAX_OTP_SENDS + Cardinality(Requests) - 1
    BY DEF OtpStore, SendsCounted
  <2>1. texted[w] \in Nat /\ voter[w].otpSentCount \in Nat
    BY <1>1 DEF Row
  <2>2. /\ texted[w] + Cardinality(InFlight("otp.text", w)) <= voter[w].otpSentCount
        /\ voter[w].otpSentCount + Cardinality(InFlight("otp.store", w))
             <= MAX_OTP_SENDS + Cardinality(Requests) - 1
    BY DEF SignInInv, SendsCounted
  <2>3. InFlight("otp.store", w)' \subseteq InFlight("otp.store", w) \ {r}
    BY <1>1, <1>4, NotJoining
  <2>4. CASE w = v
    <3>1. /\ Cardinality(InFlight("otp.store", w)') \in Nat
          /\ Cardinality(InFlight("otp.store", w)') <= Cardinality(InFlight("otp.store", w)) - 1
      BY <2>3, <2>4, <1>2, InFlightLeaves
    <3>2. InFlight("otp.text", w)' \subseteq InFlight("otp.text", w) \cup {r}
      BY <1>1, <1>4 DEF InFlight, At
    <3>3. /\ Cardinality(InFlight("otp.text", w)') \in Nat
          /\ Cardinality(InFlight("otp.text", w)') <= Cardinality(InFlight("otp.text", w)) + 1
      BY <3>2, InFlightJoins
    <3>4. voter'[w].otpSentCount = voter[w].otpSentCount + 1
      BY <1>3, <2>4
    <3>5. QED
      BY <2>1, <2>2, <3>1, <3>3, <3>4, SendsNumbers, InFlightFinite
  <2>5. CASE w # v
    <3>1. InFlight("otp.text", w)' \subseteq InFlight("otp.text", w)
      BY <2>5, <1>1, <1>4 DEF InFlight, At
    <3>2. /\ Cardinality(InFlight("otp.store", w)') \in Nat
          /\ Cardinality(InFlight("otp.store", w)') <= Cardinality(InFlight("otp.store", w))
          /\ Cardinality(InFlight("otp.text", w)') \in Nat
          /\ Cardinality(InFlight("otp.text", w)') <= Cardinality(InFlight("otp.text", w))
      BY <2>3, <3>1, InFlightShrinks
    <3>3. QED
      BY <2>1, <2>2, <2>5, <1>3, <3>2, SendsNumbers, InFlightFinite
  <2>6. QED
    BY <2>4, <2>5
<1>6. QED
  BY <1>1, <1>3, <1>4, <1>5, TokensSound, HandlerStep DEF OtpStore

LEMMA OtpTextPreserves ==
  ASSUME SignInInv, NEW r \in Requests, OtpText(r)
  PROVE  SignInInv'
<1> DEFINE v == req[r].voter
           l == [pc |-> "otp.token", voter |-> v]
<1>1. /\ req \in [Requests -> Req] /\ voter \in [Voters -> Row] /\ texted \in [Voters -> Nat]
      /\ tx \in BOOLEAN
  BY DEF SignInInv, SignInTypeOK
<1>2. v \in Voters /\ r \in InFlight("otp.text", v)
  BY <1>1, SignInShape DEF OtpText, At, OtpReq, InFlight
<1>3. /\ texted' \in [Voters -> Nat]
      /\ \A w \in Voters \ {v} : texted'[w] = texted[w]
      /\ texted'[v] = texted[v] + 1
  BY <1>1, <1>2 DEF OtpText
<1>4. /\ req' = [req EXCEPT ![r] = l] /\ l \in Req /\ LocalSound(l)
      /\ l.pc # "otp.store" /\ l.pc # "otp.text"
  BY <1>2 DEF OtpText, Goto, LocalSound, Req, OtpReq
<1>5. SendsCounted'
  <2> SUFFICES ASSUME NEW w \in Voters
               PROVE  /\ texted'[w] + Cardinality(InFlight("otp.text", w)')
                           <= voter[w].otpSentCount
                      /\ voter[w].otpSentCount + Cardinality(InFlight("otp.store", w)')
                           <= MAX_OTP_SENDS + Cardinality(Requests) - 1
    BY DEF OtpText, SendsCounted
  <2>1. texted[w] \in Nat /\ voter[w].otpSentCount \in Nat
    BY <1>1 DEF Row
  <2>2. /\ texted[w] + Cardinality(InFlight("otp.text", w)) <= voter[w].otpSentCount
        /\ voter[w].otpSentCount + Cardinality(InFlight("otp.store", w))
             <= MAX_OTP_SENDS + Cardinality(Requests) - 1
    BY DEF SignInInv, SendsCounted
  <2>3. /\ InFlight("otp.store", w)' \subseteq InFlight("otp.store", w)
        /\ InFlight("otp.text", w)' \subseteq InFlight("otp.text", w) \ {r}
    BY <1>1, <1>4, NotJoining
  <2>4. /\ Cardinality(InFlight("otp.store", w)') \in Nat
        /\ Cardinality(InFlight("otp.store", w)') <= Cardinality(InFlight("otp.store", w))
        /\ Cardinality(InFlight("otp.text", w)') \in Nat
        /\ Cardinality(InFlight("otp.text", w)') <= Cardinality(InFlight("otp.text", w))
    BY <2>3, InFlightShrinks
  <2>5. w = v => Cardinality(InFlight("otp.text", w)') <= Cardinality(InFlight("otp.text", w)) - 1
    BY <2>3, <1>2, InFlightLeaves
  <2>6. QED
    BY <1>3, <2>1, <2>2, <2>4, <2>5, SendsNumbers, InFlightFinite
<1>6. QED
  BY <1>1, <1>3, <1>4, <1>5, TokensSound, HandlerStep DEF OtpText

LEMMA OtpTokenPreserves ==
  ASSUME SignInInv, NEW r \in Requests, OtpToken(r)
  PROVE  SignInInv'
<1>1. /\ req \in [Requests -> Req] /\ voter \in [Voters -> Row] /\ texted \in [Voters -> Nat]
      /\ tx \in BOOLEAN
  BY DEF SignInInv, SignInTypeOK
<1>2. req[r].voter \in Voters
  BY <1>1, SignInShape DEF OtpToken, At, OtpReq
<1>3. Tokens(session', challenge')
  BY <1>2, TokensSound DEF OtpToken, Tokens, Token, Recorded
<1>4. req' = [req EXCEPT ![r] = Idle] /\ LocalSound(Idle) /\ Idle.pc \notin {"otp.store", "otp.text"}
  BY DEF OtpToken, Goto, LocalSound, Idle
<1>5. SendsCounted'
  BY <1>4, SendsKept DEF OtpToken
<1>6. QED
  BY <1>1, <1>3, <1>4, <1>5, SignInIdle, HandlerStep DEF OtpToken
---------------------------------------------------------------------------
(* Presenting a code                                                       *)
LEMMA VerifyReadPreserves ==
  ASSUME SignInInv, NEW r \in Requests, NEW v \in Voters, VerifyRead(r, v)
  PROVE  SignInInv'
<1> DEFINE l == [pc |-> "verify.compare", voter |-> v, otpAttempts |-> voter[v].otpAttempts]
<1>1. /\ req \in [Requests -> Req] /\ voter \in [Voters -> Row] /\ texted \in [Voters -> Nat]
      /\ tx \in BOOLEAN
  BY DEF SignInInv, SignInTypeOK
<1>2. voter[v].otpAttempts \in Nat
  BY <1>1 DEF Row
<1>3. /\ req' = [req EXCEPT ![r] = l] /\ l \in Req /\ LocalSound(l)
      /\ l.pc \notin {"otp.store", "otp.text"}
  BY <1>2 DEF VerifyRead, Goto, LocalSound, Req, CompareReq
<1>4. SendsCounted'
  BY <1>3, SendsKept DEF VerifyRead
<1>5. QED
  BY <1>1, <1>3, <1>4, TokensSound, HandlerStep DEF VerifyRead

LEMMA VerifyWrongPreserves ==
  ASSUME SignInInv, NEW r \in Requests, VerifyWrong(r)
  PROVE  SignInInv'
<1>1. /\ req \in [Requests -> Req] /\ voter \in [Voters -> Row] /\ texted \in [Voters -> Nat]
      /\ tx \in BOOLEAN
  BY DEF SignInInv, SignInTypeOK
<1>2. req[r].voter \in Voters /\ req[r].otpAttempts + 1 \in Nat
  BY <1>1, SignInShape DEF VerifyWrong, At, CompareReq
<1>3. (req[r].otpAttempts + 1 >= MAX_OTP_ATTEMPTS) \in BOOLEAN
  OBVIOUS
<1>4. /\ voter' \in [Voters -> Row]
      /\ \A w \in Voters : /\ voter'[w].ciHash = voter[w].ciHash
                            /\ voter'[w].otpSentCount = voter[w].otpSentCount
  BY <1>1, <1>2, <1>3 DEF VerifyWrong, Row
<1>5. req' = [req EXCEPT ![r] = Idle] /\ LocalSound(Idle) /\ Idle.pc \notin {"otp.store", "otp.text"}
  BY DEF VerifyWrong, Goto, LocalSound, Idle
<1>6. SendsCounted'
  BY <1>4, <1>5, SendsKept DEF VerifyWrong
<1>7. QED
  BY <1>1, <1>4, <1>5, <1>6, SignInIdle, TokensSound, HandlerStep DEF VerifyWrong

LEMMA VerifyRightPreserves ==
  ASSUME SignInInv, NEW r \in Requests, VerifyRight(r)
  PROVE  SignInInv'
<1> DEFINE l == [pc |-> "verify.session", voter |-> req[r].voter]
<1>1. /\ req \in [Requests -> Req] /\ voter \in [Voters -> Row] /\ texted \in [Voters -> Nat]
      /\ tx \in BOOLEAN
  BY DEF SignInInv, SignInTypeOK
<1>2. req[r].voter \in Voters
  BY <1>1, SignInShape DEF VerifyRight, At, CompareReq
<1>3. /\ voter' \in [Voters -> Row]
      /\ \A w \in Voters : /\ voter'[w].ciHash = voter[w].ciHash
                            /\ voter'[w].otpSentCount = voter[w].otpSentCount
  BY <1>1, <1>2 DEF VerifyRight, Row
<1>4. /\ req' = [req EXCEPT ![r] = l] /\ l \in Req /\ LocalSound(l)
      /\ l.pc \notin {"otp.store", "otp.text"}
  BY <1>2 DEF VerifyRight, Goto, LocalSound, Req, OtpReq
<1>5. SendsCounted'
  BY <1>3, <1>4, SendsKept DEF VerifyRight
<1>6. QED
  BY <1>1, <1>3, <1>4, <1>5, TokensSound, HandlerStep DEF VerifyRight

LEMMA VerifySessionPreserves ==
  ASSUME SignInInv, NEW r \in Requests, VerifySession(r)
  PROVE  SignInInv'
<1>1. /\ req \in [Requests -> Req] /\ voter \in [Voters -> Row] /\ texted \in [Voters -> Nat]
      /\ tx \in BOOLEAN
  BY DEF SignInInv, SignInTypeOK
<1>2. req[r].voter \in Voters
  BY <1>1, SignInShape DEF VerifySession, At, OtpReq
<1>3. PICK token \in challenge \cup {Null} : \E phone \in PhoneFrom(token, req[r].voter) :
        session' = session \cup {Session(req[r].voter, phone, Null)}
  BY DEF VerifySession
<1>4. PICK phone \in {Null, req[r].voter} :
        session' = session \cup {Session(req[r].voter, phone, Null)}
  BY <1>3, TokensSound DEF PhoneFrom, Tokens
<1>5. Session(req[r].voter, phone, Null) \in [voter : Voters, phone : Voters \cup {Null}, ci : CIs]
  BY <1>2, <1>4 DEF Session, CIs
<1>6. Tokens(session', challenge')
  BY <1>4, <1>5, TokensSound DEF VerifySession, Tokens, Session, Recorded
<1>7. req' = [req EXCEPT ![r] = Idle] /\ LocalSound(Idle) /\ Idle.pc \notin {"otp.store", "otp.text"}
  BY DEF VerifySession, Goto, LocalSound, Idle
<1>8. SendsCounted'
  BY <1>7, SendsKept DEF VerifySession
<1>9. QED
  BY <1>1, <1>6, <1>7, <1>8, SignInIdle, HandlerStep DEF VerifySession
---------------------------------------------------------------------------
(* Confirming an identity                                                  *)
LEMMA IdentityConfirmPreserves ==
  ASSUME SignInInv, NEW r \in Requests, NEW i \in Identities, IdentityConfirm(r, i)
  PROVE  SignInInv'
<1> DEFINE l == [pc |-> "identity.match", identity |-> i]
<1>1. voter \in [Voters -> Row] /\ texted \in [Voters -> Nat] /\ tx' \in BOOLEAN
  BY DEF SignInInv, SignInTypeOK, IdentityConfirm
<1>2. /\ req' = [req EXCEPT ![r] = l] /\ l \in Req /\ LocalSound(l)
      /\ l.pc \notin {"otp.store", "otp.text"}
  BY DEF IdentityConfirm, Goto, LocalSound, Req, IdentityReq
<1>3. SendsCounted'
  BY <1>2, SendsKept DEF IdentityConfirm
<1>4. QED
  BY <1>1, <1>2, <1>3, TokensSound, HandlerStep DEF IdentityConfirm

LEMMA IdentityMatchPreserves ==
  ASSUME SignInInv, NEW r \in Requests, IdentityMatch(r)
  PROVE  SignInInv'
<1> DEFINE i == req[r].identity
           l == IF i.owner /\ ~voter[i.phone].hasVoted
                THEN [pc |-> "identity.ci", identity |-> i] ELSE Idle
<1>1. /\ voter \in [Voters -> Row] /\ texted \in [Voters -> Nat] /\ tx \in BOOLEAN
      /\ req \in [Requests -> Req]
  BY DEF SignInInv, SignInTypeOK
<1>2. i \in Identities
  BY <1>1, SignInShape DEF IdentityMatch, At, IdentityReq
<1>3. /\ req' = [req EXCEPT ![r] = l] /\ l \in Req /\ LocalSound(l)
      /\ l.pc \notin {"otp.store", "otp.text"}
  BY <1>2 DEF IdentityMatch, Goto, LocalSound, Req, IdentityReq, Idle
<1>4. SendsCounted'
  BY <1>3, SendsKept DEF IdentityMatch
<1>5. QED
  BY <1>1, <1>3, <1>4, TokensSound, HandlerStep DEF IdentityMatch

(* All identities of the owner of a row carry the CI that is recorded, so  *)
(* recording it again changes nothing.                                     *)
LEMMA IdentityRecordPreserves ==
  ASSUME SignInInv, NEW r \in Requests, IdentityRecord(r)
  PROVE  SignInInv'
<1> DEFINE i == req[r].identity
<1>1. /\ voter \in [Voters -> Row] /\ texted \in [Voters -> Nat] /\ tx \in BOOLEAN
      /\ req \in [Requests -> Req]
  BY DEF SignInInv, SignInTypeOK
<1>2. i \in Identities /\ i.owner /\ i.phone \in Voters /\ i.ci \in CIs
  BY <1>1, SignInShape, IdentityAssumption
  DEF IdentityRecord, At, IdentityReq, SignInInv, LocalsSound, LocalSound, CIs
<1>3. CASE CiFree(i.ci, i.phone)
  <2> DEFINE l == [pc |-> "identity.session", identity |-> i]
  <2>1. /\ voter' = [voter EXCEPT ![i.phone].ciHash = IF i.ci = Null THEN @ ELSE i.ci]
        /\ req' = [req EXCEPT ![r] = l]
    BY <1>3 DEF IdentityRecord, Goto
  <2>2. l \in Req /\ l.pc \notin {"otp.store", "otp.text"}
    BY <1>2 DEF Req, IdentityReq
  <2>3. /\ voter' \in [Voters -> Row]
        /\ \A v \in Voters : voter'[v].otpSentCount = voter[v].otpSentCount
        /\ \A v \in Voters \ {i.phone} : voter'[v].ciHash = voter[v].ciHash
        /\ voter'[i.phone].ciHash = IF i.ci = Null THEN voter[i.phone].ciHash ELSE i.ci
    BY <1>1, <1>2, <2>1 DEF Row
  <2>4. voter[i.phone].ciHash # Null /\ i.ci # Null => i.ci = voter[i.phone].ciHash
    BY <1>2, IdentityAssumption DEF SignInInv, CiOfOwner
  <2>5. \A phone \in Voters, ci \in CIs : Recorded(phone, ci) => Recorded(phone, ci)'
    BY <2>3, <2>4 DEF Recorded
  <2>6. CiOfOwner'
    BY <1>2, <2>3 DEF SignInInv, CiOfOwner
  <2>7. CiUnique'
    BY <1>2, <1>3, <2>3 DEF SignInInv, CiUnique, CiFree
  <2>8. SendsCounted'
    BY <2>1, <2>2, <2>3, SendsKept DEF IdentityRecord
  <2>9. /\ l.pc = "identity.session" /\ l.identity = i
        /\ i.ci # Null => voter'[i.phone].ciHash = i.ci
    BY <2>3
  <2>10. /\ mode' = mode /\ texted' = texted /\ tx' = tx
         /\ Tokens(session', challenge')
    BY TokensSound DEF IdentityRecord
  <2>11. /\ l.pc \in {"identity.ci", "identity.session"} => l.identity.owner
         /\ l.pc = "identity.session" =>
              (l.identity.ci # Null => voter'[l.identity.phone].ciHash = l.identity.ci)
    BY <1>2, <2>9
  <2> HIDE DEF l
  <2>12. QED
    BY <1>1, <2>1, <2>2, <2>3, <2>5, <2>6, <2>7, <2>8, <2>10, <2>11, RecordingStep
<1>4. CASE ~CiFree(i.ci, i.phone)
  <2>1. voter' = voter /\ req' = [req EXCEPT ![r] = Idle]
    BY <1>4 DEF IdentityRecord, Goto
  <2>2. LocalSound(Idle) /\ Idle.pc \notin {"otp.store", "otp.text"}
    BY DEF LocalSound, Idle
  <2>3. SendsCounted'
    BY <2>1, <2>2, SendsKept DEF IdentityRecord
  <2>4. QED
    BY <1>1, <2>1, <2>2, <2>3, SignInIdle, TokensSound, HandlerStep DEF IdentityRecord
<1>5. QED
  BY <1>3, <1>4

LEMMA IdentitySessionPreserves ==
  ASSUME SignInInv, NEW r \in Requests, IdentitySession(r)
  PROVE  SignInInv'
<1> DEFINE i == req[r].identity
<1>1. /\ voter \in [Voters -> Row] /\ texted \in [Voters -> Nat] /\ tx \in BOOLEAN
      /\ req \in [Requests -> Req]
  BY DEF SignInInv, SignInTypeOK
<1>2. i \in Identities /\ i.phone \in Voters /\ i.ci \in CIs /\ Recorded(i.phone, i.ci)
  BY <1>1, SignInShape, IdentityAssumption
  DEF IdentitySession, At, IdentityReq, SignInInv, LocalsSound, LocalSound, CIs
<1>3. Tokens(session', challenge')
  BY <1>2, TokensSound DEF IdentitySession, Tokens, Session
<1>4. req' = [req EXCEPT ![r] = Idle] /\ LocalSound(Idle) /\ Idle.pc \notin {"otp.store", "otp.text"}
  BY DEF IdentitySession, Goto, LocalSound, Idle
<1>5. SendsCounted'
  BY <1>4, SendsKept DEF IdentitySession
<1>6. QED
  BY <1>1, <1>3, <1>4, <1>5, SignInIdle, HandlerStep DEF IdentitySession

LEMMA SignInCrashPreserves ==
  ASSUME SignInInv, NEW r \in Requests, Crash(r)
  PROVE  SignInInv'
<1>1. voter \in [Voters -> Row] /\ texted \in [Voters -> Nat] /\ tx \in BOOLEAN
  BY DEF SignInInv, SignInTypeOK
<1>2. req' = [req EXCEPT ![r] = Idle] /\ LocalSound(Idle) /\ Idle.pc \notin {"otp.store", "otp.text"}
  BY DEF Crash, Goto, LocalSound, Idle
<1>3. SendsCounted'
  BY <1>2, SendsKept DEF Crash
<1>4. QED
  BY <1>1, <1>2, <1>3, SignInIdle, TokensSound, HandlerStep DEF Crash
---------------------------------------------------------------------------
LEMMA SignInInvInit == Init => SignInInv
<1> SUFFICES ASSUME Init PROVE SignInInv
  OBVIOUS
<1>1. SignInTypeOK
  BY SignInIdle DEF Init, SignInTypeOK, Row, CIs
<1>2. SendsCounted
  <2>1. \A v : InFlight("otp.text", v) = {} /\ InFlight("otp.store", v) = {}
    BY DEF Init, InFlight, At, Idle
  <2>2. QED
    BY <2>1, FS_EmptySet, SendsNumbers DEF Init, SendsCounted
<1>3. /\ TokensOwn /\ ReceiptToVoter /\ CiOfOwner /\ CiUnique /\ LocalsSound
      /\ SessionsRecorded
  BY DEF Init, TokensOwn, ReceiptToVoter, CiOfOwner, CiUnique, LocalsSound, LocalSound,
         SessionsRecorded, Idle
<1>4. QED
  BY <1>1, <1>2, <1>3 DEF SignInInv

LEMMA SignInInvNext == SignInInv /\ [Next]_vars => SignInInv'
<1> SUFFICES ASSUME SignInInv, [Next]_vars PROVE SignInInv'
  OBVIOUS
<1>1. voter \in [Voters -> Row] /\ tx \in BOOLEAN
  BY DEF SignInInv, SignInTypeOK
<1>2. CASE IdentityBegin
  BY <1>1, <1>2, OutsideStep DEF IdentityBegin
<1>3. ASSUME NEW s \in session, Claim(s) PROVE SignInInv'
  <2>1. s.voter \in Voters
    BY DEF SignInInv, SignInTypeOK
  <2>2. /\ voter' \in [Voters -> Row]
        /\ \A v \in Voters : /\ voter'[v].ciHash = voter[v].ciHash
                              /\ voter'[v].otpSentCount = voter[v].otpSentCount
    BY <1>1, <1>3, <2>1 DEF Claim, Row
  <2>3. QED
    BY <1>1, <1>3, <2>2, OutsideStep DEF Claim
<1>4. ASSUME NEW v \in Voters, CodeExpires(v) \/ LockExpires(v) PROVE SignInInv'
  <2>1. CASE CodeExpires(v)
    <3>1. /\ voter' \in [Voters -> Row]
          /\ \A w \in Voters : /\ voter'[w].ciHash = voter[w].ciHash
                                /\ voter'[w].otpSentCount = voter[w].otpSentCount
      BY <1>1, <2>1 DEF CodeExpires, Row
    <3>2. QED
      BY <1>1, <2>1, <3>1, OutsideStep DEF CodeExpires
  <2>2. CASE LockExpires(v)
    <3>1. /\ voter' \in [Voters -> Row]
          /\ \A w \in Voters : /\ voter'[w].ciHash = voter[w].ciHash
                                /\ voter'[w].otpSentCount = voter[w].otpSentCount
      BY <1>1, <2>2 DEF LockExpires, Row
    <3>2. QED
      BY <1>1, <2>2, <3>1, OutsideStep DEF LockExpires
  <2>3. QED
    BY <1>4, <2>1, <2>2
<1>5. ASSUME NEW r \in Requests, NEW v \in Voters, OtpRead(r, v) \/ VerifyRead(r, v)
      PROVE  SignInInv'
  BY <1>5, OtpReadPreserves, VerifyReadPreserves
<1>6. ASSUME NEW r \in Requests, NEW i \in Identities, IdentityConfirm(r, i)
      PROVE  SignInInv'
  BY <1>6, IdentityConfirmPreserves
<1>7. ASSUME NEW r \in Requests, OtpLock(r) \/ OtpStore(r) \/ OtpText(r) \/ OtpToken(r)
      PROVE  SignInInv'
  BY <1>7, OtpLockPreserves, OtpStorePreserves, OtpTextPreserves, OtpTokenPreserves
<1>8. ASSUME NEW r \in Requests, VerifyWrong(r) \/ VerifyRight(r) \/ VerifySession(r)
      PROVE  SignInInv'
  BY <1>8, VerifyWrongPreserves, VerifyRightPreserves, VerifySessionPreserves
<1>9. ASSUME NEW r \in Requests,
             IdentityMatch(r) \/ IdentityRecord(r) \/ IdentitySession(r) \/ Crash(r)
      PROVE  SignInInv'
  BY <1>9, IdentityMatchPreserves, IdentityRecordPreserves, IdentitySessionPreserves,
     SignInCrashPreserves
<1>10. CASE UNCHANGED vars
  BY <1>1, <1>10, OutsideStep DEF vars
<1>11. QED
  BY <1>2, <1>3, <1>4, <1>5, <1>6, <1>7, <1>8, <1>9, <1>10 DEF Next

LEMMA SignInInvariant == Spec => []SignInInv
BY SignInInvInit, SignInInvNext, PTL DEF Spec

(* The rows of the roster, the tokens and the locals of every handler keep *)
(* their types (AuthService, IdentityService).                             *)
THEOREM SignInTypeCorrect == Spec => []SignInTypeOK
<1>1. SignInInv => SignInTypeOK
  BY DEF SignInInv
<1>2. QED
  BY <1>1, SignInInvariant, PTL

(* A voter is sent at most MAX_OTP_SENDS text messages, plus one for every *)
(* other request that was past the check at the same time (requestOtp).    *)
THEOREM TextsStayBounded == Spec => []TextsBounded
<1>1. ASSUME SignInInv PROVE TextsBounded
  <2> SUFFICES ASSUME NEW v \in Voters
               PROVE  texted[v] <= MAX_OTP_SENDS + Cardinality(Requests) - 1
    BY DEF TextsBounded
  <2>1. texted[v] \in Nat /\ voter[v].otpSentCount \in Nat
    BY <1>1 DEF SignInInv, SignInTypeOK, Row
  <2>2. QED
    BY <1>1, <2>1, SendsNumbers, InFlightFinite DEF SignInInv, SendsCounted
<1>2. QED
  BY <1>1, SignInInvariant, PTL

(* No mixture of challenge tokens makes the receipt of a vote go to the    *)
(* phone of another voter (verifyOtp, castBallot).                         *)
THEOREM ReceiptsStayWithVoter == Spec => []ReceiptToVoter
<1>1. SignInInv => ReceiptToVoter
  BY DEF SignInInv
<1>2. QED
  BY <1>1, SignInInvariant, PTL

(* Sessions that the identity service gave to one person are for one row   *)
(* of the roster (IdentityService.complete and the index on ciHash).       *)
THEOREM PersonsStayOneRow == Spec => []OneRowPerPerson
<1>1. ASSUME SignInInv PROVE OneRowPerPerson
  BY <1>1 DEF SignInInv, SignInTypeOK, SessionsRecorded, Recorded, CiUnique, OneRowPerPerson
<1>2. QED
  BY <1>1, SignInInvariant, PTL
===========================================================================
