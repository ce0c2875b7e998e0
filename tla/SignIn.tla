------------------------------- MODULE SignIn -------------------------------
(***************************************************************************)
(* How a voter gets the session that castBallot asks for: a code sent to   *)
(* the phone of the roster row (AuthService), or an identity confirmed by  *)
(* an external service (IdentityService).  Requests run side by side; one  *)
(* action is one database call with the code up to the next one.           *)
(***************************************************************************)
EXTENDS Integers, FiniteSets

CONSTANTS
  Voters,       \* rows of the roster; a row stands for its phone, too
  Identities,   \* what the identity service may confirm: [phone, owner, ci]
  Null,         \* no value, unequal to any other
  Modes,        \* values of IDENTITY_VERIFICATION that are deployed
  Requests,     \* requests in progress at the same time
  MAX_OTP_ATTEMPTS, MAX_OTP_SENDS

ASSUME ModeAssumption == Modes \subseteq {"off", "optional", "required"}
(* owner says whether name and birth date are those of the row, so all     *)
(* owners of a row are one person, with one CI (or none in the answer).    *)
ASSUME IdentityAssumption ==
  \A i \in Identities :
    /\ i.phone \in Voters /\ i.owner \in BOOLEAN
    /\ \A j \in Identities : i.phone = j.phone /\ i.owner /\ j.owner
                             => i.ci = j.ci \/ Null \in {i.ci, j.ci}
ASSUME LimitAssumption ==
  {MAX_OTP_ATTEMPTS, MAX_OTP_SENDS} \subseteq Nat \ {0}
ASSUME RequestsAssumption == IsFiniteSet(Requests)

VARIABLES
  mode,      \* IDENTITY_VERIFICATION of the running process
  voter,     \* rows of the roster: what signing in reads and writes of them
  texted,    \* per row, codes that were sent as text messages
  challenge, \* challenge tokens signed so far
  session,   \* session tokens signed so far
  tx,        \* whether the identity service has a transaction open
  req        \* per request, the handler's program counter and locals

vars == <<mode, voter, texted, challenge, session, tx, req>>

Idle           == [pc |-> "idle"]
Goto(r, local) == req' = [req EXCEPT ![r] = local]
Arriving(r)    == req[r] = Idle
At(r, pc)      == req[r].pc = pc

otpPathAllowed == mode # "required"
assertEnabled  == mode # "off"

Init ==
  /\ mode \in Modes
  /\ voter = [v \in Voters |->
                [otp |-> FALSE, otpAttempts |-> 0, otpSentCount |-> 0,
                 locked |-> FALSE, ciHash |-> Null, hasVoted |-> FALSE]]
  /\ texted = [v \in Voters |-> 0]
  /\ challenge = {} /\ session = {}
  /\ tx = FALSE
  /\ req = [r \in Requests |-> Idle]

(* Time is what runs out: a code (otp: there is one, unexpired) after three *)
(* minutes, a lock (locked: lockedUntil is in the future) after thirty, and *)
(* so after the code that was there when it began.                          *)
CodeExpires(v) ==
  /\ voter[v].otp
  /\ voter' = [voter EXCEPT ![v].otp = FALSE]
  /\ UNCHANGED <<mode, texted, challenge, session, tx, req>>

LockExpires(v) ==
  /\ voter[v].locked /\ ~voter[v].otp
  /\ voter' = [voter EXCEPT ![v].locked = FALSE]
  /\ UNCHANGED <<mode, texted, challenge, session, tx, req>>
---------------------------------------------------------------------------
(* otpSentCount >= MAX_OTP_SENDS, and its off-by-one                       *)
LimitReachedLate(v) == voter[v].otpSentCount > MAX_OTP_SENDS
LimitReached(v)     == voter[v].otpSentCount >= MAX_OTP_SENDS

(* requestOtp.  A phone or birth date that is not on the roster changes    *)
(* nothing.                                                                *)
OtpRead(r, v) ==
  /\ otpPathAllowed
  /\ Arriving(r)
  /\ ~voter[v].locked /\ ~voter[v].hasVoted
  /\ Goto(r, [pc |-> IF LimitReached(v) THEN "otp.lock" ELSE "otp.store", voter |-> v])
  /\ UNCHANGED <<mode, voter, texted, challenge, session, tx>>

OtpLock(r) ==
  /\ At(r, "otp.lock")
  /\ voter' = [voter EXCEPT ![req[r].voter].locked = TRUE]
  /\ Goto(r, Idle)
  /\ UNCHANGED <<mode, texted, challenge, session, tx>>

(* otpSentCount: { increment: 1 } is one SQL statement.                    *)
OtpStore(r) ==
  LET v == req[r].voter IN
  /\ At(r, "otp.store")
  /\ voter' = [voter EXCEPT ![v].otp = TRUE,
                            ![v].otpAttempts = 0,
                            ![v].otpSentCount = @ + 1]
  /\ Goto(r, [pc |-> "otp.text", voter |-> v])
  /\ UNCHANGED <<mode, texted, challenge, session, tx>>

OtpText(r) ==
  LET v == req[r].voter IN
  /\ At(r, "otp.text")
  /\ texted' = [texted EXCEPT ![v] = @ + 1]
  /\ Goto(r, [pc |-> "otp.token", voter |-> v])
  /\ UNCHANGED <<mode, voter, challenge, session, tx>>

(* The challenge token carries the phone for the receipt.                  *)
OtpToken(r) ==
  /\ At(r, "otp.token")
  /\ challenge' = challenge \cup {[sub |-> req[r].voter, phone |-> req[r].voter]}
  /\ Goto(r, Idle)
  /\ UNCHANGED <<mode, voter, texted, session, tx>>
---------------------------------------------------------------------------
(* verifyOtp reads the row and compares the code with what it read.        *)
VerifyRead(r, v) ==
  /\ otpPathAllowed
  /\ Arriving(r)
  /\ voter[v].otp
  /\ ~voter[v].locked
  /\ ~voter[v].hasVoted
  /\ Goto(r, [pc |-> "verify.compare", voter |-> v, otpAttempts |-> voter[v].otpAttempts])
  /\ UNCHANGED <<mode, voter, texted, challenge, session, tx>>

(* The update writes what follows from the row as it was read, when it was *)
(* not locked: it takes back a lock set since.                             *)
VerifyWrong(r) ==
  LET v        == req[r].voter
      attempts == req[r].otpAttempts + 1
  IN
  /\ At(r, "verify.compare")
  /\ voter' = [voter EXCEPT
       ![v].otpAttempts = attempts,
       ![v].locked = attempts >= MAX_OTP_ATTEMPTS]
  /\ Goto(r, Idle)
  /\ UNCHANGED <<mode, texted, challenge, session, tx>>

VerifyRight(r) ==
  LET v == req[r].voter IN
  /\ At(r, "verify.compare")
  /\ voter' = [voter EXCEPT ![v].otp = FALSE, ![v].otpAttempts = 0]
  /\ Goto(r, [pc |-> "verify.session", voter |-> v])
  /\ UNCHANGED <<mode, texted, challenge, session, tx>>

(* The client may have sent along any challenge token, which is looked at  *)
(* only now.  The phone is taken from one of the same voter.  Signed       *)
(* tokens expire; the model lets them be valid or not at any time.         *)
PhoneFromAny(token, v) == {Null} \cup (IF token # Null THEN {token.phone} ELSE {})
PhoneFrom(token, v)    == {Null} \cup (IF token # Null /\ token.sub = v THEN {token.phone} ELSE {})

SessionSwapped(v, phone, ci) == [voter |-> phone, phone |-> v, ci |-> ci]
Session(v, phone, ci)        == [voter |-> v, phone |-> phone, ci |-> ci]

VerifySession(r) ==
  LET v == req[r].voter IN
  /\ At(r, "verify.session")
  /\ \E token \in challenge \cup {Null} : \E phone \in PhoneFrom(token, v) :
       session' = session \cup {Session(v, phone, Null)}
  /\ Goto(r, Idle)
  /\ UNCHANGED <<mode, voter, texted, challenge, tx>>
---------------------------------------------------------------------------
(* IdentityService.begin; its check of the election's status is one read   *)
IdentityBegin ==
  /\ assertEnabled
  /\ ~tx /\ tx' = TRUE
  /\ UNCHANGED <<mode, voter, texted, challenge, session, req>>

(* complete: the provider uses up the transaction, ...                     *)
IdentityConfirm(r, i) ==
  /\ assertEnabled
  /\ Arriving(r)
  /\ tx /\ tx' = FALSE
  /\ Goto(r, [pc |-> "identity.match", identity |-> i])
  /\ UNCHANGED <<mode, voter, texted, challenge, session>>

(* ... the row of the phone must be the owner's and must not have voted,   *)
(* whether it is locked or not, ...                                        *)
IdentityMatch(r) ==
  LET i == req[r].identity IN
  /\ At(r, "identity.match")
  /\ Goto(r, IF i.owner /\ ~voter[i.phone].hasVoted
             THEN [pc |-> "identity.ci", identity |-> i] ELSE Idle)
  /\ UNCHANGED <<mode, voter, texted, challenge, session, tx>>

(* ... its CI is recorded under the unique index (electionId, ciHash), ... *)
CiUnchecked(ci, v) == TRUE
CiFree(ci, v)      == ci = Null \/ \A w \in Voters : voter[w].ciHash = ci => w = v

IdentityRecord(r) ==
  LET i == req[r].identity IN
  /\ At(r, "identity.ci")
  /\ IF CiFree(i.ci, i.phone)
     THEN /\ voter' = [voter EXCEPT ![i.phone].ciHash = IF i.ci = Null THEN @ ELSE i.ci]
          /\ Goto(r, [pc |-> "identity.session", identity |-> i])
     ELSE Goto(r, Idle) /\ UNCHANGED voter
  /\ UNCHANGED <<mode, texted, challenge, session, tx>>

(* ... and a session like the one of the code is signed.                   *)
IdentitySession(r) ==
  LET i == req[r].identity IN
  /\ At(r, "identity.session")
  /\ session' = session \cup {Session(i.phone, i.phone, i.ci)}
  /\ Goto(r, Idle)
  /\ UNCHANGED <<mode, voter, texted, challenge, tx>>
---------------------------------------------------------------------------
(* castBallot as far as the row is concerned: updateMany where hasVoted is *)
(* false.  Election models the rest of it.                                 *)
Claim(s) ==
  /\ ~voter[s.voter].hasVoted
  /\ voter' = [voter EXCEPT ![s.voter].hasVoted = TRUE]
  /\ UNCHANGED <<mode, texted, challenge, session, tx, req>>

(* A call to the database, the provider or the gateway fails, or the       *)
(* process dies; the request ends.                                         *)
Crash(r) ==
  /\ ~Arriving(r)
  /\ Goto(r, Idle)
  /\ UNCHANGED <<mode, voter, texted, challenge, session, tx>>

Next ==
  \/ IdentityBegin
  \/ \E s \in session : Claim(s)
  \/ \E v \in Voters : CodeExpires(v) \/ LockExpires(v)
  \/ \E r \in Requests :
       \/ \E v \in Voters : OtpRead(r, v) \/ VerifyRead(r, v)
       \/ \E i \in Identities : IdentityConfirm(r, i)
       \/ OtpLock(r) \/ OtpStore(r) \/ OtpText(r) \/ OtpToken(r)
       \/ VerifyWrong(r) \/ VerifyRight(r) \/ VerifySession(r)
       \/ IdentityMatch(r) \/ IdentityRecord(r) \/ IdentitySession(r)
       \/ Crash(r)

Spec == Init /\ [][Next]_vars
---------------------------------------------------------------------------
CIs    == {i.ci : i \in Identities} \cup {Null}
Row    == [otp : BOOLEAN, otpAttempts : Nat, otpSentCount : Nat, locked : BOOLEAN,
           ciHash : CIs, hasVoted : BOOLEAN]
Token  == [sub : Voters, phone : Voters]

OtpReq      == [pc : {"otp.lock", "otp.store", "otp.text", "otp.token", "verify.session"},
                voter : Voters]
CompareReq  == [pc : {"verify.compare"}, voter : Voters, otpAttempts : Nat]
IdentityReq == [pc : {"identity.match", "identity.ci", "identity.session"},
                identity : Identities]
Req         == {Idle} \cup OtpReq \cup CompareReq \cup IdentityReq

(* Requests at pc that act for row v                                       *)
InFlight(pc, v) == {r \in Requests : At(r, pc) /\ req[r].voter = v}

(* What each variable may hold                                             *)
SignInTypeOK ==
  /\ mode \in Modes
  /\ voter \in [Voters -> Row]
  /\ texted \in [Voters -> Nat]
  /\ challenge \subseteq Token
  /\ session \subseteq [voter : Voters, phone : Voters \cup {Null}, ci : CIs]
  /\ tx \in BOOLEAN
  /\ req \in [Requests -> Req]

(* The limit on text messages per voter holds up to the requests that were *)
(* already past the check of otpSentCount when it was reached (requestOtp).*)
TextsBounded ==
  \A v \in Voters : texted[v] <= MAX_OTP_SENDS + Cardinality(Requests) - 1

(* The receipt of a vote goes to the phone of the voter who signed in, or  *)
(* to nobody, whichever tokens the client has mixed up (verifyOtp).        *)
ReceiptToVoter == \A s \in session : s.phone \in {Null, s.voter}

(* A person that is on the roster twice gets sessions for one row only     *)
(* through the identity service, whatever races and whatever fails after   *)
(* the CI was recorded (IdentityService.complete).                         *)
OneRowPerPerson ==
  \A s, t \in session : s.ci # Null /\ s.ci = t.ci => s.voter = t.voter
---------------------------------------------------------------------------
(* What the repository says of itself and its code does not always do:     *)
(* TLC refutes it.                                                         *)

(* "On success the code is discarded at once.  No reuse.": no more requests *)
(* are about to get a session for a code than codes were made.             *)
CodeUsedOnce == \A v \in Voters : Cardinality(InFlight("verify.session", v)) <= voter[v].otpSentCount
---------------------------------------------------------------------------
(* The inductive invariant behind TextsBounded, ReceiptToVoter and         *)
(* OneRowPerPerson.                                                        *)

(* Every message on its way was counted, and every request that has passed *)
(* the check still fits under the bound.                                   *)
SendsCounted ==
  \A v \in Voters :
    /\ texted[v] + Cardinality(InFlight("otp.text", v)) <= voter[v].otpSentCount
    /\ voter[v].otpSentCount + Cardinality(InFlight("otp.store", v))
         <= MAX_OTP_SENDS + Cardinality(Requests) - 1

TokensOwn == \A c \in challenge : c.phone = c.sub

(* A recorded CI is the row's person's, and nobody else's.                 *)
CiOfOwner == \A v \in Voters : voter[v].ciHash # Null =>
               \E i \in Identities : i.phone = v /\ i.owner /\ i.ci = voter[v].ciHash
CiUnique  == \A v, w \in Voters :
               voter[v].ciHash # Null /\ voter[v].ciHash = voter[w].ciHash => v = w

(* Whoever has a session, or is about to get one, with a CI is recorded.   *)
Recorded(phone, ci) == ci # Null => voter[phone].ciHash = ci
LocalSound(l) ==
  /\ l.pc \in {"identity.ci", "identity.session"} => l.identity.owner
  /\ l.pc = "identity.session" => Recorded(l.identity.phone, l.identity.ci)
LocalsSound == \A r \in Requests : LocalSound(req[r])
SessionsRecorded == \A s \in session : Recorded(s.voter, s.ci)

SignInInv ==
  /\ SignInTypeOK
  /\ SendsCounted
  /\ TokensOwn
  /\ ReceiptToVoter
  /\ CiOfOwner
  /\ CiUnique
  /\ LocalsSound
  /\ SessionsRecorded
===========================================================================
