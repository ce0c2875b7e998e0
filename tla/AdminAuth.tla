----------------------------- MODULE AdminAuth -----------------------------
(***************************************************************************)
(* How a commissioner signs in: password, then a time-based code           *)
(* (AdminAuthService), then AdminGuard before every operation.  Accounts   *)
(* share no state, so the module follows one account.  A handler reads the *)
(* row, computes, and writes the row by what it had read; requests run     *)
(* side by side.  The audit log and wording are left out, and so is the    *)
(* answer to an unknown login id, which writes nothing.                    *)
(***************************************************************************)
EXTENDS Integers, FiniteSets, Functions

CONSTANTS
  Requests,           \* requests in progress at the same time
  Passwords,          \* what may be typed as a password, or chosen as one
  MAX_LOGIN_ATTEMPTS,
  MaxStep,            \* bound: the last 30-second time step
  MaxSecrets          \* bound: how many secrets are generated

ASSUME AttemptsAssumption == MAX_LOGIN_ATTEMPTS \in Nat \ {0}
ASSUME AuthBoundsAssumption ==
  MaxStep \in Nat /\ MaxSecrets \in Nat /\ IsFiniteSet(Requests)

VARIABLES
  admin,    \* the AdminUser row
  now,      \* the current time step
  issued,   \* how many secrets generateSecret has returned
  pending,  \* whether an unexpired admin_pending token is out
  session,  \* whether an unexpired admin token is out
  req,      \* per request, the handler's program counter and locals
  initial,  \* history: the password the account was created with
  wrong,    \* history: tries refused since the last success or expired lock
  watched,  \* history: one code, any, and
  minted    \* history: how many sessions that code opened

vars == <<admin, now, issued, pending, session, req, initial, wrong, watched, minted>>

Steps   == 0..MaxStep
Secrets == 1..MaxSecrets
None    == -1   \* NULL in the columns totpSecret and lastTotpStep
Codes   == Secrets \X Steps
Typo    == <<None, None>>   \* six digits that are the code of no time step

Admin == [password : Passwords, totpSecret : Secrets \cup {None}, totpConfirmed : BOOLEAN,
          lastTotpStep : Steps \cup {None}, failedAttempts : Nat,
          locked : BOOLEAN, disabled : BOOLEAN]

Idle == [pc |-> "idle"]
Req  == [pc : {"idle", "login.ok", "enroll", "password"}]
          \cup [pc : {"refuse"}, attempts : Nat]
          \cup [pc : {"totp.ok"}, code : Codes]
          \cup [pc : {"change"}, next : Passwords]

AuthTypeOK ==
  /\ admin \in Admin
  /\ now \in Steps
  /\ issued \in 0..MaxSecrets
  /\ pending \in BOOLEAN /\ session \in BOOLEAN
  /\ req \in [Requests -> Req]
  /\ initial \in Passwords
  /\ wrong \in Nat
  /\ watched \in Codes /\ minted \in Nat

(* The row create-admin writes; an operator reads the password out of its  *)
(* output and hands it over.                                               *)
Init ==
  /\ initial \in Passwords
  /\ admin = [password |-> initial, totpSecret |-> None, totpConfirmed |-> FALSE,
              lastTotpStep |-> None, failedAttempts |-> 0,
              locked |-> FALSE, disabled |-> FALSE]
  /\ now = 0 /\ issued = 0
  /\ pending = FALSE /\ session = FALSE
  /\ req = [r \in Requests |-> Idle]
  /\ wrong = 0
  /\ watched \in Codes /\ minted = 0
---------------------------------------------------------------------------
Goto(r, local) == req' = [req EXCEPT ![r] = local]
Arriving(r)    == req[r] = Idle

OnlyReq == UNCHANGED <<admin, now, issued, pending, session, initial, wrong, watched, minted>>

(* A lock (locked: lockedUntil is in the future) runs out, tokens expire,  *)
(* and the database owner may set disabledAt.                              *)
Tick ==
  /\ now < MaxStep
  /\ now' = now + 1
  /\ UNCHANGED <<admin, issued, pending, session, req, initial, wrong, watched, minted>>

LockExpires ==
  /\ admin.locked
  /\ admin' = [admin EXCEPT !.locked = FALSE]
  /\ wrong' = 0
  /\ UNCHANGED <<now, issued, pending, session, req, initial, watched, minted>>

TokenExpires ==
  /\ \/ pending /\ pending' = FALSE /\ session' = session
     \/ session /\ session' = FALSE /\ pending' = pending
  /\ UNCHANGED <<admin, now, issued, req, initial, wrong, watched, minted>>

Disable ==
  /\ ~admin.disabled
  /\ admin' = [admin EXCEPT !.disabled = TRUE]
  /\ UNCHANGED <<now, issued, pending, session, req, initial, wrong, watched, minted>>
---------------------------------------------------------------------------
(* login                                                                   *)

Refusing == [pc |-> "refuse", attempts |-> admin.failedAttempts]

LoginRead(r, password) ==
  /\ Arriving(r)
  /\ ~admin.disabled /\ ~admin.locked
  /\ Goto(r, IF password = admin.password THEN [pc |-> "login.ok"] ELSE Refusing)
  /\ OnlyReq

(* What a refused try writes: the counter as it was read plus one, and a   *)
(* lock at the limit.  Below the limit it writes back the lockedUntil it   *)
(* had read, which was none or past.  Counters from the limit up are not   *)
(* told apart.                                                             *)
RefusedUncounted(row, attempts) ==   \* forgets to count
  [row EXCEPT !.failedAttempts = attempts, !.locked = attempts >= MAX_LOGIN_ATTEMPTS]

Refused(row, attempts) ==
  LET limit == attempts + 1 >= MAX_LOGIN_ATTEMPTS IN
  [row EXCEPT !.failedAttempts = IF limit THEN MAX_LOGIN_ATTEMPTS ELSE attempts + 1,
              !.locked = limit]

Refuse(r) ==
  /\ req[r].pc = "refuse"
  /\ admin' = Refused(admin, req[r].attempts)
  /\ wrong' = wrong + 1
  /\ Goto(r, Idle)
  /\ UNCHANGED <<now, issued, pending, session, initial, watched, minted>>

(* A lock that another request wrote meanwhile stays.                      *)
LoginOk(r) ==
  /\ req[r].pc = "login.ok"
  /\ admin' = [admin EXCEPT !.failedAttempts = 0]
  /\ wrong' = 0
  /\ pending' = TRUE
  /\ Goto(r, Idle)
  /\ UNCHANGED <<now, issued, session, initial, watched, minted>>
---------------------------------------------------------------------------
(* beginTotpEnrollment, behind resolvePending                              *)

resolvePending == pending

EnrollRead(r) ==
  /\ Arriving(r) /\ resolvePending
  /\ ~admin.totpConfirmed
  /\ Goto(r, [pc |-> "enroll"])
  /\ OnlyReq

EnrollWrite(r) ==
  /\ req[r].pc = "enroll"
  /\ issued < MaxSecrets
  /\ issued' = issued + 1
  /\ admin' = [admin EXCEPT !.totpSecret = issued']
  /\ Goto(r, Idle)
  /\ UNCHANGED <<now, pending, session, initial, wrong, watched, minted>>
---------------------------------------------------------------------------
(* verifyTotp, behind resolvePending.  It does not look at disabledAt.     *)

(* TOTP_TOLERANCE accepts the code of the last step, never of the next;    *)
(* afterTimeStep refuses the steps up to the last accepted one.            *)
InWindowUnspent(code, row) == code[2] \in {now - 1, now}   \* no afterTimeStep
InWindowFuture(code, row)  == code[2] \in {now, now + 1} /\ code[2] > row.lastTotpStep

InWindow(code, row) == code[2] \in {now - 1, now} /\ code[2] > row.lastTotpStep

verifyTotpCode(code, row) == code[1] = row.totpSecret /\ InWindow(code, row)

TotpRead(r, code) ==
  /\ Arriving(r) /\ resolvePending
  /\ admin.totpSecret # None
  /\ ~admin.locked
  /\ Goto(r, IF verifyTotpCode(code, admin) THEN [pc |-> "totp.ok", code |-> code]
             ELSE Refusing)
  /\ OnlyReq

TotpOkUnrecorded(r) ==   \* does not store the time step
  /\ req[r].pc = "totp.ok"
  /\ admin' = [admin EXCEPT !.failedAttempts = 0, !.totpConfirmed = TRUE]
  /\ wrong' = 0
  /\ session' = TRUE
  /\ minted' = IF req[r].code = watched THEN minted + 1 ELSE minted
  /\ Goto(r, Idle)
  /\ UNCHANGED <<now, issued, pending, initial, watched>>

TotpOk(r) ==
  /\ req[r].pc = "totp.ok"
  /\ admin' = [admin EXCEPT !.lastTotpStep = req[r].code[2],
                            !.failedAttempts = 0, !.totpConfirmed = TRUE]
  /\ wrong' = 0
  /\ session' = TRUE
  /\ minted' = IF req[r].code = watched THEN minted + 1 ELSE minted
  /\ Goto(r, Idle)
  /\ UNCHANGED <<now, issued, pending, initial, watched>>
---------------------------------------------------------------------------
(* AdminGuard, and changePassword behind it.  The guard takes only tokens  *)
(* of typ admin and reads the row for disabledAt.                          *)

canActivateAnyType == (session \/ pending) /\ ~admin.disabled   \* typ not looked at

canActivate == session /\ ~admin.disabled

GuardPasses(r) ==
  /\ Arriving(r) /\ canActivate
  /\ Goto(r, [pc |-> "password"])
  /\ OnlyReq

(* The row is read once more, for the hash of the current password.        *)
PasswordRead(r, current, next) ==
  /\ req[r].pc = "password"
  /\ Goto(r, IF current = admin.password THEN [pc |-> "change", next |-> next] ELSE Idle)
  /\ OnlyReq

PasswordWrite(r) ==
  /\ req[r].pc = "change"
  /\ admin' = [admin EXCEPT !.password = req[r].next]
  /\ Goto(r, Idle)
  /\ UNCHANGED <<now, issued, pending, session, initial, wrong, watched, minted>>
---------------------------------------------------------------------------
Login(r)  == (\E p \in Passwords : LoginRead(r, p)) \/ LoginOk(r)
Enroll(r) == EnrollRead(r) \/ EnrollWrite(r)
Verify(r) == (\E c \in {c \in Codes : c[1] <= issued} \cup {Typo} : TotpRead(r, c))
               \/ TotpOk(r)
Change(r) == GuardPasses(r) \/ (\E p, q \in Passwords : PasswordRead(r, p, q))
               \/ PasswordWrite(r)

Next ==
  \/ Tick \/ LockExpires \/ TokenExpires \/ Disable
  \/ \E r \in Requests : Login(r) \/ Enroll(r) \/ Verify(r) \/ Refuse(r) \/ Change(r)

Spec == Init /\ [][Next]_vars
---------------------------------------------------------------------------
(* Properties                                                              *)

(* A request that keeps what it has read can take the account back there   *)
(* later.  left[d] is for requests d writes away from where nothing is     *)
(* left: left[d][i] is what the i-th of them to write adds to what may     *)
(* still happen, its own write, if gain counts it, and what i requests can *)
(* do one write further on.                                                *)
N       == Cardinality(Requests)
Sums(f) == LET sum[m \in 0..N] == IF m = 0 THEN 0 ELSE sum[m - 1] + f[m] IN sum

Left(gain, top) ==
  LET left[d \in 0..top] ==
        IF d = 0 THEN [i \in 1..N |-> 0]
        ELSE LET further == Sums(left[d - 1]) IN [i \in 1..N |-> gain[d] + further[i]]
  IN  left

(* The limit holds up to lost updates: a request that read the counter     *)
(* early puts it back by its stale write, and undoes a lock with it, but   *)
(* it can do so only once per value, so between two successes or expired   *)
(* locks an account still refuses only so many tries: with n requests at   *)
(* a time, as many as there are ways to choose n of n + MAX_LOGIN_ATTEMPTS *)
(* things, less one (login, verifyTotp).                                   *)
TriesLeft  == Left([d \in 1..MAX_LOGIN_ATTEMPTS |-> 1], MAX_LOGIN_ATTEMPTS)
TriesBound == Sums(TriesLeft[MAX_LOGIN_ATTEMPTS])[N]

TriesBounded == wrong <= TriesBound

(* The time step a request stores stops later uses of its code, but the    *)
(* stale write of an overlapping request puts the step back.  It can put   *)
(* back only what the window still held when it was read, so the requests  *)
(* at a time open no more than four sessions with one code if they are     *)
(* two, and ten if they are three (verifyTotp).                            *)
SessionsBound == (N * (N + 1) * (N + 2)) \div 6

CodeSessionsBounded == minted <= SessionsBound

(* The password an operator handed over is replaced only on an account     *)
(* whose second factor has been confirmed: pending tokens, however old     *)
(* and whatever they raced with, open no operation (AdminGuard).           *)
BothFactorsBeforeChange == admin.password # initial => admin.totpConfirmed
---------------------------------------------------------------------------
(* The inductive invariant behind them.                                    *)

(* Who is past the guard, or may pass it, has confirmed the second factor. *)
SecondFactor ==
  session \/ (\E r \in Requests : req[r].pc \in {"password", "change"}) => admin.totpConfirmed

(* Whatever the order in which the requests write, what is done and what   *)
(* is left stay within the bound.                                          *)
Orders == Bijection(1..N, Requests)

Together(left, away, order) == Sums([i \in 1..N |-> left[away[order[i]]][i]])[N]

(* How many more tries lock the account, from a counter that was read.     *)
Away(attempts) == IF attempts < MAX_LOGIN_ATTEMPTS THEN MAX_LOGIN_ATTEMPTS - attempts ELSE 1
Refusal(l)     == l.pc = "refuse"

TriesAway ==
  [r \in Requests |-> IF Refusal(req[r]) THEN Away(req[r].attempts)
                      ELSE IF admin.locked THEN 0 ELSE Away(admin.failedAttempts)]

TriesSound ==
  \A order \in Orders : wrong + Together(TriesLeft, TriesAway, order) <= TriesBound

(* The watched code is good for a session until its step is stored; where  *)
(* the stored one is at least two steps back, the one between can be       *)
(* stored first.  An accepted code of an earlier step leads back there.    *)
Accepted(l)    == l.pc = "totp.ok"
StepAway(step) == IF step >= watched[2] THEN 0 ELSE IF step = watched[2] - 1 THEN 1 ELSE 2

CodesAway ==
  [r \in Requests |->
     IF ~Accepted(req[r]) THEN StepAway(admin.lastTotpStep)
     ELSE IF req[r].code = watched THEN 1
     ELSE IF req[r].code[2] >= watched[2] THEN 0 ELSE StepAway(req[r].code[2]) + 1]

SessionsLeft == Left([d \in 1..3 |-> IF d = 1 THEN 1 ELSE 0], 3)

CodesSound ==
  now >= watched[2] =>
    \A order \in Orders : minted + Together(SessionsLeft, CodesAway, order) <= SessionsBound

AuthInv ==
  /\ AuthTypeOK
  /\ SecondFactor /\ BothFactorsBeforeChange
  /\ admin.lastTotpStep <= now
  /\ \A r \in Requests : Accepted(req[r]) => req[r].code[2] <= now
  /\ now < watched[2] => minted = 0
  /\ TriesSound /\ CodesSound
---------------------------------------------------------------------------
(* What the repository says of itself and its code does not always do:     *)
(* TLC refutes it.                                                         *)

(* "An account that is registered already cannot be registered again":     *)
(* once confirmed, the secret on the commissioner's phone stays the one in *)
(* the row (beginTotpEnrollment).                                          *)
SecretFixedOnceConfirmed ==
  [][admin.totpConfirmed => admin'.totpSecret = admin.totpSecret]_admin
===========================================================================
