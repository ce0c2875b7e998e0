-------------------------- MODULE AdminAuth_proofs --------------------------
(***************************************************************************)
(* However many requests there are at a time, and whatever the limit, the  *)
(* passwords, the secrets and the time, the second factor stands in front  *)
(* of every operation, and no more tries are refused and no more sessions  *)
(* opened with one code than the races allow.                              *)
(***************************************************************************)
EXTENDS AdminAuth, FiniteSetTheorems, TLAPS

(* The parts of AuthInv, each of which has its own proof below.            *)
Kept ==
  /\ AuthTypeOK
  /\ SecondFactor /\ BothFactorsBeforeChange
  /\ admin.lastTotpStep <= now
  /\ \A r \in Requests : Accepted(req[r]) => req[r].code[2] <= now
  /\ now < watched[2] => minted = 0

LEMMA AuthParts == AuthInv <=> Kept /\ TriesSound /\ CodesSound
BY DEF AuthInv, Kept

(* The values a handler may have in its locals, by where it is.            *)
LEMMA AuthShape ==
  ASSUME NEW l \in Req
  PROVE  /\ Refusal(l) => l.attempts \in Nat
         /\ Accepted(l) => l.code \in Codes
         /\ l.pc = "change" => l.next \in Passwords
         /\ Refusal(l) => ~Accepted(l)
BY DEF Req, Refusal, Accepted

LEMMA AuthIdle ==
  /\ Idle \in Req /\ Idle.pc = "idle" /\ ~Refusal(Idle) /\ ~Accepted(Idle)
BY DEF Req, Idle, Refusal, Accepted

LEMMA CodeParts ==
  ASSUME NEW c \in Codes
  PROVE  c[1] \in Secrets /\ c[2] \in Steps /\ c[2] \in Nat
BY AuthBoundsAssumption DEF Codes, Steps
---------------------------------------------------------------------------
(* Types, factors and time                                                 *)

(* A step that leaves the time, the codes and the factors alone.           *)
LEMMA KeptBy ==
  ASSUME Kept, NEW r \in Requests, NEW l \in Req, Goto(r, l),
         admin' \in Admin, admin'.password = admin.password,
         admin'.totpConfirmed = admin.totpConfirmed,
         admin'.lastTotpStep = admin.lastTotpStep,
         issued' \in 0..MaxSecrets, pending' \in BOOLEAN, wrong' \in Nat,
         UNCHANGED <<now, session, initial, watched, minted>>,
         Accepted(l) => l.code[2] <= now,
         l.pc \in {"password", "change"} => admin.totpConfirmed
  PROVE  Kept'
<1>1. /\ req \in [Requests -> Req] /\ req' = [req EXCEPT ![r] = l]
      /\ req' \in [Requests -> Req] /\ Requests # {}
  BY DEF Kept, AuthTypeOK, Goto
<1>2. AuthTypeOK'
  BY <1>1 DEF Kept, AuthTypeOK
<1>3. SecondFactor' /\ BothFactorsBeforeChange'
  BY <1>1 DEF Kept, SecondFactor, BothFactorsBeforeChange
<1>4. \A q \in Requests : Accepted(req'[q]) => req'[q].code[2] <= now
  BY <1>1 DEF Kept
<1>5. QED
  BY <1>1, <1>2, <1>3, <1>4 DEF Kept

LEMMA AdminFields ==
  ASSUME NEW row \in Admin
  PROVE  /\ row.password \in Passwords /\ row.totpSecret \in Secrets \cup {None}
         /\ row.totpConfirmed \in BOOLEAN /\ row.lastTotpStep \in Steps \cup {None}
         /\ row.failedAttempts \in Nat /\ row.locked \in BOOLEAN /\ row.disabled \in BOOLEAN
         /\ row.lastTotpStep \in Int
BY AuthBoundsAssumption DEF Admin, Steps, None

LEMMA RefusedRow ==
  ASSUME NEW row \in Admin, NEW attempts \in Nat
  PROVE  /\ Refused(row, attempts) \in Admin
         /\ Refused(row, attempts).password = row.password
         /\ Refused(row, attempts).totpConfirmed = row.totpConfirmed
         /\ Refused(row, attempts).lastTotpStep = row.lastTotpStep
         /\ attempts + 1 >= MAX_LOGIN_ATTEMPTS => Refused(row, attempts).locked
         /\ attempts + 1 < MAX_LOGIN_ATTEMPTS =>
              /\ ~Refused(row, attempts).locked
              /\ Refused(row, attempts).failedAttempts = attempts + 1
<1> DEFINE limit == attempts + 1 >= MAX_LOGIN_ATTEMPTS
           n     == IF limit THEN MAX_LOGIN_ATTEMPTS ELSE attempts + 1
<1>1. n \in Nat /\ limit \in BOOLEAN /\ (attempts + 1 < MAX_LOGIN_ATTEMPTS => n = attempts + 1)
  BY AttemptsAssumption
<1>2. Refused(row, attempts) = [row EXCEPT !.failedAttempts = n, !.locked = limit]
  BY DEF Refused
<1> HIDE DEF n
<1>3. /\ Refused(row, attempts) \in Admin
      /\ Refused(row, attempts).password = row.password
      /\ Refused(row, attempts).totpConfirmed = row.totpConfirmed
      /\ Refused(row, attempts).lastTotpStep = row.lastTotpStep
      /\ Refused(row, attempts).locked = limit
      /\ Refused(row, attempts).failedAttempts = n
  BY <1>1, <1>2 DEF Admin
<1>4. /\ attempts + 1 >= MAX_LOGIN_ATTEMPTS => limit = TRUE
      /\ attempts + 1 < MAX_LOGIN_ATTEMPTS => limit = FALSE /\ n = attempts + 1
  BY <1>1, AttemptsAssumption
<1> HIDE DEF limit
<1>5. QED
  BY <1>3, <1>4

LEMMA KeptLogin ==
  ASSUME Kept, NEW r \in Requests, Login(r) \/ Enroll(r) \/ Refuse(r)
  PROVE  Kept'
<1>1. /\ admin \in Admin /\ req[r] \in Req /\ issued \in 0..MaxSecrets /\ pending \in BOOLEAN
      /\ wrong \in Nat /\ MaxSecrets \in Nat
  BY AuthBoundsAssumption DEF Kept, AuthTypeOK
<1>2. ASSUME NEW l \in Req, l.pc \in {"login.ok", "refuse", "enroll"}, Goto(r, l), OnlyReq
      PROVE  Kept'
  BY <1>1, <1>2, KeptBy DEF OnlyReq, Accepted
<1>3. Refusing \in Req /\ Refusing.pc = "refuse"
  BY <1>1, AdminFields DEF Refusing, Req
<1>4. CASE \E p \in Passwords : LoginRead(r, p)
  <2>1. [pc |-> "login.ok"] \in Req
    BY DEF Req
  <2>2. QED
    BY <1>2, <1>3, <1>4, <2>1 DEF LoginRead
<1>5. CASE LoginOk(r)
  <2>1. [admin EXCEPT !.failedAttempts = 0] \in Admin
    BY <1>1 DEF Admin
  <2>2. QED
    BY <1>1, <1>5, <2>1, AuthIdle, KeptBy DEF LoginOk, Admin
<1>6. CASE EnrollRead(r)
  <2>1. [pc |-> "enroll"] \in Req
    BY DEF Req
  <2>2. QED
    BY <1>2, <1>6, <2>1 DEF EnrollRead
<1>7. CASE EnrollWrite(r)
  <2>1. issued' \in Secrets /\ issued' \in 0..MaxSecrets
    BY <1>1, <1>7 DEF EnrollWrite, Secrets
  <2>2. /\ admin' \in Admin /\ admin'.password = admin.password
        /\ admin'.totpConfirmed = admin.totpConfirmed
        /\ admin'.lastTotpStep = admin.lastTotpStep
    BY <1>1, <1>7, <2>1 DEF EnrollWrite, Admin
  <2>3. QED
    BY <1>1, <1>7, <2>1, <2>2, AuthIdle, KeptBy DEF EnrollWrite
<1>8. CASE Refuse(r)
  <2>1. req[r].attempts \in Nat
    BY <1>1, <1>8, AuthShape DEF Refuse, Refusal
  <2>2. /\ admin' \in Admin /\ admin'.password = admin.password
        /\ admin'.totpConfirmed = admin.totpConfirmed
        /\ admin'.lastTotpStep = admin.lastTotpStep
    BY <1>1, <1>8, <2>1, RefusedRow DEF Refuse
  <2>3. QED
    BY <1>1, <1>8, <2>2, AuthIdle, KeptBy DEF Refuse
<1>9. QED
  BY <1>4, <1>5, <1>6, <1>7, <1>8 DEF Login, Enroll

LEMMA KeptVerify ==
  ASSUME Kept, NEW r \in Requests, Verify(r)
  PROVE  Kept'
<1>1. /\ admin \in Admin /\ req[r] \in Req /\ issued \in 0..MaxSecrets /\ pending \in BOOLEAN
      /\ wrong \in Nat /\ now \in Nat /\ watched \in Codes /\ minted \in Nat
      /\ req \in [Requests -> Req]
  BY AuthBoundsAssumption DEF Kept, AuthTypeOK, Steps
<1>2. ASSUME NEW c \in {c \in Codes : c[1] <= issued} \cup {Typo}, TotpRead(r, c)
      PROVE  Kept'
  <2>1. CASE verifyTotpCode(c, admin)
    <3>1. c \in Codes /\ c[2] \in Nat /\ c[2] <= now
      <4>1. c # Typo
        BY <1>1, <1>2, <2>1, AdminFields, AuthBoundsAssumption
           DEF TotpRead, verifyTotpCode, Typo, Secrets, None
      <4>2. QED
        BY <1>1, <2>1, <4>1, CodeParts DEF verifyTotpCode, InWindow
    <3>2. [pc |-> "totp.ok", code |-> c] \in Req
      BY <3>1 DEF Req
    <3>3. Goto(r, [pc |-> "totp.ok", code |-> c]) /\ OnlyReq
      BY <1>2, <2>1 DEF TotpRead
    <3>4. QED
      BY <1>1, <3>1, <3>2, <3>3, KeptBy DEF OnlyReq
  <2>2. CASE ~verifyTotpCode(c, admin)
    <3>1. Refusing \in Req /\ Refusing.pc = "refuse"
      BY <1>1, AdminFields DEF Refusing, Req
    <3>2. Goto(r, Refusing) /\ OnlyReq
      BY <1>2, <2>2 DEF TotpRead
    <3>3. QED
      BY <1>1, <3>1, <3>2, KeptBy DEF OnlyReq, Accepted
  <2>3. QED
    BY <2>1, <2>2
<1>3. CASE TotpOk(r)
  <2>1. Accepted(req[r]) /\ req[r].code \in Codes /\ req[r].code[2] \in Steps /\ req[r].code[2] <= now
    BY <1>1, <1>3, AuthShape, CodeParts DEF TotpOk, Accepted, Kept
  <2>2. /\ admin' \in Admin /\ admin'.password = admin.password
        /\ admin'.totpConfirmed = TRUE /\ admin'.lastTotpStep = req[r].code[2]
    BY <1>1, <1>3, <2>1 DEF TotpOk, Admin
  <2>3. req' \in [Requests -> Req] /\ req' = [req EXCEPT ![r] = Idle]
    BY <1>1, <1>3, AuthIdle DEF TotpOk, Goto
  <2>4. minted' \in Nat /\ (now < watched[2] => minted' = minted)
    BY <1>1, <1>3, <2>1, CodeParts DEF TotpOk
  <2>5. AuthTypeOK'
    BY <1>3, <2>2, <2>3, <2>4 DEF TotpOk, Kept, AuthTypeOK
  <2>6. SecondFactor' /\ BothFactorsBeforeChange'
    BY <2>2 DEF SecondFactor, BothFactorsBeforeChange
  <2>7. \A q \in Requests : Accepted(req'[q]) => req'[q].code[2] <= now
    BY <1>1, <2>3, AuthIdle DEF Kept
  <2>8. QED
    BY <1>3, <2>1, <2>2, <2>4, <2>5, <2>6, <2>7 DEF TotpOk, Kept
<1>4. QED
  BY <1>2, <1>3 DEF Verify

(* Only a session gets past the guard, and only the second factor gives    *)
(* one; the confirmation is never taken back.                              *)
LEMMA KeptChange ==
  ASSUME Kept, NEW r \in Requests, Change(r)
  PROVE  Kept'
<1>1. /\ admin \in Admin /\ req[r] \in Req /\ issued \in 0..MaxSecrets /\ pending \in BOOLEAN
      /\ wrong \in Nat /\ req \in [Requests -> Req]
  BY DEF Kept, AuthTypeOK
<1>2. ASSUME NEW l \in Req, l.pc \in {"password", "change", "idle"}, Goto(r, l), OnlyReq,
             admin.totpConfirmed
      PROVE  Kept'
  BY <1>1, <1>2, KeptBy DEF OnlyReq, Accepted
<1>3. CASE GuardPasses(r)
  <2>1. [pc |-> "password"] \in Req
    BY DEF Req
  <2>2. admin.totpConfirmed
    BY <1>3 DEF GuardPasses, canActivate, Kept, SecondFactor
  <2>3. QED
    BY <1>2, <1>3, <2>1, <2>2 DEF GuardPasses
<1>4. req[r].pc \in {"password", "change"} => admin.totpConfirmed
  BY DEF Kept, SecondFactor
<1>5. ASSUME NEW p \in Passwords, NEW q \in Passwords, PasswordRead(r, p, q) PROVE Kept'
  <2>1. [pc |-> "change", next |-> q] \in Req
    BY DEF Req
  <2>2. QED
    BY <1>2, <1>4, <1>5, <2>1, AuthIdle DEF PasswordRead
<1>6. CASE PasswordWrite(r)
  <2>1. req[r].next \in Passwords /\ admin.totpConfirmed
    BY <1>1, <1>4, <1>6, AuthShape DEF PasswordWrite
  <2>2. /\ admin' \in Admin /\ admin'.totpConfirmed = admin.totpConfirmed
        /\ admin'.lastTotpStep = admin.lastTotpStep
    BY <1>1, <1>6, <2>1 DEF PasswordWrite, Admin
  <2>3. req' \in [Requests -> Req] /\ req' = [req EXCEPT ![r] = Idle]
    BY <1>1, <1>6, AuthIdle DEF PasswordWrite, Goto
  <2>4. AuthTypeOK'
    BY <1>6, <2>2, <2>3 DEF PasswordWrite, Kept, AuthTypeOK
  <2>5. SecondFactor' /\ BothFactorsBeforeChange'
    BY <2>1, <2>2 DEF SecondFactor, BothFactorsBeforeChange
  <2>6. \A q \in Requests : Accepted(req'[q]) => req'[q].code[2] <= now
    BY <1>1, <2>3, AuthIdle DEF Kept
  <2>7. QED
    BY <1>6, <2>2, <2>4, <2>5, <2>6 DEF PasswordWrite, Kept
<1>7. QED
  BY <1>3, <1>5, <1>6 DEF Change

LEMMA KeptOutside ==
  ASSUME Kept, Tick \/ LockExpires \/ TokenExpires \/ Disable \/ UNCHANGED vars
  PROVE  Kept'
<1>1. /\ admin \in Admin /\ req \in [Requests -> Req] /\ now \in Nat /\ MaxStep \in Nat
      /\ watched \in Codes /\ watched[2] \in Nat /\ admin.lastTotpStep \in Int
  BY AuthBoundsAssumption, CodeParts, AdminFields DEF Kept, AuthTypeOK, Steps
<1>2. CASE Tick
  <2>1. \A r \in Requests : Accepted(req[r]) => req[r].code[2] \in Nat
    BY <1>1, AuthShape, CodeParts
  <2>2. \A r \in Requests : Accepted(req[r]) => req[r].code[2] <= now + 1
    BY <1>1, <2>1 DEF Kept
  <2>3. AuthTypeOK'
    BY <1>1, <1>2 DEF Tick, Kept, AuthTypeOK, Steps
  <2>4. QED
    BY <1>1, <1>2, <2>2, <2>3 DEF Tick, Kept, SecondFactor, BothFactorsBeforeChange
<1>3. CASE LockExpires
  <2>1. /\ admin' \in Admin /\ admin'.password = admin.password
        /\ admin'.totpConfirmed = admin.totpConfirmed
        /\ admin'.lastTotpStep = admin.lastTotpStep
    BY <1>1, <1>3 DEF LockExpires, Admin
  <2>2. QED
    BY <1>3, <2>1 DEF LockExpires, Kept, AuthTypeOK, SecondFactor, BothFactorsBeforeChange
<1>4. CASE TokenExpires
  <2>1. /\ pending' \in BOOLEAN /\ session' \in BOOLEAN
        /\ session' => session
        /\ UNCHANGED <<admin, now, issued, req, initial, wrong, watched, minted>>
    <3>1. pending \in BOOLEAN /\ session \in BOOLEAN
      BY DEF Kept, AuthTypeOK
    <3>2. CASE pending' = FALSE /\ session' = session
      BY <1>4, <3>1, <3>2 DEF TokenExpires
    <3>3. CASE session' = FALSE /\ pending' = pending
      BY <1>4, <3>1, <3>3 DEF TokenExpires
    <3>4. QED
      BY <1>4, <3>2, <3>3 DEF TokenExpires
  <2>2. AuthTypeOK'
    BY <2>1 DEF Kept, AuthTypeOK
  <2>3. SecondFactor'
    BY <2>1 DEF Kept, SecondFactor
  <2>4. QED
    BY <2>1, <2>2, <2>3 DEF Kept, BothFactorsBeforeChange
<1>5. CASE Disable
  BY <1>1, <1>5 DEF Disable, Kept, AuthTypeOK, Admin, SecondFactor, BothFactorsBeforeChange
<1>6. CASE UNCHANGED vars
  BY <1>6 DEF vars, Kept, AuthTypeOK, SecondFactor, BothFactorsBeforeChange
<1>7. QED
  BY <1>2, <1>3, <1>4, <1>5, <1>6

LEMMA KeptStep ==
  ASSUME Kept, [Next]_vars
  PROVE  Kept'
BY KeptLogin, KeptVerify, KeptChange, KeptOutside DEF Next

LEMMA KeptStart == Init => Kept
<1> SUFFICES ASSUME Init PROVE Kept
  OBVIOUS
<1>1. admin \in Admin /\ admin.lastTotpStep = None /\ 0 \in Steps
  BY AuthBoundsAssumption DEF Init, Admin, Steps, None
<1>2. AuthTypeOK
  <2>1. req \in [Requests -> Req]
    BY AuthIdle DEF Init
  <2>2. issued \in 0..MaxSecrets
    BY AuthBoundsAssumption DEF Init
  <2>3. QED
    BY <1>1, <2>1, <2>2 DEF Init, AuthTypeOK
<1>3. QED
  BY <1>1, <1>2, AuthIdle, AuthBoundsAssumption
     DEF Init, Kept, SecondFactor, BothFactorsBeforeChange, None, Steps
---------------------------------------------------------------------------
(* Sums, and what is left of them                                          *)

LEMMA NoRequests == N \in Nat
BY AuthBoundsAssumption, FS_CardinalityType DEF N

LEMMA LeastOf ==
  ASSUME NEW T, T \subseteq Nat, T # {}
  PROVE  \E x \in T : \A y \in T : x <= y
<1>1. IsWellFoundedOn(OpToRel(<, Nat), Nat)
  BY NatLessThanWellFounded
<1>2. PICK x \in T : \A y \in T : ~(<<y, x>> \in OpToRel(<, Nat))
  BY <1>1, WFMin
<1>3. \A y \in T : ~(y < x)
  BY <1>2 DEF OpToRel
<1>4. QED
  BY <1>3

(* An induction.  P(n) is stated by the set of the n it fails for.         *)
LEMMA NoneFails ==
  ASSUME NEW T, T \subseteq Nat, 0 \notin T,
         \A n \in Nat : n + 1 \in T => n \in T
  PROVE  T = {}
<1> SUFFICES ASSUME T # {} PROVE FALSE
  OBVIOUS
<1>1. PICK x \in T : \A y \in T : x <= y
  BY LeastOf
<1>2. x \in Nat /\ x # 0
  OBVIOUS
<1>3. x - 1 \in Nat /\ (x - 1) + 1 \in T
  BY <1>2
<1>4. QED
  BY <1>1, <1>3

(* A recursive function of which each value is made of the one before.     *)
Recurs(next, start, n, g) ==
  /\ g[0] = start
  /\ \A k \in 1..n : g[k] = next[<<k, g[k - 1]>>]

LEMMA RecursionExists ==
  ASSUME NEW S, NEW n \in Nat, NEW next \in [(1..n) \X S -> S], NEW start \in S
  PROVE  \E g \in [0..n -> S] : Recurs(next, start, n, g)
<1> DEFINE T == {k \in Nat : k <= n /\ ~\E g \in [0..k -> S] : Recurs(next, start, k, g)}
<1>1. 0 \notin T
  <2>1. [m \in 0..0 |-> start] \in [0..0 -> S] /\ Recurs(next, start, 0, [m \in 0..0 |-> start])
    BY DEF Recurs
  <2>2. QED
    BY <2>1
<1>2. ASSUME NEW k \in Nat, k + 1 \in T
      PROVE  k \in T
  <2> SUFFICES ASSUME NEW g \in [0..k -> S], Recurs(next, start, k, g)
               PROVE  FALSE
    BY <1>2
  <2>1. k + 1 \in 1..n /\ g[k] \in S
    BY <1>2
  <2>2. PICK b \in S : b = next[<<k + 1, g[k]>>]
    BY <2>1
  <2> DEFINE h == [m \in 0..(k + 1) |-> IF m = k + 1 THEN b ELSE g[m]]
  <2>3. h \in [0..(k + 1) -> S] /\ h[0] = start
    BY <2>2 DEF Recurs
  <2>4. \A m \in 1..(k + 1) : h[m] = next[<<m, h[m - 1]>>]
    <3> SUFFICES ASSUME NEW m \in 1..(k + 1)
                 PROVE  h[m] = next[<<m, h[m - 1]>>]
      OBVIOUS
    <3>1. CASE m = k + 1
      <4>1. h[m] = b /\ h[m - 1] = g[k]
        BY <3>1
      <4>2. QED
        BY <2>2, <3>1, <4>1
    <3>2. CASE m \in 1..k
      <4>1. h[m] = g[m] /\ h[m - 1] = g[m - 1]
        BY <3>2
      <4>2. g[m] = next[<<m, g[m - 1]>>]
        BY <3>2 DEF Recurs
      <4>3. QED
        BY <3>2, <4>1, <4>2
    <3>3. QED
      BY <3>1, <3>2
  <2> HIDE DEF h
  <2>5. Recurs(next, start, k + 1, h)
    BY <2>3, <2>4 DEF Recurs
  <2>6. QED
    BY <1>2, <2>3, <2>5
<1>3. T = {}
  BY <1>1, <1>2, NoneFails
<1>4. QED
  BY <1>3

LEMMA SumsAre ==
  ASSUME NEW f \in [1..N -> Nat]
  PROVE  /\ Sums(f) \in [0..N -> Nat]
         /\ Sums(f)[0] = 0
         /\ \A m \in 1..N : Sums(f)[m] = Sums(f)[m - 1] + f[m]
<1> DEFINE Made(g) == [m \in 0..N |-> IF m = 0 THEN 0 ELSE g[m - 1] + f[m]]
           next    == [p \in (1..N) \X Nat |-> p[2] + f[p[1]]]
<1>1. N \in Nat /\ next \in [(1..N) \X Nat -> Nat]
  BY NoRequests
<1>2. PICK g \in [0..N -> Nat] : Recurs(next, 0, N, g)
  <2> HIDE DEF next
  <2>1. QED
    BY <1>1, RecursionExists
<1>3. g = Made(g)
  <2>1. ASSUME NEW m \in 1..N PROVE g[m] = g[m - 1] + f[m]
    <3>1. m - 1 \in 0..N /\ g[m - 1] \in Nat
      BY <1>1
    <3>2. next[<<m, g[m - 1]>>] = g[m - 1] + f[m]
      BY <3>1
    <3>3. g[m] = next[<<m, g[m - 1]>>]
      BY <1>2 DEF Recurs
    <3>4. QED
      BY <3>2, <3>3
  <2>2. g[0] = 0
    BY <1>2 DEF Recurs
  <2>3. QED
    BY <2>1, <2>2
<1>4. Sums(f) = CHOOSE h : h = Made(h)
  BY DEF Sums
<1>5. PICK h : h = Sums(f)
  OBVIOUS
<1>6. h = Made(h)
  <2> HIDE DEF Made
  <2>1. QED
    BY <1>3, <1>4, <1>5
<1>7. h[0] = 0 /\ \A m \in 1..N : h[m] = h[m - 1] + f[m]
  BY <1>1, <1>6
<1>8. \A m \in 0..N : h[m] \in Nat
  <2> DEFINE T == {m \in Nat : m <= N /\ h[m] \notin Nat}
  <2>1. 0 \notin T
    BY <1>7
  <2>2. ASSUME NEW m \in Nat, m + 1 \in T PROVE m \in T
    <3>1. m + 1 \in 1..N /\ (m + 1) - 1 = m /\ f[m + 1] \in Nat
      BY <2>2, <1>1
    <3>2. h[m + 1] = h[m] + f[m + 1]
      BY <1>7, <3>1
    <3>3. m <= N /\ h[m + 1] \notin Nat
      BY <1>1, <2>2
    <3>4. QED
      BY <3>1, <3>2, <3>3
  <2>3. T = {}
    BY <2>1, <2>2, NoneFails
  <2>4. QED
    BY <1>1, <2>3
<1>9. h \in [0..N -> Nat]
  BY <1>6, <1>8
<1>10. QED
  BY <1>5, <1>7, <1>9

LEMMA LeftIs ==
  ASSUME NEW top \in Nat, NEW gain \in [1..top -> Nat]
  PROVE  /\ Left(gain, top) \in [0..top -> [1..N -> Nat]]
         /\ \A i \in 1..N : Left(gain, top)[0][i] = 0
         /\ \A d \in 1..top, i \in 1..N :
              Left(gain, top)[d][i] = gain[d] + Sums(Left(gain, top)[d - 1])[i]
<1> DEFINE S         == [1..N -> Nat]
           Row(d, f) == [i \in 1..N |-> gain[d] + Sums(f)[i]]
           none      == [i \in 1..N |-> 0]
           Made(g)   == [d \in 0..top |-> IF d = 0 THEN none ELSE Row(d, g[d - 1])]
           next      == [p \in (1..top) \X S |-> Row(p[1], p[2])]
<1>1. ASSUME NEW d \in 1..top, NEW f \in S PROVE Row(d, f) \in S
  <2>1. \A i \in 1..N : Sums(f)[i] \in Nat
    BY SumsAre, NoRequests
  <2>2. gain[d] \in Nat
    OBVIOUS
  <2>3. QED
    BY <2>1, <2>2
<1>2. next \in [(1..top) \X S -> S] /\ none \in S
  <2> HIDE DEF Row, S
  <2>1. next \in [(1..top) \X S -> S]
    BY <1>1
  <2>2. none \in S
    BY DEF S
  <2>3. QED
    BY <2>1, <2>2
<1>3. PICK g \in [0..top -> S] : Recurs(next, none, top, g)
  <2> HIDE DEF next, S, none
  <2>1. QED
    BY <1>2, RecursionExists
<1>4. g = Made(g)
  <2> HIDE DEF Row, none, S
  <2>1. \A d \in 1..top : g[d] = Row(d, g[d - 1])
    <3>1. \A d \in 1..top : g[d - 1] \in S
      OBVIOUS
    <3>2. QED
      BY <1>3, <3>1 DEF Recurs
  <2>2. g[0] = none
    BY <1>3 DEF Recurs
  <2>3. QED
    BY <2>1, <2>2
<1>5. Left(gain, top) = CHOOSE h : h = Made(h)
  BY DEF Left
<1>6. PICK h : h = Left(gain, top)
  OBVIOUS
<1>7. h = Made(h)
  <2> HIDE DEF Made
  <2>1. QED
    BY <1>4, <1>5, <1>6
<1>8. h[0] = none /\ \A d \in 1..top : h[d] = Row(d, h[d - 1])
  <2> HIDE DEF Row, none
  <2>1. QED
    BY <1>7
<1>9. \A d \in 0..top : h[d] \in S
  <2> HIDE DEF Row, S, none
  <2> DEFINE T == {d \in Nat : d <= top /\ h[d] \notin S}
  <2>1. 0 \notin T
    BY <1>2, <1>8
  <2>2. ASSUME NEW d \in Nat, d + 1 \in T PROVE d \in T
    <3>1. d + 1 \in 1..top /\ (d + 1) - 1 = d
      BY <2>2
    <3>2. QED
      BY <1>1, <1>8, <2>2, <3>1
  <2>3. T = {}
    BY <2>1, <2>2, NoneFails
  <2>4. QED
    BY <2>3
<1>10. h \in [0..top -> S]
  <2> HIDE DEF Row, none, S
  <2>1. QED
    BY <1>7, <1>9
<1>11. \A i \in 1..N : h[0][i] = 0
  BY <1>8
<1>12. ASSUME NEW d \in 1..top, NEW i \in 1..N
       PROVE  h[d][i] = gain[d] + Sums(h[d - 1])[i]
  <2>1. h[d] = Row(d, h[d - 1])
    BY <1>8
  <2>2. Row(d, h[d - 1])[i] = gain[d] + Sums(h[d - 1])[i]
    OBVIOUS
  <2>3. QED
    BY <2>1, <2>2
<1>13. QED
  BY <1>6, <1>10, <1>11, <1>12

LEMMA LeftRow ==
  ASSUME NEW top \in Nat, NEW gain \in [1..top -> Nat], NEW d \in 0..top
  PROVE  /\ Left(gain, top)[d] \in [1..N -> Nat]
         /\ \A i \in 1..N : Left(gain, top)[d][i] \in Nat
         /\ \A m \in 0..N : Sums(Left(gain, top)[d])[m] \in Nat
         /\ Sums(Left(gain, top)[d])[0] = 0
         /\ \A m \in 1..N : Sums(Left(gain, top)[d])[m] =
              Sums(Left(gain, top)[d])[m - 1] + Left(gain, top)[d][m]
<1>1. Left(gain, top)[d] \in [1..N -> Nat]
  BY LeftIs
<1>2. QED
  BY <1>1, SumsAre

LEMMA SumsGrow ==
  ASSUME NEW f \in [1..N -> Nat], NEW g \in [1..N -> Nat], \A i \in 1..N : f[i] <= g[i]
  PROVE  \A m \in 0..N : Sums(f)[m] <= Sums(g)[m]
<1> DEFINE T == {m \in Nat : m <= N /\ ~(Sums(f)[m] <= Sums(g)[m])}
<1>1. N \in Nat /\ \A m \in 0..N : Sums(f)[m] \in Nat /\ Sums(g)[m] \in Nat
  BY NoRequests, SumsAre
<1>2. 0 \notin T
  BY SumsAre
<1>3. ASSUME NEW m \in Nat, m + 1 \in T PROVE m \in T
  <2>1. m + 1 \in 1..N /\ (m + 1) - 1 = m /\ m \in 0..N /\ m <= N
    BY <1>1, <1>3
  <2>2. Sums(f)[m + 1] = Sums(f)[m] + f[m + 1] /\ Sums(g)[m + 1] = Sums(g)[m] + g[m + 1]
    BY <2>1, SumsAre
  <2>3. f[m + 1] <= g[m + 1] /\ f[m + 1] \in Nat /\ g[m + 1] \in Nat
    BY <2>1
  <2>4. Sums(f)[m] \in Nat /\ Sums(g)[m] \in Nat
    BY <1>1, <2>1
  <2>5. ~(Sums(f)[m + 1] <= Sums(g)[m + 1])
    BY <1>3
  <2>6. ~(Sums(f)[m] <= Sums(g)[m])
    BY <2>2, <2>3, <2>4, <2>5
  <2>7. QED
    BY <2>1, <2>6
<1>4. T = {}
  BY <1>2, <1>3, NoneFails
<1>5. QED
  BY <1>1, <1>4

(* Further away there is no less left.                                     *)
LEMMA LeftGrows ==
  ASSUME NEW top \in Nat, NEW gain \in [1..top -> Nat],
         NEW d \in 0..top, NEW e \in 0..top, d <= e, NEW i \in 1..N
  PROVE  Left(gain, top)[d][i] <= Left(gain, top)[e][i]
<1> DEFINE left == Left(gain, top)
           T    == {k \in Nat : d + k <= top /\ ~(left[d][i] <= left[d + k][i])}
<1>1. \A k \in 0..top : left[k][i] \in Nat
  BY LeftRow
<1>2. 0 \notin T
  BY <1>1
<1>3. ASSUME NEW k \in Nat, k + 1 \in T PROVE k \in T
  <2>1. /\ d + k + 1 \in 1..top /\ d + k \in 0..top /\ (d + k + 1) - 1 = d + k
        /\ d + (k + 1) = d + k + 1
    BY <1>3
  <2>2. left[d + k + 1][i] = gain[d + k + 1] + Sums(left[d + k])[i]
    BY <2>1, LeftIs
  <2>3. /\ Sums(left[d + k])[i] = Sums(left[d + k])[i - 1] + left[d + k][i]
        /\ Sums(left[d + k])[i - 1] \in Nat
    <3>1. i - 1 \in 0..N
      BY NoRequests
    <3>2. QED
      BY <2>1, <3>1, LeftRow
  <2>4. gain[d + k + 1] \in Nat
    BY <2>1
  <2>5. /\ left[d + k][i] \in Nat /\ left[d][i] \in Nat /\ left[d + k + 1][i] \in Nat
        /\ ~(left[d][i] <= left[d + k + 1][i])
    <3> HIDE DEF left
    <3>1. d + k + 1 \in 0..top
      BY <2>1
    <3>2. left[d + k][i] \in Nat /\ left[d][i] \in Nat /\ left[d + k + 1][i] \in Nat
      BY <1>1, <2>1, <3>1
    <3>3. ~(left[d][i] <= left[d + (k + 1)][i])
      BY <1>3
    <3>4. QED
      BY <2>1, <3>2, <3>3
  <2> HIDE DEF left
  <2>6. ASSUME NEW a \in Nat, NEW b \in Nat, NEW c, NEW s \in Nat, NEW v \in Nat, NEW u \in Nat,
               c = s + b, u = v + c, ~(a <= u)
        PROVE  ~(a <= b)
    BY <2>6
  <2>7. ~(left[d][i] <= left[d + k][i])
    BY <2>2, <2>3, <2>4, <2>5, <2>6
  <2>8. QED
    BY <2>1, <2>7
<1>4. T = {}
  BY <1>2, <1>3, NoneFails
<1>5. e - d \in Nat /\ d + (e - d) = e /\ d + (e - d) <= top
  OBVIOUS
<1> HIDE DEF left
<1>6. e - d \notin T
  BY <1>4
<1>7. left[d][i] <= left[d + (e - d)][i]
  BY <1>5, <1>6
<1>8. left[d][i] <= left[e][i]
  BY <1>5, <1>7
<1>9. QED
  BY <1>8 DEF left

(* One term gives way to as much as the sum of others up to its place.     *)
LEMMA SumGivesWay ==
  ASSUME NEW f \in [1..N -> Nat], NEW g \in [1..N -> Nat], NEW w \in [1..N -> Nat],
         NEW q \in 1..N, NEW x \in Nat,
         \A i \in 1..(q - 1) : g[i] <= f[i] + w[i],
         g[q] <= w[q],
         f[q] = x + Sums(w)[q],
         \A i \in (q + 1)..N : g[i] <= f[i]
  PROVE  Sums(g)[N] + x <= Sums(f)[N]
<1> DEFINE F == Sums(f)
           G == Sums(g)
           W == Sums(w)
<1>1. /\ N \in Nat
      /\ \A m \in 0..N : F[m] \in Nat /\ G[m] \in Nat /\ W[m] \in Nat
      /\ F[0] = 0 /\ G[0] = 0 /\ W[0] = 0
      /\ \A m \in 1..N : F[m] = F[m - 1] + f[m] /\ G[m] = G[m - 1] + g[m] /\ W[m] = W[m - 1] + w[m]
  BY NoRequests, SumsAre
<1>2. f[q] = x + W[q]
  OBVIOUS
<1>3. \A i \in 1..N : f[i] \in Nat /\ g[i] \in Nat /\ w[i] \in Nat
  OBVIOUS
<1> HIDE DEF F, G, W
<1>4. \A m \in 0..(q - 1) : G[m] <= F[m] + W[m]
  <2> DEFINE T == {m \in Nat : m <= q - 1 /\ ~(G[m] <= F[m] + W[m])}
  <2>1. 0 \notin T
    BY <1>1
  <2>2. ASSUME NEW m \in Nat, m + 1 \in T PROVE m \in T
    <3>1. /\ m + 1 \in 1..N /\ (m + 1) - 1 = m /\ m \in 0..N /\ m + 1 \in 1..(q - 1)
          /\ m <= q - 1
      BY <1>1, <2>2
    <3>2. /\ F[m + 1] = F[m] + f[m + 1] /\ G[m + 1] = G[m] + g[m + 1]
          /\ W[m + 1] = W[m] + w[m + 1] /\ g[m + 1] <= f[m + 1] + w[m + 1]
      BY <1>1, <3>1
    <3>3. /\ F[m] \in Nat /\ G[m] \in Nat /\ W[m] \in Nat
          /\ f[m + 1] \in Nat /\ g[m + 1] \in Nat /\ w[m + 1] \in Nat
      BY <1>1, <1>3, <3>1
    <3>4. ~(G[m + 1] <= F[m + 1] + W[m + 1])
      BY <2>2
    <3>5. ~(G[m] <= F[m] + W[m])
      BY <3>2, <3>3, <3>4
    <3>6. QED
      BY <3>1, <3>5
  <2>3. T = {}
    BY <2>1, <2>2, NoneFails
  <2>4. ASSUME NEW m \in 0..(q - 1) PROVE G[m] <= F[m] + W[m]
    <3>1. m \in Nat /\ m <= q - 1
      BY <1>1
    <3>2. m \notin T
      BY <2>3
    <3>3. QED
      BY <3>1, <3>2
  <2>5. QED
    BY <2>4
<1>5. G[q] + x <= F[q]
  <2>1. q - 1 \in 0..(q - 1) /\ q - 1 \in 0..N /\ q \in 0..N
    BY <1>1
  <2>2. G[q - 1] <= F[q - 1] + W[q - 1]
    BY <1>4, <2>1
  <2>3. /\ F[q] = F[q - 1] + f[q] /\ G[q] = G[q - 1] + g[q] /\ W[q] = W[q - 1] + w[q]
    BY <1>1
  <2>4. /\ F[q - 1] \in Nat /\ G[q - 1] \in Nat /\ W[q - 1] \in Nat
        /\ f[q] \in Nat /\ g[q] \in Nat /\ w[q] \in Nat
    BY <1>1, <1>3, <2>1
  <2>5. g[q] <= w[q] /\ x \in Nat
    OBVIOUS
  <2>6. F[q] = F[q - 1] + x + W[q - 1] + w[q]
    BY <1>2, <2>3, <2>4, <2>5
  <2>7. ASSUME NEW a \in Nat, NEW b \in Nat, NEW c \in Nat, NEW u \in Nat, NEW v \in Nat,
               NEW y \in Nat, a <= b + c, u <= v
        PROVE  (a + u) + y <= b + y + c + v
    BY <2>7
  <2>8. (G[q - 1] + g[q]) + x <= F[q - 1] + x + W[q - 1] + w[q]
    BY <2>2, <2>4, <2>5, <2>7
  <2>9. G[q] = G[q - 1] + g[q]
    BY <2>3
  <2>10. QED
    BY <2>6, <2>8, <2>9
<1>6. \A k \in 0..(N - q) : G[q + k] + x <= F[q + k]
  <2> DEFINE T == {k \in Nat : k <= N - q /\ ~(G[q + k] + x <= F[q + k])}
  <2>1. 0 \notin T
    BY <1>5
  <2>2. ASSUME NEW k \in Nat, k + 1 \in T PROVE k \in T
    <3>1. /\ q + k + 1 \in 1..N /\ (q + k + 1) - 1 = q + k /\ q + k \in 0..N
          /\ q + k + 1 \in (q + 1)..N /\ q + (k + 1) = q + k + 1 /\ k <= N - q
      BY <1>1, <2>2
    <3>2. /\ F[q + k + 1] = F[q + k] + f[q + k + 1] /\ G[q + k + 1] = G[q + k] + g[q + k + 1]
          /\ g[q + k + 1] <= f[q + k + 1]
      BY <1>1, <3>1
    <3>3. F[q + k] \in Nat /\ G[q + k] \in Nat /\ f[q + k + 1] \in Nat /\ g[q + k + 1] \in Nat
      BY <1>1, <1>3, <3>1
    <3>4. ~(G[q + k + 1] + x <= F[q + k + 1])
      BY <2>2, <3>1
    <3>5. ~(G[q + k] + x <= F[q + k])
      BY <3>2, <3>3, <3>4
    <3>6. QED
      BY <3>1, <3>5
  <2>3. T = {}
    BY <2>1, <2>2, NoneFails
  <2>4. ASSUME NEW k \in 0..(N - q) PROVE G[q + k] + x <= F[q + k]
    <3>1. k \in Nat /\ k <= N - q
      BY <1>1
    <3>2. k \notin T
      BY <2>3
    <3>3. QED
      BY <3>1, <3>2
  <2>5. QED
    BY <2>4
<1>7. N - q \in 0..(N - q) /\ q + (N - q) = N
  BY <1>1
<1>8. G[N] + x <= F[N]
  BY <1>6, <1>7
<1>9. QED
  BY <1>8 DEF F, G
---------------------------------------------------------------------------
(* What requests do together                                               *)

LEMMA OrderIs ==
  ASSUME NEW order \in Orders
  PROVE  /\ order \in [1..N -> Requests]
         /\ \A i, j \in 1..N : order[i] = order[j] => i = j
         /\ \A r \in Requests : \E i \in 1..N : order[i] = r
BY DEF Orders, Bijection, Injection, Surjection, IsInjective

LEMMA OrderOf ==
  ASSUME NEW order \in [1..N -> Requests],
         \A i, j \in 1..N : order[i] = order[j] => i = j,
         \A r \in Requests : \E i \in 1..N : order[i] = r
  PROVE  order \in Orders
BY DEF Orders, Bijection, Injection, Surjection, IsInjective

LEMMA SomeOrder == \E order : order \in Orders
BY AuthBoundsAssumption, FS_CardinalityType DEF Orders, N, ExistsBijection

LEMMA Swapped ==
  ASSUME NEW order \in Orders, NEW p \in 1..N, NEW q \in 1..N
  PROVE  [i \in 1..N |-> IF i = p THEN order[q] ELSE IF i = q THEN order[p] ELSE order[i]]
           \in Orders
<1> DEFINE other == [i \in 1..N |-> IF i = p THEN order[q] ELSE IF i = q THEN order[p]
                                    ELSE order[i]]
<1>1. /\ order \in [1..N -> Requests]
      /\ \A i, j \in 1..N : order[i] = order[j] => i = j
      /\ \A r \in Requests : \E i \in 1..N : order[i] = r
  BY OrderIs
<1>2. other \in [1..N -> Requests]
  BY <1>1
<1>3. \A i, j \in 1..N : other[i] = other[j] => i = j
  BY <1>1
<1>4. \A r \in Requests : \E i \in 1..N : other[i] = r
  <2> SUFFICES ASSUME NEW r \in Requests PROVE \E i \in 1..N : other[i] = r
    OBVIOUS
  <2>1. PICK i \in 1..N : order[i] = r
    BY <1>1
  <2>2. CASE i = p
    <3>1. other[q] = r
      BY <2>1, <2>2
    <3>2. QED
      BY <3>1
  <2>3. CASE i = q
    BY <2>1, <2>3
  <2>4. CASE i # p /\ i # q
    BY <2>1, <2>4
  <2>5. QED
    BY <2>2, <2>3, <2>4
<1> HIDE DEF other
<1>5. other \in Orders
  BY <1>2, <1>3, <1>4, OrderOf
<1>6. QED
  BY <1>5 DEF other

(* The terms of a sum taken in an order.                                   *)
Terms(left, away, order) == [i \in 1..N |-> left[away[order[i]]][i]]

LEMMA TermsAre ==
  ASSUME NEW top \in Nat, NEW gain \in [1..top -> Nat], NEW away \in [Requests -> 0..top],
         NEW order \in Orders
  PROVE  /\ Terms(Left(gain, top), away, order) \in [1..N -> Nat]
         /\ \A i \in 1..N : Terms(Left(gain, top), away, order)[i] =
                              Left(gain, top)[away[order[i]]][i]
         /\ Together(Left(gain, top), away, order) = Sums(Terms(Left(gain, top), away, order))[N]
         /\ Together(Left(gain, top), away, order) \in Nat
<1>1. \A i \in 1..N : away[order[i]] \in 0..top
  BY OrderIs
<1>2. \A i \in 1..N : Left(gain, top)[away[order[i]]][i] \in Nat
  BY <1>1, LeftRow
<1>3. Terms(Left(gain, top), away, order) \in [1..N -> Nat]
  BY <1>2 DEF Terms
<1>4. Together(Left(gain, top), away, order) = Sums(Terms(Left(gain, top), away, order))[N]
  BY DEF Together, Terms
<1>5. N \in 0..N
  BY NoRequests
<1>6. QED
  BY <1>3, <1>4, <1>5, SumsAre DEF Terms

(* Nobody further away than before.                                        *)
LEMMA TogetherShrinks ==
  ASSUME NEW top \in Nat, NEW gain \in [1..top -> Nat],
         NEW away \in [Requests -> 0..top], NEW later \in [Requests -> 0..top],
         \A s \in Requests : later[s] <= away[s],
         NEW order \in Orders
  PROVE  Together(Left(gain, top), later, order) <= Together(Left(gain, top), away, order)
<1> DEFINE f == Terms(Left(gain, top), away, order)
           g == Terms(Left(gain, top), later, order)
<1>1. ASSUME NEW i \in 1..N PROVE g[i] <= f[i]
  <2>1. order[i] \in Requests
    BY OrderIs
  <2>2. /\ later[order[i]] \in 0..top /\ away[order[i]] \in 0..top
        /\ later[order[i]] <= away[order[i]]
    BY <2>1
  <2>3. Left(gain, top)[later[order[i]]][i] <= Left(gain, top)[away[order[i]]][i]
    BY <2>2, LeftGrows
  <2>4. QED
    BY <2>3, TermsAre
<1>2. f \in [1..N -> Nat] /\ g \in [1..N -> Nat] /\ N \in 0..N
  <2>1. f \in [1..N -> Nat] /\ g \in [1..N -> Nat]
    BY TermsAre
  <2>2. QED
    BY <2>1, NoRequests
<1> HIDE DEF f, g
<1>3. Sums(g)[N] <= Sums(f)[N]
  BY <1>1, <1>2, SumsGrow
<1>4. QED
  BY <1>3, TermsAre DEF f, g

LEMMA TogetherBounded ==
  ASSUME NEW top \in Nat, NEW gain \in [1..top -> Nat],
         NEW away \in [Requests -> 0..top], NEW order \in Orders
  PROVE  Together(Left(gain, top), away, order) <= Sums(Left(gain, top)[top])[N]
<1> DEFINE f == Terms(Left(gain, top), away, order)
           g == Left(gain, top)[top]
<1>1. ASSUME NEW i \in 1..N PROVE f[i] <= g[i]
  <2>1. order[i] \in Requests
    BY OrderIs
  <2>2. away[order[i]] \in 0..top /\ away[order[i]] <= top /\ top \in 0..top
    BY <2>1
  <2>3. Left(gain, top)[away[order[i]]][i] <= Left(gain, top)[top][i]
    BY <2>2, LeftGrows
  <2>4. QED
    BY <2>3, TermsAre
<1>2. f \in [1..N -> Nat] /\ g \in [1..N -> Nat] /\ N \in 0..N
  <2>1. f \in [1..N -> Nat]
    BY TermsAre
  <2>2. g \in [1..N -> Nat]
    <3>1. top \in 0..top
      OBVIOUS
    <3>2. QED
      BY <3>1, LeftRow
  <2>3. QED
    BY <2>1, <2>2, NoRequests
<1> HIDE DEF f, g
<1>3. Sums(f)[N] <= Sums(g)[N]
  BY <1>1, <1>2, SumsGrow
<1>4. QED
  BY <1>3, TermsAre DEF f, g

(* A request writes: what it leaves to itself and to whoever reads what it *)
(* wrote is one write less than what it had; with its own it is no more.   *)
LEMMA TogetherStep ==
  ASSUME NEW top \in Nat, NEW gain \in [1..top -> Nat],
         NEW away \in [Requests -> 0..top], NEW later \in [Requests -> 0..top],
         NEW r \in Requests, away[r] # 0,
         later[r] <= away[r] - 1,
         \A s \in Requests : later[s] <= away[s] \/ later[s] <= away[r] - 1,
         NEW order \in Orders
  PROVE  \E other \in Orders :
           Together(Left(gain, top), later, order) + gain[away[r]]
             <= Together(Left(gain, top), away, other)
<1> DEFINE left == Left(gain, top)
           d    == away[r]
<1>1. d \in 1..top /\ d - 1 \in 0..top /\ d \in 0..top
  OBVIOUS
<1>2. /\ order \in [1..N -> Requests] /\ N \in Nat
      /\ \A i, j \in 1..N : order[i] = order[j] => i = j
  BY OrderIs, NoRequests
<1>3. PICK p \in 1..N : order[p] = r
  BY OrderIs
<1> DEFINE Up == {i \in 1..N : i = p \/ away[order[i]] < later[order[i]]}
           T  == {k \in Nat : k <= N /\ N - k \in Up}
<1>4. PICK q \in Up : \A i \in Up : i <= q
  <2>1. N - p \in T
    BY <1>2
  <2>2. PICK k \in T : \A l \in T : k <= l
    BY <2>1, LeastOf
  <2>3. N - k \in Up
    BY <2>2
  <2>4. ASSUME NEW i \in Up PROVE i <= N - k
    <3>1. N - i \in Nat /\ N - i <= N /\ N - (N - i) = i /\ i \in Nat
      BY <1>2
    <3>2. N - i \in T
      BY <3>1
    <3>3. k <= N - i /\ k \in Nat
      BY <2>2, <3>2
    <3>4. QED
      BY <1>2, <3>1, <3>3
  <2>5. QED
    BY <2>3, <2>4
<1>5. q \in 1..N /\ p <= q
  BY <1>4
<1> DEFINE other == [i \in 1..N |-> IF i = p THEN order[q] ELSE IF i = q THEN order[p]
                                    ELSE order[i]]
<1>6. other \in Orders
  BY <1>5, Swapped
<1>7. other \in [1..N -> Requests] /\ other[q] = r /\ \A i \in 1..N : i # p /\ i # q => other[i] = order[i]
  BY <1>2, <1>3, <1>5
<1> HIDE DEF other
<1> DEFINE f == Terms(left, away, other)
           g == Terms(left, later, order)
           w == left[d - 1]
<1>8. f \in [1..N -> Nat] /\ g \in [1..N -> Nat] /\ w \in [1..N -> Nat]
  BY <1>1, <1>6, TermsAre, LeftRow
<1>9. \A i \in 1..N : f[i] = left[away[other[i]]][i] /\ g[i] = left[later[order[i]]][i]
  BY <1>6, TermsAre
<1>10. ASSUME NEW i \in 1..N, later[order[i]] <= d - 1 PROVE g[i] <= w[i]
  <2>1. later[order[i]] \in 0..top
    BY <1>2
  <2>2. left[later[order[i]]][i] <= left[d - 1][i]
    BY <1>1, <1>10, <2>1, LeftGrows
  <2>3. QED
    BY <1>9, <2>2
<1>11. ASSUME NEW i \in 1..N, i # p, i # q, later[order[i]] <= away[order[i]] PROVE g[i] <= f[i]
  <2>1. later[order[i]] \in 0..top /\ away[order[i]] \in 0..top /\ other[i] = order[i]
    BY <1>2, <1>7, <1>11
  <2>2. left[later[order[i]]][i] <= left[away[order[i]]][i]
    BY <1>11, <2>1, LeftGrows
  <2>3. QED
    BY <1>9, <2>1, <2>2
<1>12. \A i \in 1..N : f[i] \in Nat /\ g[i] \in Nat /\ w[i] \in Nat
  BY <1>8
<1>13. /\ \A i \in 1..N : order[i] \in Requests
       /\ \A i \in 1..N : later[order[i]] \in Int /\ away[order[i]] \in Int
  BY <1>2
<1>14. f[q] = gain[d] + Sums(w)[q]
  <2>1. f[q] = left[d][q]
    BY <1>5, <1>7, <1>9
  <2>2. left[d][q] = gain[d] + Sums(left[d - 1])[q]
    BY <1>1, <1>5, LeftIs
  <2>3. QED
    BY <2>1, <2>2
<1>15. gain[d] \in Nat
  BY <1>1
<1>16. g[q] <= w[q]
  <2>1. later[order[q]] <= d - 1
    <3>1. CASE q = p
      BY <1>3, <3>1
    <3>2. CASE q # p
      <4>1. away[order[q]] < later[order[q]]
        BY <1>4, <3>2
      <4>2. QED
        BY <1>5, <1>13, <4>1
    <3>3. QED
      BY <3>1, <3>2
  <2>2. QED
    BY <1>5, <1>10, <2>1
<1>17. ASSUME NEW i \in 1..(q - 1) PROVE g[i] <= f[i] + w[i]
  <2>1. i \in 1..N /\ i # q
    BY <1>2, <1>5
  <2>2. CASE later[order[i]] <= d - 1
    <3>1. g[i] <= w[i] /\ f[i] \in Nat /\ g[i] \in Nat /\ w[i] \in Nat
      BY <1>10, <1>12, <2>1, <2>2
    <3> HIDE DEF f, g, w
    <3>2. QED
      BY <3>1
  <2>3. CASE ~(later[order[i]] <= d - 1)
    <3>1. i # p
      BY <1>3, <2>3
    <3>2. later[order[i]] <= away[order[i]]
      BY <1>13, <2>1, <2>3
    <3>3. g[i] <= f[i] /\ f[i] \in Nat /\ g[i] \in Nat /\ w[i] \in Nat
      BY <1>11, <1>12, <2>1, <3>1, <3>2
    <3> HIDE DEF f, g, w
    <3>4. QED
      BY <3>3
  <2>4. QED
    BY <2>2, <2>3
<1>18. ASSUME NEW i \in (q + 1)..N PROVE g[i] <= f[i]
  <2>1. i \in 1..N /\ i # q /\ i # p /\ ~(i <= q)
    BY <1>5
  <2>2. i \notin Up
    BY <1>4, <2>1
  <2>3. ~(away[order[i]] < later[order[i]])
    BY <2>1, <2>2
  <2>4. later[order[i]] <= away[order[i]]
    BY <1>13, <2>1, <2>3
  <2>5. QED
    BY <1>11, <2>1, <2>4
<1> HIDE DEF f, g, w
<1>19. Sums(g)[N] + gain[d] <= Sums(f)[N]
  BY <1>5, <1>8, <1>14, <1>15, <1>16, <1>17, <1>18, SumGivesWay
<1>20. Sums(g)[N] = Together(left, later, order) /\ Sums(f)[N] = Together(left, away, other)
  BY <1>6, TermsAre DEF f, g
<1>21. QED
  BY <1>6, <1>19, <1>20
---------------------------------------------------------------------------
(* Refused tries                                                           *)

LEMMA AwayRange ==
  ASSUME NEW attempts \in Nat
  PROVE  Away(attempts) \in Nat \ {0} /\ Away(attempts) <= MAX_LOGIN_ATTEMPTS
BY AttemptsAssumption DEF Away

TriesGain == [d \in 1..MAX_LOGIN_ATTEMPTS |-> 1]

LEMMA TriesLeftIs ==
  /\ MAX_LOGIN_ATTEMPTS \in Nat
  /\ TriesGain \in [1..MAX_LOGIN_ATTEMPTS -> Nat]
  /\ \A d \in 1..MAX_LOGIN_ATTEMPTS : TriesGain[d] = 1
  /\ TriesLeft = Left(TriesGain, MAX_LOGIN_ATTEMPTS)
  /\ TriesBound = Sums(TriesLeft[MAX_LOGIN_ATTEMPTS])[N]
BY AttemptsAssumption DEF TriesGain, TriesLeft, TriesBound

LEMMA TriesBoundIs == TriesBound \in Nat
<1>1. N \in 0..N /\ MAX_LOGIN_ATTEMPTS \in 0..MAX_LOGIN_ATTEMPTS
  BY NoRequests, TriesLeftIs
<1>2. QED
  BY <1>1, TriesLeftIs, LeftRow

LEMMA TriesAwayIs == Kept => TriesAway \in [Requests -> 0..MAX_LOGIN_ATTEMPTS]
<1> SUFFICES ASSUME Kept PROVE TriesAway \in [Requests -> 0..MAX_LOGIN_ATTEMPTS]
  OBVIOUS
<1>1. /\ Away(admin.failedAttempts) \in 0..MAX_LOGIN_ATTEMPTS /\ 0 \in 0..MAX_LOGIN_ATTEMPTS
      /\ \A p \in Requests : Refusal(req[p]) => Away(req[p].attempts) \in 0..MAX_LOGIN_ATTEMPTS
  <2>1. /\ admin.failedAttempts \in Nat
        /\ \A p \in Requests : Refusal(req[p]) => req[p].attempts \in Nat
    BY AdminFields, AuthShape DEF Kept, AuthTypeOK
  <2>2. QED
    BY <2>1, AwayRange, AttemptsAssumption
<1>2. QED
  BY <1>1 DEF TriesAway

(* Once a success or an expired lock has started the count anew, whatever  *)
(* stale requests are about.                                               *)
LEMMA TriesReset ==
  ASSUME Kept', wrong' = 0
  PROVE  TriesSound'
<1> SUFFICES ASSUME NEW order \in Orders
             PROVE  wrong' + Together(TriesLeft, TriesAway', order) <= TriesBound
  BY DEF TriesSound
<1>1. TriesAway' \in [Requests -> 0..MAX_LOGIN_ATTEMPTS]
  <2>1. Kept' => (TriesAway \in [Requests -> 0..MAX_LOGIN_ATTEMPTS])'
    BY TriesAwayIs, PTL
  <2>2. QED
    BY <2>1
<1>2. Together(TriesLeft, TriesAway', order) <= TriesBound
  BY <1>1, TriesLeftIs, TogetherBounded
<1>3. Together(TriesLeft, TriesAway', order) \in Nat
  BY <1>1, TriesLeftIs, TermsAre
<1>4. QED
  BY <1>2, <1>3

(* A step that leaves the counter, and no request further from the lock    *)
(* than it was: it ends no refusal, and where it begins one the counter    *)
(* has just been read.                                                     *)
LEMMA TriesStay ==
  ASSUME Kept, Kept', TriesSound, wrong' = wrong,
         admin'.failedAttempts = admin.failedAttempts, admin'.locked = admin.locked,
         \A p \in Requests : \/ req'[p] = req[p]
                             \/ ~Refusal(req[p]) /\ ~Refusal(req'[p])
                             \/ ~Refusal(req[p]) /\ ~admin.locked /\ req'[p] = Refusing
  PROVE  TriesSound'
<1> SUFFICES ASSUME NEW order \in Orders
             PROVE  wrong' + Together(TriesLeft, TriesAway', order) <= TriesBound
  BY DEF TriesSound
<1>1. /\ TriesAway \in [Requests -> 0..MAX_LOGIN_ATTEMPTS]
      /\ TriesAway' \in [Requests -> 0..MAX_LOGIN_ATTEMPTS]
  <2>1. Kept' => (TriesAway \in [Requests -> 0..MAX_LOGIN_ATTEMPTS])'
    BY TriesAwayIs, PTL
  <2>2. QED
    BY <2>1, TriesAwayIs
<1>2. Refusal(Refusing) /\ Refusing.attempts = admin.failedAttempts
  BY DEF Refusing, Refusal
<1>3. ASSUME NEW s \in Requests PROVE TriesAway'[s] <= TriesAway[s]
  <2>1. TriesAway'[s] = TriesAway[s]
    BY <1>2 DEF TriesAway, Refusal
  <2>2. QED
    BY <1>1, <2>1
<1>4. Together(TriesLeft, TriesAway', order) <= Together(TriesLeft, TriesAway, order)
  BY <1>1, <1>3, TriesLeftIs, TogetherShrinks
<1>5. wrong + Together(TriesLeft, TriesAway, order) <= TriesBound
  BY DEF TriesSound
<1>6. /\ Together(TriesLeft, TriesAway', order) \in Nat
      /\ Together(TriesLeft, TriesAway, order) \in Nat
      /\ wrong \in Nat
  BY <1>1, TriesLeftIs, TermsAre DEF Kept, AuthTypeOK
<1>7. TriesBound \in Int
  BY TriesBoundIs
<1>8. QED
  BY <1>4, <1>5, <1>6, <1>7

(* The try is refused: the account is locked, or its counter is one step   *)
(* nearer to the lock than the stale read was.                             *)
LEMMA TriesEnd ==
  ASSUME Kept, Kept', TriesSound, NEW r \in Requests, Refuse(r)
  PROVE  TriesSound'
<1> DEFINE d == Away(req[r].attempts)
           M == MAX_LOGIN_ATTEMPTS
<1> SUFFICES ASSUME NEW order \in Orders
             PROVE  wrong' + Together(TriesLeft, TriesAway', order) <= TriesBound
  BY DEF TriesSound
<1>1. /\ TriesAway \in [Requests -> 0..MAX_LOGIN_ATTEMPTS]
      /\ TriesAway' \in [Requests -> 0..MAX_LOGIN_ATTEMPTS]
  <2>1. Kept' => (TriesAway \in [Requests -> 0..MAX_LOGIN_ATTEMPTS])'
    BY TriesAwayIs, PTL
  <2>2. QED
    BY <2>1, TriesAwayIs
<1>2. /\ Refusal(req[r]) /\ req \in [Requests -> Req] /\ req'[r] = Idle /\ ~Refusal(Idle)
      /\ \A o \in Requests \ {r} : req'[o] = req[o]
      /\ req[r].attempts \in Nat /\ wrong' = wrong + 1 /\ wrong \in Nat
  BY AuthShape, AuthIdle DEF Kept, AuthTypeOK, Refuse, Refusal, Goto
<1>3. d \in 1..M /\ TriesAway[r] = d
  BY <1>2, AwayRange DEF TriesAway
<1>4. \/ d = 1 /\ admin'.locked
      \/ d > 1 /\ ~admin'.locked /\ Away(admin'.failedAttempts) = d - 1
  <2>1. admin' = Refused(admin, req[r].attempts) /\ admin \in Admin
    BY DEF Refuse, Kept, AuthTypeOK
  <2>2. CASE req[r].attempts + 1 >= M
    <3>1. admin'.locked
      BY <1>2, <2>1, <2>2, RefusedRow
    <3>2. d = 1
      BY <1>2, <2>2, AttemptsAssumption DEF Away
    <3>3. QED
      BY <3>1, <3>2
  <2>3. CASE req[r].attempts + 1 < M
    <3>1. admin'.failedAttempts = req[r].attempts + 1
      BY <1>2, <2>1, <2>3, RefusedRow
    <3>2. d > 1 /\ Away(admin'.failedAttempts) = d - 1
      BY <1>2, <2>3, <3>1, AttemptsAssumption DEF Away
    <3>3. ~admin'.locked
      BY <1>2, <2>1, <2>3, RefusedRow
    <3>4. QED
      BY <3>2, <3>3
  <2>4. QED
    BY <1>2, <2>2, <2>3, AttemptsAssumption
<1>5. \A s \in Requests : ~Refusal(req'[s]) => TriesAway'[s] = d - 1
  BY <1>3, <1>4 DEF TriesAway
<1>6. \A s \in Requests : Refusal(req'[s]) => TriesAway'[s] = TriesAway[s]
  BY <1>2 DEF TriesAway
<1>7. \A s \in Requests : TriesAway'[s] <= TriesAway[s] \/ TriesAway'[s] <= TriesAway[r] - 1
  BY <1>1, <1>3, <1>5, <1>6
<1>8. TriesAway'[r] <= TriesAway[r] - 1 /\ TriesAway[r] # 0
  BY <1>2, <1>3, <1>5
<1>9. PICK other \in Orders :
        Together(TriesLeft, TriesAway', order) + TriesGain[TriesAway[r]]
          <= Together(TriesLeft, TriesAway, other)
  BY <1>1, <1>7, <1>8, TriesLeftIs, TogetherStep
<1>10. TriesGain[TriesAway[r]] = 1
  BY <1>3, TriesLeftIs
<1>11. wrong + Together(TriesLeft, TriesAway, other) <= TriesBound
  BY DEF TriesSound
<1>12. /\ Together(TriesLeft, TriesAway', order) \in Nat
       /\ Together(TriesLeft, TriesAway, other) \in Nat
  BY <1>1, TriesLeftIs, TermsAre
<1>13. TriesBound \in Int
  BY TriesBoundIs
<1>14. QED
  BY <1>2, <1>9, <1>10, <1>11, <1>12, <1>13

LEMMA TriesStep ==
  ASSUME Kept, TriesSound, [Next]_vars, Kept'
  PROVE  TriesSound'
<1>1. req \in [Requests -> Req] /\ admin \in Admin
  BY DEF Kept, AuthTypeOK
<1>2. ASSUME NEW r \in Requests, NEW l, Goto(r, l), ~Refusal(req[r]), ~Refusal(l),
             wrong' = wrong, admin'.failedAttempts = admin.failedAttempts,
             admin'.locked = admin.locked
      PROVE  TriesSound'
  BY <1>1, <1>2, TriesStay DEF Goto
<1>3. ASSUME NEW r \in Requests, Goto(r, Refusing), ~Refusal(req[r]), ~admin.locked,
             wrong' = wrong, admin' = admin
      PROVE  TriesSound'
  BY <1>1, <1>3, TriesStay DEF Goto
<1>4. CASE Tick \/ TokenExpires \/ Disable \/ UNCHANGED vars
  <2>1. /\ req' = req /\ wrong' = wrong /\ admin'.failedAttempts = admin.failedAttempts
        /\ admin'.locked = admin.locked
    BY <1>1, <1>4 DEF Tick, TokenExpires, Disable, vars, Admin
  <2>2. QED
    BY <2>1, TriesStay
<1>5. CASE LockExpires
  BY <1>5, TriesReset DEF LockExpires
<1>6. ASSUME NEW r \in Requests, Login(r) PROVE TriesSound'
  <2>1. ASSUME NEW p \in Passwords, LoginRead(r, p) PROVE TriesSound'
    <3>1. ~Refusal(req[r]) /\ ~admin.locked /\ admin' = admin /\ wrong' = wrong
      BY <2>1, AuthIdle DEF LoginRead, Arriving, OnlyReq
    <3>2. ~Refusal([pc |-> "login.ok"])
      BY DEF Refusal
    <3>3. CASE p = admin.password
      BY <1>2, <2>1, <3>1, <3>2, <3>3 DEF LoginRead
    <3>4. CASE p # admin.password
      BY <1>3, <2>1, <3>1, <3>4 DEF LoginRead
    <3>5. QED
      BY <3>3, <3>4
  <2>2. QED
    BY <1>6, <2>1, TriesReset DEF Login, LoginOk
<1>7. ASSUME NEW r \in Requests, Enroll(r) PROVE TriesSound'
  <2>1. CASE EnrollRead(r)
    BY <1>2, <2>1, AuthIdle DEF EnrollRead, Arriving, OnlyReq, Refusal
  <2>2. CASE EnrollWrite(r)
    BY <1>1, <1>2, <2>2, AuthIdle DEF EnrollWrite, Refusal, Admin
  <2>3. QED
    BY <1>7, <2>1, <2>2 DEF Enroll
<1>8. ASSUME NEW r \in Requests, Verify(r) PROVE TriesSound'
  <2>1. ASSUME NEW c, TotpRead(r, c) PROVE TriesSound'
    <3>1. ~Refusal(req[r]) /\ ~admin.locked /\ admin' = admin /\ wrong' = wrong
      BY <2>1, AuthIdle DEF TotpRead, Arriving, OnlyReq
    <3>2. ~Refusal([pc |-> "totp.ok", code |-> c])
      BY DEF Refusal
    <3>3. CASE verifyTotpCode(c, admin)
      BY <1>2, <2>1, <3>1, <3>2, <3>3 DEF TotpRead
    <3>4. CASE ~verifyTotpCode(c, admin)
      BY <1>3, <2>1, <3>1, <3>4 DEF TotpRead
    <3>5. QED
      BY <3>3, <3>4
  <2>2. QED
    BY <1>8, <2>1, TriesReset DEF Verify, TotpOk
<1>9. ASSUME NEW r \in Requests, Change(r) PROVE TriesSound'
  <2>1. CASE GuardPasses(r)
    BY <1>2, <2>1, AuthIdle DEF GuardPasses, Arriving, OnlyReq, Refusal
  <2>2. ASSUME NEW p \in Passwords, NEW q \in Passwords, PasswordRead(r, p, q) PROVE TriesSound'
    <3>1. ~Refusal([pc |-> "change", next |-> q]) /\ ~Refusal(req[r])
      BY <2>2 DEF PasswordRead, Refusal
    <3>2. QED
      BY <1>2, <2>2, <3>1, AuthIdle DEF PasswordRead, OnlyReq
  <2>3. CASE PasswordWrite(r)
    BY <1>1, <1>2, <2>3, AuthIdle DEF PasswordWrite, Refusal, Admin
  <2>4. QED
    BY <1>9, <2>1, <2>2, <2>3 DEF Change
<1>10. QED
  BY <1>4, <1>5, <1>6, <1>7, <1>8, <1>9, TriesEnd DEF Next
---------------------------------------------------------------------------
(* Sessions opened with one code                                           *)

SessionsGain == [d \in 1..3 |-> IF d = 1 THEN 1 ELSE 0]

LEMMA SessionsLeftIs ==
  /\ SessionsGain \in [1..3 -> Nat]
  /\ \A d \in 1..3 : SessionsGain[d] = IF d = 1 THEN 1 ELSE 0
  /\ SessionsLeft = Left(SessionsGain, 3)
BY DEF SessionsGain, SessionsLeft

(* Three, two or one write away, the i-th request adds i * (i + 1) / 2, i  *)
(* or 1; all together are the tetrahedral number of SessionsBound.         *)
LEMMA SessionsBoundIs ==
  /\ SessionsBound \in Nat
  /\ SessionsBound = Sums(SessionsLeft[3])[N]
<1> DEFINE one   == SessionsLeft[1]
           two   == SessionsLeft[2]
           three == SessionsLeft[3]
<1>1. /\ N \in Nat
      /\ \A i \in 1..N : one[i] = 1 + Sums(SessionsLeft[0])[i]
      /\ \A i \in 1..N : two[i] = Sums(one)[i]
      /\ \A i \in 1..N : three[i] = Sums(two)[i]
  <2>1. \A d \in 1..3, i \in 1..N :
          SessionsLeft[d][i] = SessionsGain[d] + Sums(SessionsLeft[d - 1])[i]
    BY SessionsLeftIs, LeftIs
  <2>2. ASSUME NEW d \in 0..3, NEW i \in 1..N PROVE Sums(SessionsLeft[d])[i] \in Nat
    <3>1. i \in 0..N /\ 3 \in Nat
      BY NoRequests
    <3>2. QED
      BY <3>1, SessionsLeftIs, LeftRow
  <2>3. ASSUME NEW i \in 1..N
        PROVE  /\ one[i] = 1 + Sums(SessionsLeft[0])[i]
               /\ two[i] = Sums(one)[i]
               /\ three[i] = Sums(two)[i]
    <3>1. one[i] = SessionsGain[1] + Sums(SessionsLeft[1 - 1])[i]
      BY <2>1
    <3>2. two[i] = SessionsGain[2] + Sums(SessionsLeft[2 - 1])[i]
      BY <2>1
    <3>3. three[i] = SessionsGain[3] + Sums(SessionsLeft[3 - 1])[i]
      BY <2>1
    <3>4. /\ SessionsGain[1] = 1 /\ SessionsGain[2] = 0 /\ SessionsGain[3] = 0
          /\ 1 - 1 = 0 /\ 2 - 1 = 1 /\ 3 - 1 = 2
      BY SessionsLeftIs
    <3>5. Sums(SessionsLeft[1])[i] \in Nat /\ Sums(SessionsLeft[2])[i] \in Nat
      BY <2>2
    <3>6. QED
      BY <3>1, <3>2, <3>3, <3>4, <3>5
  <2>4. QED
    BY <2>3, NoRequests
<1>2. ASSUME NEW d \in 0..3
      PROVE  /\ Sums(SessionsLeft[d])[0] = 0
             /\ \A m \in 0..N : Sums(SessionsLeft[d])[m] \in Nat
             /\ \A m \in 1..N : Sums(SessionsLeft[d])[m] =
                                  Sums(SessionsLeft[d])[m - 1] + SessionsLeft[d][m]
  BY SessionsLeftIs, LeftRow
<1>3. \A m \in 0..N : Sums(SessionsLeft[0])[m] = 0
  <2> DEFINE T == {m \in Nat : m <= N /\ Sums(SessionsLeft[0])[m] # 0}
  <2>1. \A i \in 1..N : SessionsLeft[0][i] = 0
    BY SessionsLeftIs, LeftIs
  <2>2. 0 \notin T
    BY <1>2
  <2>3. ASSUME NEW m \in Nat, m + 1 \in T PROVE m \in T
    <3>1. m + 1 \in 1..N /\ (m + 1) - 1 = m /\ m \in 0..N /\ m <= N /\ 0 \in 0..3
      BY <1>1, <2>3
    <3>2. /\ Sums(SessionsLeft[0])[m + 1] = Sums(SessionsLeft[0])[m] + SessionsLeft[0][m + 1]
          /\ Sums(SessionsLeft[0])[m] \in Nat
      BY <1>2, <3>1
    <3>3. QED
      BY <2>1, <2>3, <3>1, <3>2
  <2>4. T = {}
    BY <2>2, <2>3, NoneFails
  <2>5. QED
    BY <1>1, <2>4
<1>4. \A i \in 1..N : one[i] = 1
  BY <1>1, <1>3
<1>5. \A m \in 0..N : Sums(one)[m] = m
  <2> DEFINE T == {m \in Nat : m <= N /\ Sums(one)[m] # m}
  <2>1. 0 \notin T
    BY <1>2
  <2>2. ASSUME NEW m \in Nat, m + 1 \in T PROVE m \in T
    <3>1. m + 1 \in 1..N /\ (m + 1) - 1 = m /\ m \in 0..N /\ m <= N /\ 1 \in 0..3
      BY <1>1, <2>2
    <3>2. Sums(one)[m + 1] = Sums(one)[m] + one[m + 1] /\ Sums(one)[m] \in Nat
      BY <1>2, <3>1
    <3>3. QED
      BY <1>4, <2>2, <3>1, <3>2
  <2>3. T = {}
    BY <2>1, <2>2, NoneFails
  <2>4. QED
    BY <1>1, <2>3
<1>6. \A i \in 1..N : two[i] = i
  BY <1>1, <1>5
<1>7. \A m \in 0..N : 2 * Sums(two)[m] = m * (m + 1)
  <2> DEFINE T == {m \in Nat : m <= N /\ 2 * Sums(two)[m] # m * (m + 1)}
  <2>1. 0 \notin T
    BY <1>2
  <2>2. ASSUME NEW m \in Nat, m + 1 \in T PROVE m \in T
    <3>1. m + 1 \in 1..N /\ (m + 1) - 1 = m /\ m \in 0..N /\ m <= N /\ 2 \in 0..3
      BY <1>1, <2>2
    <3>2. Sums(two)[m + 1] = Sums(two)[m] + (m + 1) /\ Sums(two)[m] \in Nat
      BY <1>2, <1>6, <3>1
    <3>3. 2 * Sums(two)[m + 1] # (m + 1) * ((m + 1) + 1)
      BY <2>2
    <3>4. (m + 1) * ((m + 1) + 1) = m * (m + 1) + 2 * (m + 1)
      OBVIOUS
    <3>5. 2 * Sums(two)[m] # m * (m + 1)
      BY <3>2, <3>3, <3>4
    <3>6. QED
      BY <3>1, <3>5
  <2>3. T = {}
    BY <2>1, <2>2, NoneFails
  <2>4. QED
    BY <1>1, <2>3
<1>8. \A i \in 1..N : three[i] \in Nat /\ 2 * three[i] = i * (i + 1)
  <2>1. \A i \in 1..N : i \in 0..N
    BY <1>1
  <2>2. \A i \in 1..N : Sums(two)[i] \in Nat /\ 2 * Sums(two)[i] = i * (i + 1)
    <3>1. 2 \in 0..3
      OBVIOUS
    <3>2. QED
      BY <1>2, <1>7, <2>1, <3>1
  <2> HIDE DEF two, three
  <2>3. QED
    BY <1>1, <2>2
<1>9. \A m \in 0..N : 6 * Sums(three)[m] = m * (m + 1) * (m + 2)
  <2> DEFINE T == {m \in Nat : m <= N /\ 6 * Sums(three)[m] # m * (m + 1) * (m + 2)}
  <2>1. 0 \notin T
    BY <1>2
  <2>2. ASSUME NEW m \in Nat, m + 1 \in T PROVE m \in T
    <3>1. m + 1 \in 1..N /\ (m + 1) - 1 = m /\ m \in 0..N /\ m <= N /\ 3 \in 0..3
      BY <1>1, <2>2
    <3>2. Sums(three)[m + 1] = Sums(three)[m] + three[m + 1] /\ Sums(three)[m] \in Nat
      BY <1>2, <3>1
    <3>3. three[m + 1] \in Nat /\ 2 * three[m + 1] = (m + 1) * ((m + 1) + 1)
      BY <1>8, <3>1
    <3>4. 6 * Sums(three)[m + 1] # (m + 1) * ((m + 1) + 1) * ((m + 1) + 2)
      BY <2>2
    <3>5. (m + 1) * ((m + 1) + 1) * ((m + 1) + 2)
            = m * (m + 1) * (m + 2) + 3 * ((m + 1) * ((m + 1) + 1))
      OBVIOUS
    <3>6. 6 * Sums(three)[m + 1] = 6 * Sums(three)[m] + 3 * (2 * three[m + 1])
      BY <3>2, <3>3
    <3>7. 6 * Sums(three)[m] # m * (m + 1) * (m + 2)
      BY <3>3, <3>4, <3>5, <3>6
    <3>8. QED
      BY <3>1, <3>7
  <2>3. T = {}
    BY <2>1, <2>2, NoneFails
  <2>4. QED
    BY <1>1, <2>3
<1>10. Sums(three)[N] \in Nat /\ 6 * Sums(three)[N] = N * (N + 1) * (N + 2)
  <2>1. N \in 0..N /\ 3 \in 0..3
    BY <1>1
  <2>2. QED
    BY <1>2, <1>9, <2>1
<1>11. \A x \in Nat : (6 * x) \div 6 = x
  OBVIOUS
<1> HIDE DEF three
<1>12. SessionsBound = (6 * Sums(three)[N]) \div 6
  BY <1>10 DEF SessionsBound
<1>13. SessionsBound = Sums(three)[N]
  BY <1>10, <1>11, <1>12
<1>14. QED
  BY <1>10, <1>13 DEF three

(* The watched step, the stored one and those in flight are numbers.       *)
LEMMA CodeNumbers ==
  ASSUME Kept
  PROVE  /\ minted \in Nat /\ now \in Nat /\ watched[2] \in Nat /\ admin.lastTotpStep \in Int
         /\ req \in [Requests -> Req] /\ admin.lastTotpStep <= now
         /\ \A p \in Requests : Accepted(req[p]) =>
              req[p].code \in Codes /\ req[p].code[2] \in Nat /\ req[p].code[2] <= now
BY AdminFields, AuthShape, CodeParts, AuthBoundsAssumption DEF Kept, AuthTypeOK, Steps

LEMMA CodesAwayIs == CodesAway \in [Requests -> 0..3]
<1>1. \A step : StepAway(step) \in 0..2
  BY DEF StepAway
<1>2. \A step : StepAway(step) \in 0..3 /\ StepAway(step) + 1 \in 0..3
  BY <1>1
<1>3. 0 \in 0..3 /\ 1 \in 0..3
  OBVIOUS
<1> HIDE DEF StepAway
<1>4. QED
  BY <1>2, <1>3 DEF CodesAway

LEMMA CodesAwayThen == CodesAway' \in [Requests -> 0..3]
<1>1. (CodesAway \in [Requests -> 0..3])'
  BY CodesAwayIs, PTL
<1>2. QED
  BY <1>1

LEMMA CodesTogether ==
  ASSUME NEW away \in [Requests -> 0..3], NEW order \in Orders
  PROVE  /\ Together(SessionsLeft, away, order) \in Nat
         /\ Together(SessionsLeft, away, order) <= SessionsBound
BY SessionsLeftIs, SessionsBoundIs, TermsAre, TogetherBounded

(* A step that leaves nobody further away, and opens no session.           *)
LEMMA CodesStay ==
  ASSUME Kept, CodesSound, now' = now, watched' = watched, minted' = minted,
         \A s \in Requests : CodesAway'[s] <= CodesAway[s]
  PROVE  CodesSound'
<1> SUFFICES ASSUME now >= watched[2], NEW order \in Orders
             PROVE  minted + Together(SessionsLeft, CodesAway', order) <= SessionsBound
  BY DEF CodesSound
<1>1. CodesAway \in [Requests -> 0..3] /\ CodesAway' \in [Requests -> 0..3]
  BY CodesAwayIs, CodesAwayThen
<1>2. Together(SessionsLeft, CodesAway', order) <= Together(SessionsLeft, CodesAway, order)
  BY <1>1, SessionsLeftIs, TogetherShrinks
<1>3. minted + Together(SessionsLeft, CodesAway, order) <= SessionsBound
  BY DEF CodesSound
<1>4. /\ Together(SessionsLeft, CodesAway, order) \in Nat
      /\ Together(SessionsLeft, CodesAway', order) \in Nat
      /\ minted \in Nat /\ SessionsBound \in Nat
  BY <1>1, CodesTogether, SessionsBoundIs DEF Kept, AuthTypeOK
<1>5. QED
  BY <1>2, <1>3, <1>4

(* A step that neither accepts nor stores a code.                          *)
LEMMA CodesLeft ==
  ASSUME Kept, CodesSound, now' = now,
         \A p \in Requests : \/ req'[p] = req[p]
                             \/ ~Accepted(req[p]) /\ ~Accepted(req'[p]),
         minted' = minted, watched' = watched,
         admin'.lastTotpStep = admin.lastTotpStep
  PROVE  CodesSound'
<1>1. CodesAway \in [Requests -> 0..3]
  BY CodesAwayIs
<1>2. \A s \in Requests : CodesAway'[s] = CodesAway[s]
  BY DEF CodesAway, StepAway, Accepted
<1>3. QED
  BY <1>1, <1>2, CodesStay

(* Time goes on: before the step of the watched code nothing was opened    *)
(* with it, and after it there is nothing further away than before.        *)
LEMMA CodesTick ==
  ASSUME Kept, CodesSound, Tick
  PROVE  CodesSound'
<1>1. UNCHANGED <<admin, req, watched, minted>> /\ now' = now + 1
  BY DEF Tick
<1>2. now \in Nat /\ watched[2] \in Nat
  BY CodeNumbers
<1>3. CASE now >= watched[2]
  <2>1. CodesAway' = CodesAway
    BY <1>1 DEF CodesAway, StepAway
  <2>2. QED
    BY <1>1, <1>3, <2>1 DEF CodesSound
<1>4. CASE now < watched[2]
  <2>1. minted' = 0
    BY <1>1, <1>4 DEF Kept
  <2>2. CodesAway' \in [Requests -> 0..3]
    BY CodesAwayIs, CodesAwayThen
  <2>3. ASSUME NEW order \in Orders
        PROVE  minted' + Together(SessionsLeft, CodesAway', order) <= SessionsBound
    BY <2>1, <2>2, CodesTogether
  <2>4. QED
    BY <2>3 DEF CodesSound
<1>5. QED
  BY <1>2, <1>3, <1>4

(* A code is accepted: the watched one, a later or another one of its      *)
(* step, or an earlier one, which is then the one just before it.          *)
LEMMA CodesBegin ==
  ASSUME Kept, CodesSound, NEW r \in Requests, NEW l, req' = [req EXCEPT ![r] = l],
         ~Accepted(req[r]), Accepted(l), l.code \in Codes, now' = now,
         InWindow(l.code, admin), minted' = minted, watched' = watched, admin' = admin
  PROVE  CodesSound'
<1> DEFINE c == l.code[2]
           s == watched[2]
           last == admin.lastTotpStep
<1>1. CASE now < s
  BY <1>1, CodeNumbers DEF CodesSound
<1>2. CASE now >= s
  <2>1. now \in Nat /\ s \in Nat /\ last \in Int /\ c \in Nat
    BY CodeNumbers, CodeParts
  <2>2. c \in {now - 1, now} /\ c > last
    BY DEF InWindow
  <2>3. /\ c < s => c = s - 1 /\ last < s - 1
        /\ c = s => last < s
    BY <1>2, <2>1, <2>2
  <2>4. CodesAway \in [Requests -> 0..3] /\ CodesAway' \in [Requests -> 0..3]
    BY CodesAwayIs, CodesAwayThen
  <2>5. CodesAway'[r] <= CodesAway[r]
    <3>1. CodesAway[r] = StepAway(last)
      BY DEF CodesAway
    <3>2. req'[r] = l
      BY CodeNumbers
    <3>3. CodesAway'[r] = IF l.code = watched THEN 1
                          ELSE IF c >= s THEN 0 ELSE StepAway(c) + 1
      BY <3>2 DEF CodesAway, StepAway
    <3>4. CASE l.code = watched
      <4>1. c = s
        BY <3>4
      <4>2. StepAway(last) \in {1, 2}
        BY <2>1, <2>3, <4>1 DEF StepAway
      <4>3. QED
        BY <3>1, <3>3, <3>4, <4>2
    <3>5. CASE l.code # watched /\ c >= s
      BY <2>4, <3>3, <3>5
    <3>6. CASE l.code # watched /\ c < s
      <4>1. StepAway(c) = 1 /\ StepAway(last) = 2
        BY <2>1, <2>3, <3>6 DEF StepAway
      <4>2. QED
        BY <2>1, <3>1, <3>3, <3>6, <4>1
    <3>7. QED
      BY <2>1, <3>4, <3>5, <3>6
  <2>6. ASSUME NEW o \in Requests \ {r} PROVE CodesAway'[o] <= CodesAway[o]
    <3>1. req'[o] = req[o]
      BY CodeNumbers
    <3>2. CodesAway'[o] = CodesAway[o]
      BY <3>1 DEF CodesAway, StepAway
    <3>3. QED
      BY <2>4, <3>2
  <2>7. QED
    BY <2>5, <2>6, CodesStay
<1>3. QED
  BY <1>1, <1>2, CodeNumbers

(* An accepted code opens its session and stores its step, which spends    *)
(* the watched one or makes it good again.                                 *)
LEMMA CodesEnd ==
  ASSUME Kept, CodesSound, NEW r \in Requests, TotpOk(r)
  PROVE  CodesSound'
<1> DEFINE c == req[r].code[2]
           s == watched[2]
<1>1. /\ Accepted(req[r]) /\ minted \in Nat /\ s \in Nat /\ now \in Nat
      /\ req[r].code \in Codes /\ c \in Nat /\ req \in [Requests -> Req]
  BY CodeNumbers DEF TotpOk, Accepted
<1>2. /\ req'[r] = Idle /\ ~Accepted(Idle)
      /\ \A o \in Requests \ {r} : req'[o] = req[o]
      /\ watched' = watched /\ now' = now
      /\ minted' = IF req[r].code = watched THEN minted + 1 ELSE minted
  BY <1>1, AuthIdle DEF TotpOk, Goto
<1>3. admin'.lastTotpStep = c
  BY DEF TotpOk, Kept, AuthTypeOK, Admin
<1>4. CodesAway \in [Requests -> 0..3] /\ CodesAway' \in [Requests -> 0..3]
  BY CodesAwayIs, CodesAwayThen
<1>5. \A o \in Requests : ~Accepted(req'[o]) => CodesAway'[o] = StepAway(c)
  BY <1>2, <1>3 DEF CodesAway, StepAway
<1>6. \A o \in Requests : Accepted(req'[o]) => CodesAway'[o] = CodesAway[o]
  BY <1>2 DEF CodesAway, StepAway
<1>7. CASE CodesAway[r] = 0
  <2>1. c >= s /\ req[r].code # watched
    <3>1. StepAway(c) \in {0, 1, 2}
      BY DEF StepAway
    <3>2. QED
      BY <1>1, <1>7, <3>1 DEF CodesAway
  <2>2. StepAway(c) = 0
    BY <2>1 DEF StepAway
  <2>3. \A o \in Requests : CodesAway'[o] <= CodesAway[o]
    BY <1>4, <1>5, <1>6, <2>2
  <2>4. minted' = minted
    BY <1>2, <2>1
  <2>5. QED
    BY <1>2, <2>3, <2>4, CodesStay
<1>8. CASE CodesAway[r] # 0
  <2> SUFFICES ASSUME now >= s, NEW order \in Orders
               PROVE  minted' + Together(SessionsLeft, CodesAway', order) <= SessionsBound
    BY <1>2 DEF CodesSound
  <2>1. StepAway(c) = CodesAway[r] - 1 /\ (req[r].code = watched => CodesAway[r] = 1)
    <3>1. CASE req[r].code = watched
      <4>1. CodesAway[r] = 1 /\ StepAway(c) = 0
        BY <1>1, <3>1 DEF CodesAway, StepAway
      <4>2. QED
        BY <4>1
    <3>2. CASE req[r].code # watched
      <4>1. StepAway(c) \in {0, 1, 2}
        BY DEF StepAway
      <4>2. CodesAway[r] = StepAway(c) + 1
        BY <1>1, <1>8, <3>2 DEF CodesAway
      <4>3. QED
        BY <3>2, <4>1, <4>2
    <3>3. QED
      BY <3>1, <3>2
  <2>2. CodesAway'[r] <= CodesAway[r] - 1
    BY <1>2, <1>4, <1>5, <2>1
  <2>3. \A o \in Requests : CodesAway'[o] <= CodesAway[o] \/ CodesAway'[o] <= CodesAway[r] - 1
    BY <1>4, <1>5, <1>6, <2>1
  <2>4. PICK other \in Orders :
          Together(SessionsLeft, CodesAway', order) + SessionsGain[CodesAway[r]]
            <= Together(SessionsLeft, CodesAway, other)
    BY <1>4, <1>8, <2>2, <2>3, SessionsLeftIs, TogetherStep
  <2>5. minted + Together(SessionsLeft, CodesAway, other) <= SessionsBound
    BY DEF CodesSound
  <2>6. /\ Together(SessionsLeft, CodesAway', order) \in Nat
        /\ Together(SessionsLeft, CodesAway, other) \in Nat /\ SessionsBound \in Nat
    BY <1>4, CodesTogether, SessionsBoundIs
  <2>7. CodesAway[r] \in 1..3
    BY <1>4, <1>8
  <2>8. SessionsGain[CodesAway[r]] \in Nat /\ minted' <= minted + SessionsGain[CodesAway[r]]
    <3>1. SessionsGain[CodesAway[r]] = IF CodesAway[r] = 1 THEN 1 ELSE 0
      BY <2>7, SessionsLeftIs
    <3>2. QED
      BY <1>1, <1>2, <2>1, <3>1
  <2>9. minted' \in Nat
    BY <1>1, <1>2
  <2>10. QED
    BY <1>1, <2>4, <2>5, <2>6, <2>8, <2>9
<1>9. QED
  BY <1>7, <1>8

LEMMA CodesStep ==
  ASSUME Kept, CodesSound, [Next]_vars
  PROVE  CodesSound'
<1>1. req \in [Requests -> Req] /\ admin \in Admin
  BY DEF Kept, AuthTypeOK
<1>2. ASSUME NEW r \in Requests, NEW l, Goto(r, l), ~Accepted(req[r]), ~Accepted(l),
             now' = now, minted' = minted, watched' = watched,
             admin'.lastTotpStep = admin.lastTotpStep
      PROVE  CodesSound'
  BY <1>1, <1>2, CodesLeft DEF Goto
<1>3. CASE LockExpires \/ TokenExpires \/ Disable \/ UNCHANGED vars
  <2>1. /\ req' = req /\ now' = now /\ minted' = minted /\ watched' = watched
        /\ admin'.lastTotpStep = admin.lastTotpStep
    BY <1>1, <1>3 DEF LockExpires, TokenExpires, Disable, vars, Admin
  <2>2. QED
    BY <2>1, CodesLeft
<1>4. ~Accepted(Refusing) /\ ~Accepted([pc |-> "login.ok"])
  BY DEF Refusing, Accepted
<1>5. ASSUME NEW r \in Requests, Login(r) PROVE CodesSound'
  <2>1. ASSUME NEW p \in Passwords, LoginRead(r, p) PROVE CodesSound'
    BY <1>2, <1>4, <2>1, AuthIdle DEF LoginRead, Arriving, OnlyReq
  <2>2. CASE LoginOk(r)
    BY <1>1, <1>2, <2>2, AuthIdle DEF LoginOk, Accepted, Admin
  <2>3. QED
    BY <1>5, <2>1, <2>2 DEF Login
<1>6. ASSUME NEW r \in Requests, Enroll(r) PROVE CodesSound'
  <2>1. CASE EnrollRead(r)
    BY <1>2, <2>1, AuthIdle DEF EnrollRead, Arriving, OnlyReq, Accepted
  <2>2. CASE EnrollWrite(r)
    BY <1>1, <1>2, <2>2, AuthIdle DEF EnrollWrite, Accepted, Admin
  <2>3. QED
    BY <1>6, <2>1, <2>2 DEF Enroll
<1>7. ASSUME NEW r \in Requests, Verify(r) PROVE CodesSound'
  <2>1. ASSUME NEW c \in {c \in Codes : c[1] <= issued} \cup {Typo}, TotpRead(r, c)
        PROVE  CodesSound'
    <3>1. CASE verifyTotpCode(c, admin)
      <4>1. c \in Codes
        BY <1>1, <2>1, <3>1, AdminFields, AuthBoundsAssumption
           DEF TotpRead, verifyTotpCode, Typo, Secrets, None
      <4>2. PICK l : l = [pc |-> "totp.ok", code |-> c]
        OBVIOUS
      <4>3. /\ Accepted(l) /\ l.code = c /\ InWindow(l.code, admin)
            /\ ~Accepted(req[r]) /\ req' = [req EXCEPT ![r] = l]
            /\ now' = now /\ minted' = minted /\ watched' = watched /\ admin' = admin
        BY <2>1, <3>1, <4>2, AuthIdle
           DEF TotpRead, verifyTotpCode, Accepted, Arriving, OnlyReq, Goto
      <4>4. QED
        BY <4>1, <4>3, CodesBegin
    <3>2. CASE ~verifyTotpCode(c, admin)
      BY <1>2, <1>4, <2>1, <3>2, AuthIdle DEF TotpRead, Arriving, OnlyReq
    <3>3. QED
      BY <3>1, <3>2
  <2>2. QED
    BY <1>7, <2>1, CodesEnd DEF Verify
<1>8. ASSUME NEW r \in Requests, Change(r) PROVE CodesSound'
  <2>1. CASE GuardPasses(r)
    BY <1>2, <2>1, AuthIdle DEF GuardPasses, Arriving, OnlyReq, Accepted
  <2>2. ASSUME NEW p \in Passwords, NEW q \in Passwords, PasswordRead(r, p, q)
        PROVE  CodesSound'
    <3>1. ~Accepted([pc |-> "change", next |-> q]) /\ ~Accepted(req[r])
      BY <2>2 DEF PasswordRead, Accepted
    <3>2. QED
      BY <1>2, <2>2, <3>1, AuthIdle DEF PasswordRead, OnlyReq
  <2>3. CASE PasswordWrite(r)
    BY <1>1, <1>2, <2>3, AuthIdle DEF PasswordWrite, Accepted, Admin
  <2>4. QED
    BY <1>8, <2>1, <2>2, <2>3 DEF Change
<1>9. ASSUME NEW r \in Requests, Refuse(r) PROVE CodesSound'
  <2>1. admin'.lastTotpStep = admin.lastTotpStep /\ ~Accepted(req[r])
    BY <1>1, <1>9, AuthShape, RefusedRow DEF Refuse, Refusal, Accepted
  <2>2. QED
    BY <1>2, <1>9, <2>1, AuthIdle DEF Refuse
<1>10. QED
  BY <1>3, <1>5, <1>6, <1>7, <1>8, <1>9, CodesTick DEF Next
---------------------------------------------------------------------------
(* Whatever may happen to an account, AuthInv holds of it.                 *)
THEOREM AuthAlwaysInv == Spec => []AuthInv
<1>1. Init => AuthInv
  <2> SUFFICES ASSUME Init PROVE AuthInv
    OBVIOUS
  <2>1. Kept
    BY KeptStart
  <2>2. TriesSound
    <3>1. wrong = 0 /\ TriesAway \in [Requests -> 0..MAX_LOGIN_ATTEMPTS]
      BY <2>1, TriesAwayIs DEF Init
    <3>2. ASSUME NEW order \in Orders
          PROVE  wrong + Together(TriesLeft, TriesAway, order) <= TriesBound
      BY <3>1, TriesLeftIs, TermsAre, TogetherBounded
    <3>3. QED
      BY <3>2 DEF TriesSound
  <2>3. CodesSound
    <3>1. minted = 0 /\ CodesAway \in [Requests -> 0..3]
      BY CodesAwayIs DEF Init
    <3>2. ASSUME NEW order \in Orders
          PROVE  minted + Together(SessionsLeft, CodesAway, order) <= SessionsBound
      BY <3>1, CodesTogether
    <3>3. QED
      BY <3>2 DEF CodesSound
  <2>4. QED
    BY <2>1, <2>2, <2>3, AuthParts
<1>2. AuthInv /\ [Next]_vars => AuthInv'
  <2> SUFFICES ASSUME AuthInv, [Next]_vars PROVE AuthInv'
    OBVIOUS
  <2>1. Kept /\ TriesSound /\ CodesSound
    BY AuthParts
  <2>2. Kept'
    BY <2>1, KeptStep
  <2>3. TriesSound' /\ CodesSound'
    BY <2>1, <2>2, TriesStep, CodesStep
  <2>4. QED
    BY <2>2, <2>3 DEF AuthInv, Kept
<1>3. QED
  BY <1>1, <1>2, PTL DEF Spec

(* The password an operator handed over is replaced only on an account     *)
(* whose second factor has been confirmed, whichever tokens were out and   *)
(* whatever they raced with (AdminGuard, changePassword).                  *)
THEOREM ChangeNeedsBothFactors == Spec => []BothFactorsBeforeChange
<1>1. AuthInv => BothFactorsBeforeChange
  BY DEF AuthInv
<1>2. QED
  BY <1>1, AuthAlwaysInv, PTL

(* However many requests there are at a time and however they race, they   *)
(* refuse only so many tries between two successes or expired locks, for   *)
(* every MAX_LOGIN_ATTEMPTS (login, verifyTotp).                           *)
THEOREM TriesAreBounded == Spec => []TriesBounded
<1>1. AuthInv => TriesBounded
  <2> SUFFICES ASSUME AuthInv PROVE wrong <= TriesBound
    BY DEF TriesBounded
  <2>1. PICK order : order \in Orders
    BY SomeOrder
  <2>2. Kept /\ TriesSound
    BY AuthParts
  <2>3. wrong + Together(TriesLeft, TriesAway, order) <= TriesBound
    BY <2>1, <2>2 DEF TriesSound
  <2>4. Together(TriesLeft, TriesAway, order) \in Nat
    BY <2>1, <2>2, TriesAwayIs, TriesLeftIs, TermsAre
  <2>5. wrong \in Nat /\ TriesBound \in Nat
    BY <2>2, TriesBoundIs DEF Kept, AuthTypeOK
  <2>6. QED
    BY <2>3, <2>4, <2>5
<1>2. QED
  BY <1>1, AuthAlwaysInv, PTL

(* ... and open no more sessions with one code than SessionsBound says,    *)
(* whichever codes and secrets are used beside it and however long a       *)
(* request takes (verifyTotp).                                             *)
THEOREM CodeSessionsAreBounded == Spec => []CodeSessionsBounded
<1>1. AuthInv => CodeSessionsBounded
  <2> SUFFICES ASSUME AuthInv PROVE minted <= SessionsBound
    BY DEF CodeSessionsBounded
  <2>1. PICK order : order \in Orders
    BY SomeOrder
  <2>2. Kept /\ CodesSound
    BY AuthParts
  <2>3. minted \in Nat /\ SessionsBound \in Nat /\ now \in Nat /\ watched[2] \in Nat
    BY <2>2, CodeNumbers, SessionsBoundIs
  <2>4. CASE now < watched[2]
    BY <2>2, <2>3, <2>4 DEF Kept
  <2>5. CASE now >= watched[2]
    <3>1. minted + Together(SessionsLeft, CodesAway, order) <= SessionsBound
      BY <2>1, <2>2, <2>5 DEF CodesSound
    <3>2. Together(SessionsLeft, CodesAway, order) \in Nat
      BY <2>1, CodesAwayIs, CodesTogether
    <3>3. QED
      BY <2>3, <3>1, <3>2
  <2>6. QED
    BY <2>3, <2>4, <2>5
<1>2. QED
  BY <1>1, AuthAlwaysInv, PTL
===========================================================================
