-------------------------- MODULE Anchoring_proofs --------------------------
(***************************************************************************)
(* An Anchor row is never a mere claim, anchor-verify neither cries wolf   *)
(* nor passes over a recomputed row, and no target is forgotten: for any   *)
(* targets and observers, any number of requests, rows, transactions and   *)
(* recomputations.                                                         *)
(***************************************************************************)
EXTENDS Anchoring, SequenceTheorems, TLAPS

ReqValues == {Idle} \cup Over \cup HeadReq \cup WorkReq
Working   == Providers \cup {"wait", "record"}

RowsSound == \A s \in DOMAIN row : row[s] <= rebuilds

TablesTypeOK ==
  /\ row \in Seq(Nat) /\ rebuilds \in Nat
  /\ anchor \subseteq [seq : Nat, target : Names, reference : Nat, hash : Nat, asked : Nat]
  /\ file \subseteq Entries
  /\ held \in [ANCHOR_OBSERVERS -> SUBSET Entries]
  /\ tx \in Seq([seq : Nat, hash : Nat, state : TxStates])
  /\ audit \subseteq Names

(* What every step leaves true for the handlers that did not take it and   *)
(* for the Anchor rows there are.                                          *)
Evolves ==
  /\ DOMAIN row \subseteq DOMAIN row' /\ Len(row) <= Len(row')
  /\ rebuilds <= rebuilds'
  /\ file \subseteq file' /\ audit \subseteq audit'
  /\ \A o \in ANCHOR_OBSERVERS : held[o] \subseteq held'[o]
  /\ \A i \in DOMAIN tx : /\ i \in DOMAIN tx'
                          /\ tx'[i].seq = tx[i].seq /\ tx'[i].hash = tx[i].hash
                          /\ tx[i].state = "final" => tx'[i].state = "final"

(* The values a handler may have in its locals, by where it is.            *)
LEMMA AnchoringShape ==
  ASSUME NEW l \in ReqValues
  PROVE  /\ l.pc = "head" => l \in HeadReq
         /\ l.pc \in Working => l \in WorkReq
         /\ l \notin Over \cup {Idle} => l \in HeadReq \cup WorkReq
BY DEF ReqValues, Working, Providers, HeadReq, WorkReq, Over, Idle, Dead, Answered

LEMMA BackedStays ==
  ASSUME AnchoringTypeOK, TablesTypeOK', Evolves, NEW a, a.hash \in Nat, Backed(a)
  PROVE  Backed(a)'
<1>1. a.seq \in DOMAIN row' /\ a.hash <= rebuilds'
  BY DEF Backed, Evolves, AnchoringTypeOK, TablesTypeOK
<1>2. QED
  BY <1>1 DEF Backed, Outside, InChain, Evolves, Providers

LEMMA OtherHandler ==
  ASSUME AnchoringInv, Evolves, TablesTypeOK', NEW q \in Requests, req'[q] = req[q]
  PROVE  HandlerSound(req[q])'
<1>1. req[q] \in ReqValues /\ HandlerSound(req[q]) /\ AnchoringTypeOK
  BY DEF AnchoringInv, AnchoringTypeOK, ReqValues
<1>2. CASE req[q].pc \in Working
  <2>1. /\ req[q] \in WorkReq /\ OnItsWay(req[q])
        /\ req[q].auto => NoneSkipped(req[q])
    BY <1>1, <1>2, AnchoringShape DEF HandlerSound, Working
  <2>2. req[q].seq \in DOMAIN row' /\ req[q].hash <= rebuilds' /\ req[q].hash \in Nat
    BY <1>1, <2>1 DEF OnItsWay, WorkReq, Evolves, AnchoringTypeOK, TablesTypeOK
  <2>3. req[q].pc = "record" => Backed(Claim(req[q]))'
    <3>1. PICK a : a = Claim(req[q])
      OBVIOUS
    <3>2. a = Claim(req[q])' /\ a.hash \in Nat
      BY <2>2, <3>1 DEF Claim
    <3>3. req[q].pc = "record" => Backed(a)'
      BY <1>1, <2>1, <3>1, <3>2, BackedStays DEF OnItsWay
    <3>4. QED
      BY <3>2, <3>3
  <2>4. req[q].pc = "wait" => InChain(Claim(req[q]))' /\ tx'[req[q].ref].hash = req[q].hash
    BY <2>1 DEF OnItsWay, InChain, Claim, Evolves
  <2>5. OnItsWay(req[q])'
    BY <2>1, <2>2, <2>3, <2>4 DEF OnItsWay, Evolves
  <2>6. req[q].auto => NoneSkipped(req[q])'
    BY <2>1 DEF NoneSkipped, Evolves
  <2>7. QED
    BY <1>2, <2>1, <2>5, <2>6 DEF HandlerSound, WorkReq, Answered, Working, Providers
<1>3. CASE req[q].pc = "head"
  <2>1. req[q] \in HeadReq
    BY <1>1, <1>3, AnchoringShape
  <2>2. req[q].asked <= Len(row')
    BY <1>1, <1>3, <2>1 DEF HandlerSound, HeadReq, Evolves, AnchoringTypeOK, TablesTypeOK
  <2>3. req[q].auto => NoneSkipped(req[q])'
    BY <1>1, <1>3 DEF HandlerSound, NoneSkipped, Evolves
  <2>4. QED
    BY <1>3, <2>2, <2>3 DEF HandlerSound, Answered, Providers
<1>4. CASE req[q].pc \notin Working \cup {"head"}
  BY <1>1, <1>4 DEF HandlerSound, Working, Evolves
<1>5. QED
  BY <1>2, <1>3, <1>4

(* A step of r, whose locals become l, keeps the invariant if it keeps     *)
(* that of its own handler and of the rows it writes.                      *)
LEMMA StepOf ==
  ASSUME AnchoringInv, Evolves, TablesTypeOK', RowsSound',
         \A a \in anchor' \ anchor : Backed(a)',
         NEW r \in Requests, NEW l \in ReqValues, req' = [req EXCEPT ![r] = l],
         req'[r] = l => HandlerSound(req[r])'
  PROVE  AnchoringInv'
<1>1. req \in [Requests -> ReqValues]
  BY DEF AnchoringInv, AnchoringTypeOK, ReqValues
<1>2. AnchoringTypeOK'
  BY <1>1 DEF TablesTypeOK, AnchoringTypeOK, ReqValues
<1>3. \A a \in anchor' : Backed(a)'
  <2> SUFFICES ASSUME NEW a \in anchor PROVE Backed(a)'
    OBVIOUS
  <2>1. a.hash \in Nat /\ Backed(a)
    BY DEF AnchoringInv, AnchoringTypeOK
  <2>2. QED
    BY <2>1, BackedStays DEF AnchoringInv
<1>4. ASSUME NEW q \in Requests \ {r} PROVE HandlerSound(req[q])'
  BY <1>1, <1>4, OtherHandler DEF AnchoringInv
<1>5. QED
  BY <1>1, <1>2, <1>3, <1>4 DEF AnchoringInv, RowsSound

data == <<row, rebuilds, anchor, file, held, tx>>

(* A step that leaves the data alone.                                      *)
LEMMA DataStay ==
  ASSUME AnchoringInv, UNCHANGED data, audit \subseteq audit', audit' \subseteq Names
  PROVE  Evolves /\ TablesTypeOK' /\ RowsSound' /\ \A a \in anchor' \ anchor : Backed(a)'
BY DEF data, Evolves, TablesTypeOK, RowsSound, AnchoringInv, AnchoringTypeOK

(* A handler that is at work has its targets.                              *)
LEMMA AtWork ==
  ASSUME AnchoringInv, NEW r \in Requests, req[r] \in HeadReq \cup WorkReq
  PROVE  /\ req[r].rest \in Seq(Names) /\ Len(req[r].rest) >= 1
         /\ target(r) \in Names
         /\ req[r].auto \in BOOLEAN /\ req[r].asked \in Nat
         /\ req[r].asked <= Len(row)
         /\ req[r].auto => NoneSkipped(req[r])
<1>1. HandlerSound(req[r]) /\ AnchoringTypeOK
  BY DEF AnchoringInv
<1>2. /\ req[r].rest \in Seq(Names) /\ req[r].rest # << >>
      /\ req[r].auto \in BOOLEAN /\ req[r].asked \in Nat
  BY DEF HeadReq, WorkReq, Targets
<1>3. Len(req[r].rest) >= 1 /\ target(r) \in Names
  BY <1>2 DEF target
<1>4. CASE req[r] \in HeadReq
  BY <1>1, <1>2, <1>3, <1>4 DEF HandlerSound, HeadReq
<1>5. CASE req[r] \in WorkReq
  <2>1. req[r].pc \in Providers \cup {"wait", "record"} /\ req[r].seq \in Nat
    BY <1>5 DEF WorkReq
  <2>2. OnItsWay(req[r]) /\ (req[r].auto => NoneSkipped(req[r]))
    BY <1>1, <2>1 DEF HandlerSound
  <2>3. req[r].asked <= Len(row)
    BY <1>1, <1>2, <2>1, <2>2 DEF OnItsWay, AnchoringTypeOK
  <2>4. QED
    BY <1>2, <1>3, <2>2, <2>3
<1>6. QED
  BY <1>4, <1>5

LEMMA TailOf ==
  ASSUME NEW s \in Seq(Names), Len(s) >= 1
  PROVE  /\ DOMAIN s = 1..Len(s)
         /\ Len(s) = 1 => DOMAIN s = {1}
         /\ Tail(s) \in Seq(Names) /\ Len(Tail(s)) = Len(s) - 1
         /\ \A j \in 1..Len(s) - 1 : Tail(s)[j] = s[j + 1]
<1>1. DOMAIN s = 1..Len(s) /\ Len(s) \in Nat
  OBVIOUS
<1>2. Len(s) = 1 => DOMAIN s = {1}
  BY <1>1
<1>3. Tail(s) \in Seq(Names) /\ Len(Tail(s)) = Len(s) - 1
  BY s # << >>
<1>4. ASSUME NEW j \in 1..Len(s) - 1 PROVE Tail(s)[j] = s[j + 1]
  BY <1>1, <1>4
<1>5. QED
  BY <1>1, <1>2, <1>3, <1>4

(* anchorLatest is over for a target: it has its audit entry, and the      *)
(* others are still to do.                                                 *)
LEMMA FinishedSound ==
  ASSUME AnchoringInv, NEW r \in Requests, req[r] \in HeadReq \cup WorkReq,
         NEW ok, Finished(r, ok), Len(row) <= Len(row'), row' \in Seq(Nat)
  PROVE  /\ audit \subseteq audit' /\ audit' \subseteq Names
         /\ \E l \in ReqValues : /\ req' = [req EXCEPT ![r] = l]
                                 /\ req'[r] = l => HandlerSound(req[r])'
<1> DEFINE rest == req[r].rest
<1>1. /\ rest \in Seq(Names) /\ Len(rest) >= 1 /\ target(r) \in Names
      /\ req[r].auto \in BOOLEAN /\ req[r].asked \in Nat /\ req[r].asked <= Len(row)
      /\ req[r].auto => NoneSkipped(req[r])
      /\ row \in Seq(Nat) /\ audit \subseteq Names
  BY AtWork DEF AnchoringInv, AnchoringTypeOK
<1>2. audit \subseteq audit' /\ audit' \subseteq Names /\ (req[r].auto => rest[1] \in audit')
  BY <1>1 DEF Finished, target
<1>3. req' = [req EXCEPT ![r] = NextTarget(r)]
  BY DEF Finished, Goto
<1>4. CASE Len(rest) = 1
  <2>1. NextTarget(r) = Answered(req[r].auto)
    BY <1>4 DEF NextTarget
  <2>2. ASSUME req[r].auto
        PROVE  \A i \in DOMAIN ANCHOR_TARGETS : ANCHOR_TARGETS[i] \in audit'
    <3> TAKE i \in DOMAIN ANCHOR_TARGETS
    <3>1. ANCHOR_TARGETS[i] \in audit \/ \E j \in DOMAIN rest : rest[j] = ANCHOR_TARGETS[i]
      BY <1>1, <2>2 DEF NoneSkipped
    <3>2. DOMAIN rest = {1}
      BY <1>1, <1>4, TailOf
    <3>3. QED
      BY <1>2, <2>2, <3>1, <3>2
  <2>3. Answered(req[r].auto) \in ReqValues
    BY <1>1 DEF ReqValues, Over
  <2>4. ASSUME req'[r] = Answered(req[r].auto) PROVE HandlerSound(req[r])'
    BY <1>1, <2>2, <2>4 DEF HandlerSound, Answered, Providers
  <2>5. QED
    BY <1>2, <1>3, <2>1, <2>3, <2>4
<1>5. CASE Len(rest) # 1
  <2> DEFINE l == Anchoring(Tail(rest), req[r].auto, req[r].asked)
  <2>1. Tail(rest) \in Seq(Names) /\ Len(Tail(rest)) = Len(rest) - 1
        /\ \A j \in 1..Len(rest) - 1 : Tail(rest)[j] = rest[j + 1]
    BY <1>1, TailOf
  <2>2. /\ l.pc = "head" /\ l.rest = Tail(rest) /\ l.auto = req[r].auto
        /\ l.asked = req[r].asked /\ l \in HeadReq
    <3>1. Tail(rest) \in Targets
      <4>1. Len(Tail(rest)) # 0
        BY <1>1, <1>5, <2>1
      <4>2. Tail(rest) # << >>
        BY <2>1, <4>1, EmptySeq
      <4> HIDE DEF rest
      <4>3. QED
        BY <2>1, <4>2 DEF Targets
    <3>2. QED
      BY <1>1, <3>1 DEF Anchoring, HeadReq
  <2>3. ASSUME req[r].auto, req'[r] = l PROVE NoneSkipped(req[r])'
    <3> SUFFICES ASSUME NEW i \in DOMAIN ANCHOR_TARGETS, ANCHOR_TARGETS[i] \notin audit'
                 PROVE  \E j \in DOMAIN Tail(rest) : Tail(rest)[j] = ANCHOR_TARGETS[i]
      <4>1. l.rest = Tail(rest)
        BY <2>2
      <4> HIDE DEF l
      <4>2. QED
        BY <2>3, <4>1 DEF NoneSkipped
    <3>1. PICK j \in DOMAIN rest : rest[j] = ANCHOR_TARGETS[i]
      BY <1>1, <1>2, <2>3 DEF NoneSkipped
    <3>2. j # 1 /\ j \in 1..Len(rest)
      BY <1>1, <1>2, <2>3, <3>1
    <3>3. j - 1 \in DOMAIN Tail(rest) /\ Tail(rest)[j - 1] = rest[j]
      BY <1>1, <2>1, <3>2
    <3>4. QED
      BY <3>1, <3>3
  <2>4. l.asked <= Len(row')
    BY <1>1, <2>2
  <2>5. NextTarget(r) = l
    BY <1>5 DEF NextTarget
  <2> HIDE DEF l
  <2>6. ASSUME req'[r] = l PROVE HandlerSound(req[r])'
    BY <2>2, <2>3, <2>4, <2>6 DEF HandlerSound, Answered, Providers
  <2>7. QED
    BY <1>2, <1>3, <2>2, <2>5, <2>6 DEF ReqValues
<1>6. QED
  BY <1>4, <1>5
---------------------------------------------------------------------------
(* The handler's own steps                                                 *)

(* A step of r alone: it changes no data, and where it gets is sound.      *)
LEMMA OwnStep ==
  ASSUME AnchoringInv, UNCHANGED data, audit' = audit, NEW r \in Requests,
         NEW l \in ReqValues, Goto(r, l), req'[r] = l => HandlerSound(req[r])'
  PROVE  AnchoringInv'
<1>1. audit' \subseteq Names
  BY DEF AnchoringInv, AnchoringTypeOK
<1>2. QED
  BY <1>1, DataStay, StepOf DEF Goto

LEMMA FailStep ==
  ASSUME AnchoringInv, NEW r \in Requests,
         \/ NoHead(r) \/ FileFails(r) \/ ObserversFail(r) \/ ChainFails(r)
         \/ WaitFails(r) \/ RecordFails(r)
  PROVE  AnchoringInv'
<1>1. At(r, "head") \/ req[r].pc \in Working
  BY DEF NoHead, FileFails, ObserversFail, ChainFails, WaitFails, RecordFails, At, Working, Providers
<1>2. req[r] \in HeadReq \cup WorkReq
  BY <1>1, AnchoringShape DEF AnchoringInv, AnchoringTypeOK, ReqValues, At
<1>3. Fails(r)
  BY DEF NoHead, FileFails, ObserversFail, ChainFails, WaitFails, RecordFails
<1>4. Finished(r, FALSE) /\ UNCHANGED data /\ row \in Seq(Nat)
  BY <1>3 DEF Fails, data, AnchoringInv, AnchoringTypeOK
<1>5. Len(row) <= Len(row') /\ row' \in Seq(Nat)
  BY <1>4 DEF data
<1>6. QED
  BY <1>2, <1>4, <1>5, FinishedSound, DataStay, StepOf

(* The head is a row there is, and later than the one asked for.           *)
LEMMA ReadHeadStep ==
  ASSUME AnchoringInv, NEW r \in Requests, ReadHead(r)
  PROVE  AnchoringInv'
<1> DEFINE l == [pc |-> target(r), rest |-> req[r].rest, auto |-> req[r].auto,
                 asked |-> req[r].asked, seq |-> LatestRow, hash |-> row[LatestRow],
                 left |-> ANCHOR_OBSERVERS, sent |-> 0, ref |-> 0]
<1>1. /\ req[r] \in HeadReq /\ req[r].rest \in Targets
      /\ row \in Seq(Nat) /\ row # << >> /\ rebuilds \in Nat
  BY AnchoringShape DEF ReadHead, At, AnchoringInv, AnchoringTypeOK, ReqValues, HeadReq
<1>2. /\ target(r) \in Providers /\ target(r) = req[r].rest[1]
      /\ req[r].auto \in BOOLEAN /\ req[r].asked \in Nat /\ req[r].asked <= Len(row)
      /\ req[r].auto => NoneSkipped(req[r])
  BY <1>1, AtWork DEF ReadHead, target
<1>3. LatestRow \in DOMAIN row /\ row[LatestRow] \in Nat /\ LatestRow \in Nat
  BY <1>1 DEF LatestRow
<1>4. row[LatestRow] <= rebuilds
  BY <1>3 DEF AnchoringInv
<1>5. l \in WorkReq
  BY <1>1, <1>2, <1>3 DEF WorkReq
<1>6. UNCHANGED data /\ audit' = audit /\ Goto(r, l)
  BY DEF ReadHead, data
<1>7. /\ l.pc = l.rest[1] /\ l.pc \in Providers /\ l.rest = req[r].rest /\ l.auto = req[r].auto
      /\ l.seq \in DOMAIN row /\ l.hash <= rebuilds /\ l.asked <= l.seq /\ l.sent = 0
  BY <1>2, <1>3, <1>4 DEF LatestRow
<1> HIDE DEF l
<1>8. ASSUME req'[r] = l PROVE HandlerSound(req[r])'
  <2>1. OnItsWay(req[r])'
    BY <1>6, <1>7, <1>8 DEF OnItsWay, data, Providers
  <2>2. req[r].auto => NoneSkipped(req[r])'
    BY <1>2, <1>6, <1>7, <1>8 DEF NoneSkipped
  <2>3. QED
    BY <1>7, <1>8, <2>1, <2>2 DEF HandlerSound, Answered, Providers
<1>9. QED
  BY <1>5, <1>6, <1>8, OwnStep DEF ReqValues

(* A provider is done when its entry is outside.                           *)
LEMMA ToRecord ==
  ASSUME AnchoringInv, NEW r \in Requests, req[r] \in WorkReq,
         UNCHANGED <<row, rebuilds, audit>>,
         NEW l, l = [req[r] EXCEPT !.pc = "record"],
         Outside(Claim(l))', target(r) = "BLOCKCHAIN" => InChain(Claim(l))'
  PROVE  /\ l \in WorkReq
         /\ req'[r] = l => HandlerSound(req[r])'
<1>1. /\ l \in WorkReq /\ l.pc = "record" /\ l.rest = req[r].rest /\ l.auto = req[r].auto
      /\ l.seq = req[r].seq /\ l.hash = req[r].hash /\ l.asked = req[r].asked
      /\ l.ref = req[r].ref
  BY DEF WorkReq
<1>2. OnItsWay(req[r]) /\ (req[r].auto => NoneSkipped(req[r]))
  BY DEF AnchoringInv, HandlerSound, WorkReq
<1>3. /\ l.rest[1] \in Providers /\ l.seq \in DOMAIN row' /\ l.hash <= rebuilds'
      /\ l.asked <= l.seq
  BY <1>1, <1>2 DEF OnItsWay
<1>4. Backed(Claim(l))'
  <2>1. /\ Claim(l).target = l.rest[1] /\ Claim(l).seq = l.seq /\ Claim(l).hash = l.hash
        /\ Claim(l).asked = l.asked /\ l.rest[1] = target(r)
    BY <1>1 DEF Claim, target
  <2>2. PICK a : a = Claim(l)
    OBVIOUS
  <2>3. Outside(a)' /\ (a.target = "BLOCKCHAIN" => InChain(a)')
    BY <2>1, <2>2
  <2>4. Backed(a)'
    BY <1>3, <2>1, <2>2, <2>3 DEF Backed
  <2>5. QED
    BY <2>2, <2>4
<1>5. ASSUME req'[r] = l PROVE HandlerSound(req[r])'
  <2>1. Backed(Claim(req[r]))'
    BY <1>4, <1>5
  <2>2. OnItsWay(req[r])'
    BY <1>1, <1>3, <1>5, <2>1 DEF OnItsWay, Providers
  <2>3. req[r].auto => NoneSkipped(req[r])'
    BY <1>1, <1>2, <1>5 DEF NoneSkipped
  <2>4. QED
    BY <1>1, <1>5, <2>2, <2>3 DEF HandlerSound, Answered, Providers
<1>6. QED
  BY <1>1, <1>5

LEMMA AnchorFileStep ==
  ASSUME AnchoringInv, NEW r \in Requests, AnchorFile(r)
  PROVE  AnchoringInv'
<1>1. req[r] \in WorkReq /\ req[r].pc = "FILE" /\ AnchoringTypeOK
  BY AnchoringShape DEF AnchorFile, At, AnchoringInv, AnchoringTypeOK, ReqValues, Working, Providers
<1>2. OnItsWay(req[r]) /\ target(r) = "FILE"
  BY <1>1 DEF AnchoringInv, HandlerSound, OnItsWay, target, Providers
<1>3. Entry(r) \in Entries
  BY <1>1 DEF Entry, Entries, WorkReq
<1>4. Evolves /\ TablesTypeOK' /\ RowsSound' /\ anchor' = anchor /\ UNCHANGED <<row, rebuilds, audit>>
  BY <1>1, <1>3 DEF AnchorFile, Evolves, TablesTypeOK, RowsSound, AnchoringTypeOK, AnchoringInv
<1>5. PICK l : l = [req[r] EXCEPT !.pc = "record"]
  OBVIOUS
<1>6. Outside(Claim(l))'
  <2>1. l.seq = req[r].seq /\ l.hash = req[r].hash /\ l.rest = req[r].rest
    BY <1>1, <1>5 DEF WorkReq
  <2>2. Claim(l).target = "FILE" /\ Claim(l).seq = req[r].seq /\ Claim(l).hash = req[r].hash
    BY <1>2, <2>1 DEF Claim, target
  <2>3. Entry(r) \in file'
    BY DEF AnchorFile
  <2>4. QED
    BY <2>2, <2>3 DEF Outside, Entry
<1>7. l \in ReqValues /\ (req'[r] = l => HandlerSound(req[r])')
  BY <1>1, <1>2, <1>4, <1>5, <1>6, ToRecord DEF ReqValues
<1>8. req' = [req EXCEPT ![r] = l]
  BY <1>5 DEF AnchorFile, Goto
<1>9. QED
  BY <1>4, <1>7, <1>8, StepOf

(* A message that was sent is counted, and in the hands of its observer.   *)
LEMMA SendObserverStep ==
  ASSUME AnchoringInv, NEW r \in Requests, SendObserver(r)
  PROVE  AnchoringInv'
<1>1. req[r] \in WorkReq /\ req[r].pc = "OBSERVERS" /\ AnchoringTypeOK
  BY AnchoringShape DEF SendObserver, At, AnchoringInv, AnchoringTypeOK, ReqValues, Working, Providers
<1>2. /\ OnItsWay(req[r]) /\ req[r].rest[1] = "OBSERVERS"
      /\ req[r].auto => NoneSkipped(req[r])
  BY <1>1 DEF AnchoringInv, HandlerSound, OnItsWay, Providers
<1>3. PICK o \in req[r].left :
        \/ /\ held' = [held EXCEPT ![o] = @ \cup {Entry(r)}]
           /\ Goto(r, [req[r] EXCEPT !.left = @ \ {o}, !.sent = @ + 1])
        \/ /\ held' = held
           /\ Goto(r, [req[r] EXCEPT !.left = @ \ {o}])
  BY DEF SendObserver
<1>4. Entry(r) \in Entries /\ o \in ANCHOR_OBSERVERS
  BY <1>1 DEF Entry, Entries, WorkReq
<1>5. /\ UNCHANGED <<row, rebuilds, anchor, file, tx, audit>>
      /\ held' \in [ANCHOR_OBSERVERS -> SUBSET Entries]
      /\ \A p \in ANCHOR_OBSERVERS : held[p] \subseteq held'[p]
  BY <1>1, <1>3, <1>4 DEF SendObserver, AnchoringTypeOK
<1>6. Evolves /\ TablesTypeOK' /\ RowsSound'
  BY <1>1, <1>5 DEF Evolves, TablesTypeOK, RowsSound, AnchoringTypeOK, AnchoringInv
<1>7. PICK l : /\ req' = [req EXCEPT ![r] = l]
               /\ \/ /\ Entry(r) \in held'[o]
                     /\ l = [req[r] EXCEPT !.left = @ \ {o}, !.sent = @ + 1]
                  \/ l = [req[r] EXCEPT !.left = @ \ {o}]
  BY <1>1, <1>3, <1>4 DEF Goto, AnchoringTypeOK
<1>8. /\ l \in WorkReq /\ l.pc = "OBSERVERS" /\ l.rest = req[r].rest /\ l.auto = req[r].auto
      /\ l.seq = req[r].seq /\ l.hash = req[r].hash /\ l.asked = req[r].asked
      /\ l.sent > 0 => Entry(r) \in held'[o] \/ req[r].sent > 0
  <2>1. req[r].left \ {o} \in SUBSET ANCHOR_OBSERVERS /\ req[r].sent \in Nat /\ req[r].sent + 1 \in Nat
    BY <1>1 DEF WorkReq
  <2>2. CASE Entry(r) \in held'[o] /\ l = [req[r] EXCEPT !.left = @ \ {o}, !.sent = @ + 1]
    BY <1>1, <2>1, <2>2 DEF WorkReq
  <2>3. CASE l = [req[r] EXCEPT !.left = @ \ {o}]
    BY <1>1, <2>1, <2>3 DEF WorkReq
  <2>4. QED
    BY <1>7, <2>2, <2>3
<1>9. ASSUME req'[r] = l PROVE HandlerSound(req[r])'
  <2>1. l.sent > 0 => \E p \in ANCHOR_OBSERVERS : [seq |-> l.seq, hash |-> l.hash] \in held'[p]
    BY <1>1, <1>2, <1>4, <1>5, <1>8 DEF OnItsWay, Entry
  <2>2. OnItsWay(req[r])'
    BY <1>2, <1>5, <1>8, <1>9, <2>1 DEF OnItsWay
  <2>3. req[r].auto => NoneSkipped(req[r])'
    BY <1>2, <1>5, <1>8, <1>9 DEF NoneSkipped
  <2>4. QED
    BY <1>8, <1>9, <2>2, <2>3 DEF HandlerSound, Answered, Providers
<1>10. QED
  BY <1>5, <1>6, <1>7, <1>8, <1>9, StepOf DEF ReqValues

(* One message that was sent is enough, and so is a transaction that has   *)
(* its confirmations.                                                      *)
LEMMA ProviderDone ==
  ASSUME AnchoringInv, NEW r \in Requests, ObserversSent(r) \/ WaitConfirmed(r)
  PROVE  AnchoringInv'
<1>1. req[r] \in WorkReq /\ req[r].pc \in {"OBSERVERS", "wait"}
  BY AnchoringShape DEF ObserversSent, WaitConfirmed, At, AnchoringInv, AnchoringTypeOK,
       ReqValues, Working, Providers
<1>2. OnItsWay(req[r])
  BY <1>1 DEF AnchoringInv, HandlerSound, Providers
<1>3. UNCHANGED data /\ audit' = audit /\ Goto(r, [req[r] EXCEPT !.pc = "record"])
  BY DEF ObserversSent, WaitConfirmed, data
<1>4. PICK l : l = [req[r] EXCEPT !.pc = "record"]
  OBVIOUS
<1>5. /\ l.seq = req[r].seq /\ l.hash = req[r].hash /\ l.rest = req[r].rest
      /\ l.ref = req[r].ref
  BY <1>1, <1>4 DEF WorkReq
<1>6. Outside(Claim(l))' /\ (target(r) = "BLOCKCHAIN" => InChain(Claim(l))')
  <2>1. CASE ObserversSent(r)
    <3>1. req[r].rest[1] = "OBSERVERS" /\ \E o \in ANCHOR_OBSERVERS :
            [seq |-> req[r].seq, hash |-> req[r].hash] \in held[o]
      BY <1>2, <2>1 DEF ObserversSent, SentToSome, At, OnItsWay, Providers
    <3>2. QED
      BY <1>3, <1>5, <3>1 DEF Outside, Claim, target, data
  <2>2. CASE WaitConfirmed(r)
    <3>1. req[r].rest[1] = "BLOCKCHAIN" /\ InChain(Claim(req[r])) /\ tx[req[r].ref].hash = req[r].hash
          /\ tx[req[r].ref].state = "final"
      BY <1>2, <2>2 DEF WaitConfirmed, Confirmed, At, OnItsWay, Providers
    <3>2. QED
      BY <1>3, <1>5, <3>1 DEF Outside, InChain, Claim, target, data
  <2>3. QED
    BY <2>1, <2>2
<1>7. l \in ReqValues /\ (req'[r] = l => HandlerSound(req[r])')
  BY <1>1, <1>3, <1>4, <1>6, ToRecord DEF ReqValues, data
<1>8. QED
  BY <1>3, <1>4, <1>7, OwnStep

(* A transaction joins those the node took.                                *)
LEMMA TxJoins ==
  ASSUME AnchoringInv, NEW r \in Requests, req[r] \in WorkReq,
         tx' = Append(tx, chainPayload(r)), UNCHANGED <<row, rebuilds, anchor, file, held>>,
         audit \subseteq audit', audit' \subseteq Names
  PROVE  /\ Evolves /\ TablesTypeOK' /\ RowsSound'
         /\ tx \in Seq([seq : Nat, hash : Nat, state : TxStates])
         /\ Len(tx) + 1 \in DOMAIN tx' /\ tx'[Len(tx) + 1] = chainPayload(r)
<1>1. chainPayload(r) \in [seq : Nat, hash : Nat, state : TxStates]
  BY DEF chainPayload, WorkReq, TxStates
<1>2. tx \in Seq([seq : Nat, hash : Nat, state : TxStates])
  BY DEF AnchoringInv, AnchoringTypeOK
<1>3. /\ tx' \in Seq([seq : Nat, hash : Nat, state : TxStates])
      /\ \A i \in DOMAIN tx : i \in DOMAIN tx' /\ tx'[i] = tx[i]
      /\ Len(tx) + 1 \in DOMAIN tx' /\ tx'[Len(tx) + 1] = chainPayload(r)
  BY <1>1, <1>2
<1>4. Evolves
  BY <1>3 DEF Evolves, AnchoringInv, AnchoringTypeOK
<1>5. TablesTypeOK' /\ RowsSound'
  BY <1>3 DEF TablesTypeOK, RowsSound, AnchoringInv, AnchoringTypeOK
<1>6. QED
  BY <1>2, <1>3, <1>4, <1>5

LEMMA ChainAnswerLostStep ==
  ASSUME AnchoringInv, NEW r \in Requests, ChainAnswerLost(r)
  PROVE  AnchoringInv'
<1>1. req[r] \in WorkReq
  BY AnchoringShape DEF ChainAnswerLost, At, AnchoringInv, AnchoringTypeOK, ReqValues, Working, Providers
<1>2. Finished(r, FALSE) /\ row' = row /\ row' \in Seq(Nat) /\ Len(row) <= Len(row')
  <2>1. Finished(r, FALSE) /\ row' = row
    BY DEF ChainAnswerLost
  <2>2. row \in Seq(Nat)
    BY DEF AnchoringInv, AnchoringTypeOK
  <2>3. Len(row) <= Len(row') /\ row' \in Seq(Nat)
    BY <2>1, <2>2
  <2>4. QED
    BY <2>1, <2>3
<1>3. Evolves /\ TablesTypeOK' /\ RowsSound' /\ anchor' = anchor
  BY <1>1, <1>2, FinishedSound, TxJoins DEF ChainAnswerLost
<1>4. QED
  BY <1>1, <1>2, <1>3, FinishedSound, StepOf

LEMMA sendTransactionStep ==
  ASSUME AnchoringInv, NEW r \in Requests, sendTransaction(r)
  PROVE  AnchoringInv'
<1>1. req[r] \in WorkReq /\ req[r].pc = "BLOCKCHAIN" /\ audit \subseteq Names
  BY AnchoringShape DEF sendTransaction, At, AnchoringInv, AnchoringTypeOK, ReqValues, Working, Providers
<1>2. /\ OnItsWay(req[r]) /\ req[r].rest[1] = "BLOCKCHAIN"
      /\ req[r].auto => NoneSkipped(req[r])
  BY <1>1 DEF AnchoringInv, HandlerSound, OnItsWay, Providers
<1>3. /\ UNCHANGED <<row, rebuilds, anchor, file, held, audit>>
      /\ tx' = Append(tx, chainPayload(r))
  BY DEF sendTransaction
<1>4. /\ Evolves /\ TablesTypeOK' /\ RowsSound'
      /\ tx \in Seq([seq : Nat, hash : Nat, state : TxStates])
      /\ Len(tx) + 1 \in DOMAIN tx' /\ tx'[Len(tx) + 1] = chainPayload(r)
  BY <1>1, <1>3, TxJoins
<1>5. PICK l : l = [req[r] EXCEPT !.pc = "wait", !.ref = Len(tx) + 1]
  OBVIOUS
<1>6. /\ l \in WorkReq /\ l.pc = "wait" /\ l.rest = req[r].rest /\ l.auto = req[r].auto
      /\ l.seq = req[r].seq /\ l.hash = req[r].hash /\ l.asked = req[r].asked
      /\ l.ref = Len(tx) + 1
  <2>1. Len(tx) + 1 \in Nat
    BY <1>4
  <2>2. QED
    BY <1>1, <1>5, <2>1 DEF WorkReq
<1>7. /\ l.ref \in DOMAIN tx' /\ tx'[l.ref].seq = l.seq /\ tx'[l.ref].hash = l.hash
  BY <1>4, <1>6 DEF chainPayload
<1>8. ASSUME req'[r] = l PROVE HandlerSound(req[r])'
  <2>1. InChain(Claim(req[r]))'
    BY <1>7, <1>8 DEF InChain, Claim
  <2>2. OnItsWay(req[r])'
    BY <1>2, <1>3, <1>6, <1>7, <1>8, <2>1 DEF OnItsWay, Providers
  <2>3. req[r].auto => NoneSkipped(req[r])'
    BY <1>2, <1>3, <1>6, <1>8 DEF NoneSkipped
  <2>4. QED
    BY <1>6, <1>8, <2>2, <2>3 DEF HandlerSound, Answered, Providers
<1>9. req' = [req EXCEPT ![r] = l]
  BY <1>5 DEF sendTransaction, Goto
<1>10. QED
  BY <1>3, <1>4, <1>6, <1>8, <1>9, StepOf DEF ReqValues

(* Only now there is an Anchor row, and what it claims is the case.        *)
LEMMA RecordStep ==
  ASSUME AnchoringInv, NEW r \in Requests, Record(r)
  PROVE  AnchoringInv'
<1>1. req[r] \in WorkReq /\ req[r].pc = "record" /\ AnchoringTypeOK
  BY AnchoringShape DEF Record, At, AnchoringInv, AnchoringTypeOK, ReqValues, Working, Providers
<1>2. Backed(Claim(req[r]))
  BY <1>1 DEF AnchoringInv, HandlerSound, OnItsWay
<1>3. /\ Finished(r, TRUE) /\ UNCHANGED <<row, rebuilds, file, held, tx>>
      /\ anchor' = anchor \cup {Claim(req[r])}
  BY DEF Record, Claim, target
<1>4. Len(row) <= Len(row') /\ row' \in Seq(Nat)
  BY <1>1, <1>3 DEF AnchoringTypeOK
<1>5. audit \subseteq audit' /\ audit' \subseteq Names
  BY <1>1, <1>3, <1>4, FinishedSound
<1>6. Claim(req[r]) \in [seq : Nat, target : Names, reference : Nat, hash : Nat, asked : Nat]
  BY <1>1, AtWork DEF Claim, WorkReq, target
<1>7. Evolves /\ TablesTypeOK' /\ RowsSound'
  BY <1>1, <1>3, <1>5, <1>6
     DEF Evolves, TablesTypeOK, RowsSound, AnchoringTypeOK, AnchoringInv
<1>8. \A a \in anchor' \ anchor : Backed(a)'
  <2>1. PICK c : c = Claim(req[r])
    OBVIOUS
  <2>2. c.hash \in Nat /\ Backed(c) /\ anchor' = anchor \cup {c}
    BY <1>2, <1>3, <1>6, <2>1
  <2>3. Backed(c)'
    BY <1>1, <1>7, <2>2, BackedStays
  <2>4. QED
    BY <2>2, <2>3
<1>9. QED
  BY <1>1, <1>3, <1>4, <1>7, <1>8, FinishedSound, StepOf
---------------------------------------------------------------------------
(* Requests that come and go, and what others do                           *)

(* A row joins the chain, which says nothing against the earlier ones.     *)
LEMMA RowJoins ==
  ASSUME AnchoringInv, NewRow, UNCHANGED <<rebuilds, anchor, file, held, tx, audit>>
  PROVE  /\ Evolves /\ TablesTypeOK' /\ RowsSound' /\ anchor' = anchor
         /\ Len(row) + 1 = Len(row') /\ Len(row) \in Nat
<1>1. row \in Seq(Nat) /\ rebuilds \in Nat /\ row' = Append(row, rebuilds)
  BY DEF AnchoringInv, AnchoringTypeOK, NewRow
<1>2. /\ row' \in Seq(Nat) /\ Len(row') = Len(row) + 1 /\ Len(row) \in Nat
      /\ DOMAIN row = 1..Len(row) /\ DOMAIN row' = 1..Len(row')
      /\ \A s \in DOMAIN row : row'[s] = row[s]
      /\ row'[Len(row) + 1] = rebuilds
  BY <1>1
<1>3. RowsSound'
  <2> SUFFICES ASSUME NEW s \in DOMAIN row' PROVE row'[s] <= rebuilds
    BY DEF RowsSound
  <2>1. CASE s \in DOMAIN row
    BY <1>2, <2>1 DEF AnchoringInv
  <2>2. CASE s \notin DOMAIN row
    BY <1>1, <1>2, <2>2
  <2>3. QED
    BY <2>1, <2>2
<1>4. DOMAIN row \subseteq DOMAIN row' /\ Len(row) <= Len(row')
  BY <1>2
<1>5. Evolves
  BY <1>1, <1>4 DEF Evolves
<1>6. TablesTypeOK'
  BY <1>2 DEF TablesTypeOK, AnchoringInv, AnchoringTypeOK
<1>7. QED
  BY <1>2, <1>3, <1>5, <1>6

(* A handler begins with the targets it is called with.                    *)
LEMMA BeginStep ==
  ASSUME AnchoringInv, NEW r \in Requests,
         NEW rest \in Targets, NEW auto \in BOOLEAN, NEW asked \in Nat,
         Goto(r, Anchoring(rest, auto, asked)), asked <= Len(row'),
         auto => rest = ANCHOR_TARGETS,
         Evolves, TablesTypeOK', RowsSound', anchor' = anchor
  PROVE  AnchoringInv'
<1>1. PICK l : l = Anchoring(rest, auto, asked)
  OBVIOUS
<1>2. /\ l.pc = "head" /\ l.rest = rest /\ l.auto = auto /\ l.asked = asked /\ l \in HeadReq
  BY <1>1 DEF Anchoring, HeadReq
<1>3. ASSUME req'[r] = l PROVE HandlerSound(req[r])'
  BY <1>2, <1>3 DEF HandlerSound, NoneSkipped, Answered, Providers
<1>4. req' = [req EXCEPT ![r] = l]
  BY <1>1 DEF Goto
<1>5. QED
  BY <1>2, <1>3, <1>4, StepOf DEF ReqValues

LEMMA TransitionStep ==
  ASSUME AnchoringInv, NEW r \in Requests, Transition(r)
  PROVE  AnchoringInv'
<1>1. /\ Evolves /\ TablesTypeOK' /\ RowsSound' /\ anchor' = anchor
      /\ Len(row) + 1 = Len(row') /\ Len(row) \in Nat
  BY RowJoins DEF Transition
<1>2. ANCHOR_TARGETS \in Targets
  <2>1. PICK n \in Nat : ANCHOR_TARGETS \in [1..n -> STRING]
    BY TargetsAssumption, SeqDef
  <2>2. ANCHOR_TARGETS \in [1..n -> Names]
    BY <2>1 DEF Names
  <2>3. QED
    BY <2>2, TargetsAssumption, SeqDef DEF Targets
<1>3. Len(row) + 1 \in Nat /\ Len(row) + 1 <= Len(row')
  BY <1>1
<1>4. Goto(r, Anchoring(ANCHOR_TARGETS, TRUE, Len(row) + 1))
  BY DEF Transition
<1>5. QED
  BY <1>1, <1>2, <1>3, <1>4, BeginStep

LEMMA AnchorRouteStep ==
  ASSUME AnchoringInv, NEW r \in Requests, NEW t \in Providers, AnchorRoute(r, t)
  PROVE  AnchoringInv'
<1>1. UNCHANGED data /\ audit' = audit /\ audit \subseteq Names /\ row \in Seq(Nat)
  BY DEF AnchorRoute, data, AnchoringInv, AnchoringTypeOK
<1>2. <<t>> \in Targets
  <2>1. <<t>> \in Seq(Names) /\ Len(<<t>>) = 1
    <3>1. t \in Names
      BY DEF Names
    <3>2. QED
      BY <3>1
  <2>2. <<t>> # << >>
    BY <2>1, EmptySeq
  <2>3. QED
    BY <2>1, <2>2 DEF Targets
<1>3. 0 <= Len(row')
  BY <1>1 DEF data
<1>4. QED
  BY <1>1, <1>2, <1>3, DataStay, BeginStep DEF AnchorRoute, data

LEMMA CrashStep ==
  ASSUME AnchoringInv, NEW r \in Requests, Crash(r)
  PROVE  AnchoringInv'
<1>1. Dead \in ReqValues
  BY DEF ReqValues, Over
<1>2. ASSUME req'[r] = Dead PROVE HandlerSound(req[r])'
  BY <1>2 DEF HandlerSound, Dead, Answered, Providers
<1>3. QED
  BY <1>1, <1>2, OwnStep DEF Crash, data

(* Steps of no handler.                                                    *)
LEMMA OthersStep ==
  ASSUME AnchoringInv, Evolves, TablesTypeOK', RowsSound', anchor' = anchor, req' = req
  PROVE  AnchoringInv'
<1>1. AnchoringTypeOK'
  BY DEF AnchoringInv, TablesTypeOK, AnchoringTypeOK
<1>2. ASSUME NEW a \in anchor' PROVE Backed(a)'
  <2>1. a.hash \in Nat /\ Backed(a)
    BY DEF AnchoringInv, AnchoringTypeOK
  <2>2. QED
    BY <2>1, BackedStays DEF AnchoringInv
<1>3. ASSUME NEW q \in Requests PROVE HandlerSound(req[q])'
  BY OtherHandler
<1>4. QED
  BY <1>1, <1>2, <1>3 DEF AnchoringInv, RowsSound

LEMMA RebuildStep ==
  ASSUME AnchoringInv, Rebuild
  PROVE  AnchoringInv'
<1>1. PICK s \in DOMAIN row : row' = [q \in DOMAIN row |-> IF q < s THEN row[q] ELSE rebuilds']
  BY DEF Rebuild
<1>2. /\ row \in Seq(Nat) /\ rebuilds \in Nat /\ rebuilds' = rebuilds + 1
      /\ \A q \in DOMAIN row : row[q] <= rebuilds
  BY DEF AnchoringInv, AnchoringTypeOK, Rebuild
<1>3. /\ row' \in Seq(Nat) /\ Len(row') = Len(row) /\ DOMAIN row' = DOMAIN row
      /\ Len(row) \in Nat /\ rebuilds' \in Nat
  BY <1>1, <1>2
<1>4. RowsSound'
  BY <1>1, <1>2, <1>3 DEF RowsSound
<1>5. Evolves
  BY <1>2, <1>3 DEF Evolves, Rebuild
<1>6. TablesTypeOK'
  BY <1>3 DEF TablesTypeOK, AnchoringInv, AnchoringTypeOK, Rebuild
<1>7. QED
  BY <1>4, <1>5, <1>6, OthersStep DEF Rebuild

(* Forks move transactions, but not those that are final.                  *)
LEMMA NodeMoves ==
  ASSUME AnchoringInv, NodeStep
  PROVE  AnchoringInv'
<1>1. PICK i \in DOMAIN tx, state \in TxStates :
        /\ tx[i].state # "final"
        /\ tx' = [tx EXCEPT ![i].state = state]
  BY DEF NodeStep
<1>2. tx \in Seq([seq : Nat, hash : Nat, state : TxStates])
  BY DEF AnchoringInv, AnchoringTypeOK
<1>3. /\ tx' \in Seq([seq : Nat, hash : Nat, state : TxStates])
      /\ DOMAIN tx' = DOMAIN tx
      /\ \A j \in DOMAIN tx : /\ tx'[j].seq = tx[j].seq /\ tx'[j].hash = tx[j].hash
                              /\ tx[j].state = "final" => tx'[j].state = "final"
  <2>1. DOMAIN tx' = DOMAIN tx /\ DOMAIN tx = 1..Len(tx) /\ Len(tx) \in Nat
    BY <1>1, <1>2
  <2>2. ASSUME NEW j \in DOMAIN tx
        PROVE  /\ tx'[j] \in [seq : Nat, hash : Nat, state : TxStates]
               /\ tx'[j].seq = tx[j].seq /\ tx'[j].hash = tx[j].hash
               /\ tx[j].state = "final" => tx'[j].state = "final"
    <3>1. tx[j] \in [seq : Nat, hash : Nat, state : TxStates]
      BY <1>2, ElementOfSeq, <2>1
    <3>2. CASE j = i
      BY <1>1, <3>1, <3>2
    <3>3. CASE j # i
      BY <1>1, <3>1, <3>3
    <3>4. QED
      BY <3>2, <3>3
  <2>3. [tx[i] EXCEPT !.state = state] \in [seq : Nat, hash : Nat, state : TxStates]
    <3>1. tx[i] \in [seq : Nat, hash : Nat, state : TxStates]
      BY <1>2, <2>1, ElementOfSeq
    <3>2. QED
      BY <3>1
  <2>4. tx' \in Seq([seq : Nat, hash : Nat, state : TxStates])
    BY <1>1, <1>2, <2>1, <2>3, ExceptSeq
  <2>5. QED
    BY <2>1, <2>2, <2>4
<1>4. UNCHANGED <<row, rebuilds, anchor, file, held, audit, req>>
  BY DEF NodeStep
<1>5. Evolves
  BY <1>3, <1>4 DEF Evolves, AnchoringInv, AnchoringTypeOK
<1>6. TablesTypeOK' /\ RowsSound'
  BY <1>3, <1>4 DEF TablesTypeOK, RowsSound, AnchoringInv, AnchoringTypeOK
<1>7. QED
  BY <1>4, <1>5, <1>6, OthersStep
---------------------------------------------------------------------------
LEMMA AnchoringStep ==
  ASSUME AnchoringInv, [Next]_vars
  PROVE  AnchoringInv'
<1>1. CASE Checkpoint
  BY <1>1, RowJoins, OthersStep DEF Checkpoint
<1>2. ASSUME NEW r \in Requests, Progress(r) PROVE AnchoringInv'
  BY <1>2, FailStep, ReadHeadStep, AnchorFileStep, SendObserverStep, ProviderDone,
     ChainAnswerLostStep, sendTransactionStep, RecordStep DEF Progress
<1>3. CASE UNCHANGED vars
  <2>1. UNCHANGED data /\ audit' = audit /\ req' = req /\ audit \subseteq Names
    BY <1>3 DEF vars, data, AnchoringInv, AnchoringTypeOK
  <2>2. QED
    BY <2>1, DataStay, OthersStep DEF data
<1>4. QED
  BY <1>1, <1>2, <1>3, TransitionStep, AnchorRouteStep, CrashStep, RebuildStep, NodeMoves DEF Next

LEMMA AnchoringStart == Init => AnchoringInv
<1> SUFFICES ASSUME Init PROVE AnchoringInv
  OBVIOUS
<1>1. row = << >> /\ DOMAIN row = {} /\ tx = << >> /\ anchor = {}
  BY DEF Init
<1>2. AnchoringTypeOK
  BY <1>1 DEF Init, AnchoringTypeOK
<1>3. ASSUME NEW r \in Requests PROVE HandlerSound(req[r])
  BY DEF Init, HandlerSound, Idle, Answered, Providers
<1>4. QED
  BY <1>1, <1>2, <1>3 DEF AnchoringInv

(* Everything the handlers rely on holds at all times.                     *)
THEOREM AnchoringAlwaysInv == Spec => []AnchoringInv
BY AnchoringStart, AnchoringStep, PTL DEF Spec

(* Every Anchor row stands for an entry that is in the file, in some       *)
(* observer's hands or final on the chain, whatever failed, timed out or   *)
(* died on the way (AnchorService, providers).                             *)
THEOREM AnchorsAreOutside == Spec => []RecordedIsOutside
<1>1. AnchoringInv => RecordedIsOutside
  BY DEF AnchoringInv, Backed, RecordedIsOutside
<1>2. QED
  BY <1>1, AnchoringAlwaysInv, PTL

(* anchor-verify raises no false alarm while nobody recomputed the chain.  *)
THEOREM NoFalseAlarm == Spec => []VerifyNoFalseAlarm
<1>1. AnchoringInv => VerifyNoFalseAlarm
  <2> SUFFICES ASSUME AnchoringInv, rebuilds = 0, NEW a \in chainAnchors
               PROVE  found(a) /\ matches(a)
    BY DEF VerifyNoFalseAlarm, mismatches
  <2>1. /\ a.target = "BLOCKCHAIN" /\ Outside(a) /\ InChain(a) /\ a.hash \in Nat
        /\ a.hash <= 0 /\ a.seq \in DOMAIN row
    BY DEF chainAnchors, AnchoringInv, AnchoringTypeOK, Backed
  <2>2. row[a.seq] \in Nat /\ row[a.seq] <= 0
    BY <2>1 DEF AnchoringInv, AnchoringTypeOK
  <2>3. row[a.seq] = a.hash
    BY <2>1, <2>2
  <2>4. QED
    BY <2>1, <2>3 DEF found, matches, Outside, InChain
<1>2. QED
  BY <1>1, AnchoringAlwaysInv, PTL

(* ... and does not pass over a row that was recomputed after it was read  *)
(* for anchoring.                                                          *)
THEOREM RebuildIsExposed == Spec => []RebuildExposed
<1>1. AnchoringInv => RebuildExposed
  <2> SUFFICES ASSUME AnchoringInv, NEW a \in chainAnchors, row[a.seq] # a.hash
               PROVE  ~anchorVerify
    BY DEF RebuildExposed
  <2>1. tx[a.reference].hash = a.hash
    BY DEF chainAnchors, AnchoringInv, Backed, Outside
  <2>2. a \in mismatches
    BY <2>1 DEF mismatches, matches
  <2>3. QED
    BY <2>2 DEF anchorVerify
<1>2. QED
  BY <1>1, AnchoringAlwaysInv, PTL

(* The anchor a transition gets is for its own row or a later one, so by   *)
(* prevHash it covers the row it is asked for.                             *)
THEOREM CallerIsCovered == Spec => []CoversCaller
<1>1. AnchoringInv => CoversCaller
  BY DEF AnchoringInv, Backed, CoversCaller
<1>2. QED
  BY <1>1, AnchoringAlwaysInv, PTL

(* When autoAnchor returns, each configured target has its audit entry,    *)
(* also those after one that failed, timed out or is misspelt.             *)
THEOREM EveryTargetTried == Spec => []TargetsTried
<1>1. AnchoringInv => TargetsTried
  BY DEF AnchoringInv, HandlerSound, TargetsTried
<1>2. QED
  BY <1>1, AnchoringAlwaysInv, PTL
===========================================================================
