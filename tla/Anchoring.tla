----------------------------- MODULE Anchoring -----------------------------
(***************************************************************************)
(* Fixing the head of the checkpoint chain in places the association       *)
(* cannot rewrite (AnchorService and its providers FILE, OBSERVERS and     *)
(* BLOCKCHAIN), and reading a blockchain back to compare (anchor-verify).  *)
(*                                                                         *)
(* A checkpoint row is its seq and its hash; the hash of row s is new each *)
(* time the chain is recomputed from s or before.  Calls to the database,  *)
(* the gateway and the node may fail or be answered late, a request may    *)
(* die between two of them, and other requests append rows meanwhile.      *)
(* Wording, explorer addresses and the content of detail are left out.     *)
(***************************************************************************)
EXTENDS Integers, Sequences, FiniteSets

CONSTANTS
  Requests,         \* the requests that call anchorLatest
  ANCHOR_TARGETS,   \* the configured targets, in their order
  ANCHOR_OBSERVERS, \* the recipients
  MaxSeq,           \* bound: rows of the chain
  MaxTx,            \* bound: transactions sent
  MaxRebuilds       \* bound: how often the chain is recomputed

Providers == {"FILE", "OBSERVERS", "BLOCKCHAIN"}

ASSUME TargetsAssumption == ANCHOR_TARGETS \in Seq(STRING) /\ ANCHOR_TARGETS # << >>
ASSUME AnchoringBounds ==
  {MaxSeq, MaxTx, MaxRebuilds} \subseteq Nat /\ IsFiniteSet(ANCHOR_OBSERVERS)

VARIABLES
  row,      \* the hashes of the Checkpoint rows, by seq
  rebuilds, \* how often the chain was recomputed
  anchor,   \* the Anchor rows, with what they were made from
  file,     \* lines of checkpoints.log
  held,     \* what each observer received
  tx,       \* the transactions the node ever took, by reference
  audit,    \* targets with an entry ANCHOR or ANCHOR_FAILED of autoAnchor
  req       \* per request, the handler's program counter and locals

vars == <<row, rebuilds, anchor, file, held, tx, audit, req>>

(* A request comes once, and is answered or dies.                          *)
Idle     == [pc |-> "idle"]
Dead     == [pc |-> "dead"]
Answered(auto) == [pc |-> "done", auto |-> auto]
Over     == {Dead, Answered(TRUE), Answered(FALSE)}
TxStates == {"pool", "mined", "final", "reverted", "dropped"}

Init ==
  /\ row = << >> /\ rebuilds = 0
  /\ anchor = {} /\ file = {} /\ tx = << >> /\ audit = {}
  /\ held = [o \in ANCHOR_OBSERVERS |-> {}]
  /\ req = [r \in Requests |-> Idle]
---------------------------------------------------------------------------
Goto(r, local) == req' = [req EXCEPT ![r] = local]
At(r, pc)      == req[r].pc = pc
target(r)      == req[r].rest[1]
Entry(r)       == [seq |-> req[r].seq, hash |-> req[r].hash]

(* The rows others make: createCheckpoint, and an owner of the database    *)
(* who recomputes the chain from row s on.                                 *)
NewRow == row' = Append(row, rebuilds)

Checkpoint ==
  /\ Len(row) < MaxSeq
  /\ NewRow
  /\ UNCHANGED <<rebuilds, anchor, file, held, tx, audit, req>>

Rebuild ==
  /\ rebuilds < MaxRebuilds
  /\ rebuilds' = rebuilds + 1
  /\ \E s \in DOMAIN row : row' = [q \in DOMAIN row |-> IF q < s THEN row[q] ELSE rebuilds']
  /\ UNCHANGED <<anchor, file, held, tx, audit, req>>
---------------------------------------------------------------------------
(* Targets still to do; asked says which row the caller wants covered.     *)
Anchoring(rest, auto, asked) ==
  [pc |-> "head", rest |-> rest, auto |-> auto, asked |-> asked]

(* A transition makes its row and then calls autoAnchor.                   *)
Transition(r) ==
  /\ At(r, "idle") /\ Len(row) < MaxSeq
  /\ NewRow
  /\ Goto(r, Anchoring(ANCHOR_TARGETS, TRUE, Len(row) + 1))
  /\ UNCHANGED <<rebuilds, anchor, file, held, tx, audit>>

(* The manual route anchors at one target, whatever it is called.          *)
AnchorRoute(r, t) ==
  /\ At(r, "idle")
  /\ Goto(r, Anchoring(<<t>>, FALSE, 0))
  /\ UNCHANGED <<row, rebuilds, anchor, file, held, tx, audit>>

NextTarget(r) ==
  IF Len(req[r].rest) = 1 THEN Answered(req[r].auto)
  ELSE Anchoring(Tail(req[r].rest), req[r].auto, req[r].asked)

(* anchorLatest returned or threw.  autoAnchor writes an audit entry and   *)
(* goes on; the route answers.                                             *)
FinishedStops(r, ok) ==   \* autoAnchor without its try
  /\ audit' = IF req[r].auto THEN audit \cup {target(r)} ELSE audit
  /\ Goto(r, IF ok THEN NextTarget(r) ELSE Answered(req[r].auto))

Finished(r, ok) ==
  /\ audit' = IF req[r].auto THEN audit \cup {target(r)} ELSE audit
  /\ Goto(r, NextTarget(r))

Fails(r) ==
  /\ Finished(r, FALSE)
  /\ UNCHANGED <<row, rebuilds, anchor, file, held, tx>>

(* The row anchorLatest takes: the last one by then.                       *)
FirstRow  == 1
LatestRow == Len(row)

ReadHead(r) ==
  /\ At(r, "head")
  /\ target(r) \in Providers
  /\ row # << >>
  /\ Goto(r, [pc |-> target(r), rest |-> req[r].rest, auto |-> req[r].auto,
              asked |-> req[r].asked, seq |-> LatestRow, hash |-> row[LatestRow],
              left |-> ANCHOR_OBSERVERS, sent |-> 0, ref |-> 0])
  /\ UNCHANGED <<row, rebuilds, anchor, file, held, tx, audit>>

(* An unknown target, no row, or a call that is refused.                   *)
NoHead(r) == At(r, "head") /\ Fails(r)
---------------------------------------------------------------------------
(* FileAnchorProvider                                                      *)

AnchorFile(r) ==
  /\ At(r, "FILE")
  /\ file' = file \cup {Entry(r)}
  /\ Goto(r, [req[r] EXCEPT !.pc = "record"])
  /\ UNCHANGED <<row, rebuilds, anchor, held, tx, audit>>

FileFails(r) == At(r, "FILE") /\ Fails(r)
---------------------------------------------------------------------------
(* ObserverAnchorProvider: one message after the other                     *)

SendObserver(r) ==
  /\ At(r, "OBSERVERS")
  /\ \E o \in req[r].left :
       \/ /\ held' = [held EXCEPT ![o] = @ \cup {Entry(r)}]
          /\ Goto(r, [req[r] EXCEPT !.left = @ \ {o}, !.sent = @ + 1])
       \/ /\ held' = held
          /\ Goto(r, [req[r] EXCEPT !.left = @ \ {o}])
  /\ UNCHANGED <<row, rebuilds, anchor, file, tx, audit>>

(* Enough that one of them was sent.                                       *)
SentToAnybody(r) == TRUE   \* failures not looked at
SentToSome(r)    == req[r].sent > 0

ObserversSent(r) ==
  /\ At(r, "OBSERVERS") /\ req[r].left = {}
  /\ SentToSome(r)
  /\ Goto(r, [req[r] EXCEPT !.pc = "record"])
  /\ UNCHANGED <<row, rebuilds, anchor, file, held, tx, audit>>

ObserversFail(r) ==
  /\ At(r, "OBSERVERS") /\ req[r].left = {}
  /\ ~SentToSome(r)
  /\ Fails(r)
---------------------------------------------------------------------------
(* BlockchainAnchorProvider                                                *)

chainPayload(r) == [seq |-> req[r].seq, hash |-> req[r].hash, state |-> "pool"]

(* Another chain id, no key, no balance, or the node refuses or is silent: *)
(* in the last case it may have taken the transaction all the same.        *)
ChainFails(r) == At(r, "BLOCKCHAIN") /\ Fails(r)

ChainAnswerLost(r) ==
  /\ At(r, "BLOCKCHAIN") /\ Len(tx) < MaxTx
  /\ tx' = Append(tx, chainPayload(r))
  /\ Finished(r, FALSE)
  /\ UNCHANGED <<row, rebuilds, anchor, file, held>>

sendTransaction(r) ==
  /\ At(r, "BLOCKCHAIN") /\ Len(tx) < MaxTx
  /\ tx' = Append(tx, chainPayload(r))
  /\ Goto(r, [req[r] EXCEPT !.pc = "wait", !.ref = Len(tx) + 1])
  /\ UNCHANGED <<row, rebuilds, anchor, file, held, audit>>

(* tx.wait(confirmations, timeoutMs) with status 1, with an error, or late *)
ConfirmedEarly(t) == t.state \in {"pool", "mined", "final"}   \* zero confirmations
Confirmed(t)      == t.state = "final"

WaitConfirmed(r) ==
  /\ At(r, "wait")
  /\ Confirmed(tx[req[r].ref])
  /\ Goto(r, [req[r] EXCEPT !.pc = "record"])
  /\ UNCHANGED <<row, rebuilds, anchor, file, held, tx, audit>>

WaitFails(r) ==
  /\ At(r, "wait")
  /\ ~Confirmed(tx[req[r].ref])
  /\ Fails(r)

(* The node: blocks, forks, and transactions that are replaced or evicted. *)
(* A transaction with enough confirmations stays.                          *)
NodeStep ==
  /\ \E i \in DOMAIN tx, state \in TxStates :
       /\ <<tx[i].state, state>> \in {<<"pool", "mined">>, <<"pool", "dropped">>,
            <<"mined", "pool">>, <<"mined", "final">>, <<"mined", "reverted">>}
       /\ tx' = [tx EXCEPT ![i].state = state]
  /\ UNCHANGED <<row, rebuilds, anchor, file, held, audit, req>>
---------------------------------------------------------------------------
(* recordAnchor, for the row that was read                                 *)

Record(r) ==
  /\ At(r, "record")
  /\ anchor' = anchor \cup {[seq |-> req[r].seq, target |-> target(r), reference |-> req[r].ref,
                             hash |-> req[r].hash, asked |-> req[r].asked]}
  /\ Finished(r, TRUE)
  /\ UNCHANGED <<row, rebuilds, file, held, tx>>

RecordFails(r) == At(r, "record") /\ Fails(r)

Crash(r) ==
  /\ req[r] \notin Over \cup {Idle}
  /\ Goto(r, Dead)
  /\ UNCHANGED <<row, rebuilds, anchor, file, held, tx, audit>>

Progress(r) ==
  \/ ReadHead(r) \/ NoHead(r) \/ AnchorFile(r) \/ FileFails(r)
  \/ SendObserver(r) \/ ObserversSent(r) \/ ObserversFail(r)
  \/ ChainFails(r) \/ ChainAnswerLost(r) \/ sendTransaction(r) \/ WaitConfirmed(r) \/ WaitFails(r)
  \/ Record(r) \/ RecordFails(r)

Next ==
  \/ Checkpoint \/ Rebuild \/ NodeStep
  \/ \E r \in Requests :
       \/ Transition(r) \/ \E t \in Providers : AnchorRoute(r, t)
       \/ Progress(r) \/ Crash(r)

Spec == Init /\ [][Next]_vars
---------------------------------------------------------------------------
(* scripts/anchor-verify                                                   *)

chainAnchors == {a \in anchor : a.target = "BLOCKCHAIN"}

(* getTransaction finds what is in the pool or in a block, also when it    *)
(* failed; the payload is then compared with the row as it is now.         *)
found(a) == tx[a.reference].state # "dropped"

matchesSeqOnly(a) == tx[a.reference].seq = a.seq   \* the hash not compared
matches(a) == tx[a.reference].seq = a.seq /\ tx[a.reference].hash = row[a.seq]

mismatches   == {a \in chainAnchors : ~(found(a) /\ matches(a))}
anchorVerify == chainAnchors # {} /\ mismatches = {}
---------------------------------------------------------------------------
(* Properties                                                              *)

(* An Anchor row is never a mere claim: the entry it stands for is in the  *)
(* file, in some observer's hands or final on the chain, whatever failed,  *)
(* timed out or died on the way (AnchorService, providers).                *)
Outside(a) ==
  LET entry == [seq |-> a.seq, hash |-> a.hash] IN
  CASE a.target = "FILE"       -> entry \in file
    [] a.target = "OBSERVERS"  -> \E o \in ANCHOR_OBSERVERS : entry \in held[o]
    [] a.target = "BLOCKCHAIN" -> /\ tx[a.reference].state = "final"
                                  /\ tx[a.reference].hash = a.hash

RecordedIsOutside == \A a \in anchor : Outside(a)

(* anchor-verify raises no false alarm: while nobody recomputed the chain, *)
(* it finds and accepts every blockchain anchor, however many forks and    *)
(* retries there were and whichever rows were added meanwhile.             *)
VerifyNoFalseAlarm == rebuilds = 0 => mismatches = {}

(* ... and it does not pass over a row that was recomputed after it was    *)
(* read for anchoring, even if that happened while its transaction waited. *)
RebuildExposed ==
  \A a \in chainAnchors : row[a.seq] # a.hash => ~anchorVerify

(* The anchor a transition gets may be for a later row than its own, never *)
(* for an earlier one, so by prevHash it covers the row it is asked for    *)
(* (anchorLatest reads the head after createCheckpoint returned).          *)
CoversCaller == \A a \in anchor : a.asked <= a.seq

(* One target that fails, times out or is misspelt does not keep           *)
(* autoAnchor from the others: when it returns, each has its audit entry.  *)
TargetsTried ==
  \A r \in Requests : req[r] = Answered(TRUE) =>
    \A i \in DOMAIN ANCHOR_TARGETS : ANCHOR_TARGETS[i] \in audit
---------------------------------------------------------------------------
(* The inductive invariant behind them.                                    *)

Entries == [seq : Nat, hash : Nat]
Names   == Providers \cup {ANCHOR_TARGETS[i] : i \in DOMAIN ANCHOR_TARGETS}
Targets == Seq(Names) \ {<< >>}
HeadReq == [pc : {"head"}, rest : Targets, auto : BOOLEAN, asked : Nat]
WorkReq == [pc : Providers \cup {"wait", "record"}, rest : Targets, auto : BOOLEAN, asked : Nat,
            seq : Nat, hash : Nat, left : SUBSET ANCHOR_OBSERVERS, sent : Nat, ref : Nat]

AnchoringTypeOK ==
  /\ row \in Seq(Nat) /\ rebuilds \in Nat
  /\ anchor \subseteq [seq : Nat, target : Names, reference : Nat, hash : Nat, asked : Nat]
  /\ file \subseteq Entries
  /\ held \in [ANCHOR_OBSERVERS -> SUBSET Entries]
  /\ tx \in Seq([seq : Nat, hash : Nat, state : TxStates])
  /\ audit \subseteq Names
  /\ req \in [Requests -> {Idle} \cup Over \cup HeadReq \cup WorkReq]

(* A claim, recorded or about to be: it is outside, for a row that exists  *)
(* under a hash that some row has had, and covers the row asked for.       *)
InChain(a) == a.reference \in DOMAIN tx /\ tx[a.reference].seq = a.seq

Backed(a) ==
  /\ a.target \in Providers
  /\ a.seq \in DOMAIN row /\ a.hash <= rebuilds /\ a.asked <= a.seq
  /\ Outside(a)
  /\ a.target = "BLOCKCHAIN" => InChain(a)

Claim(l) == [seq |-> l.seq, target |-> l.rest[1], reference |-> l.ref,
             hash |-> l.hash, asked |-> l.asked]

(* What holds of the locals l of a handler on its way there.               *)
OnItsWay(l) ==
  /\ l.rest[1] \in Providers
  /\ l.seq \in DOMAIN row /\ l.hash <= rebuilds /\ l.asked <= l.seq
  /\ l.pc \in Providers => l.rest[1] = l.pc
  /\ l.pc = "OBSERVERS" /\ l.sent > 0 =>
       \E o \in ANCHOR_OBSERVERS : [seq |-> l.seq, hash |-> l.hash] \in held[o]
  /\ l.pc = "wait" => /\ l.rest[1] = "BLOCKCHAIN"
                      /\ InChain(Claim(l)) /\ tx[l.ref].hash = l.hash
  /\ l.pc = "record" => Backed(Claim(l))

(* Every target is still to do or has its audit entry.                     *)
NoneSkipped(l) ==
  \A i \in DOMAIN ANCHOR_TARGETS :
    \/ ANCHOR_TARGETS[i] \in audit
    \/ \E j \in DOMAIN l.rest : l.rest[j] = ANCHOR_TARGETS[i]

HandlerSound(l) ==
  /\ l.pc = "head" => l.asked <= Len(row)
  /\ l.pc \in Providers \cup {"wait", "record"} => OnItsWay(l)
  /\ l.pc \in Providers \cup {"head", "wait", "record"} /\ l.auto => NoneSkipped(l)
  /\ l = Answered(TRUE) =>
       \A i \in DOMAIN ANCHOR_TARGETS : ANCHOR_TARGETS[i] \in audit

AnchoringInv ==
  /\ AnchoringTypeOK
  /\ \A s \in DOMAIN row : row[s] <= rebuilds
  /\ \A a \in anchor : Backed(a)
  /\ \A r \in Requests : HandlerSound(req[r])
===========================================================================
