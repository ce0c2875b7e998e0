---------------------------- MODULE TamperCheck ----------------------------
(***************************************************************************)
(* scripts/tamper-check: somebody with the owner's rights edits the tables *)
(* of a finished election behind the application's back, and verifyChain   *)
(* must notice.  The script tries one edit at a time and undoes it; here   *)
(* edits of all its kinds, at any row, also pile up.  Its checkpoints are  *)
(* made by the createCheckpoint of CheckpointChain, with nobody else in it. *)
(***************************************************************************)
EXTENDS CheckpointChain

CONSTANTS
  Script,   \* the one caller of createCheckpoint
  Forged,   \* the voter who is not a member
  MaxEdits  \* bound: edits before they are undone

ASSUME ScriptAssumption ==
  Requests = {Script} /\ Forged \in Voters /\ MaxEdits \in Nat \ {0}

VARIABLES
  step,   \* what the script does next
  edits,  \* how many edits are in the tables
  saved,  \* the tables before the first of them, or Nothing
  pinned  \* the last honest head and what it certifies, as kept outside

tamperVars == <<chainVars, step, edits, saved, pinned>>

Steps   == {"seal", "final", "results", "rest"}
Tables  == [roster |-> roster, ballot |-> ballot, tallyResult |-> tallyResult,
            checkpoint |-> checkpoint]
Nothing == [seq |-> 0]
Boxes   == UNION {{{[id |-> id, vote |-> vote[id]] : id \in ids} : vote \in [ids -> Votes]} :
                    ids \in SUBSET BallotIds}

(* The election as the script sets it up: a roster, everybody's ballot, and *)
(* no checkpoint yet.                                                      *)
Init ==
  /\ roster = Voters \ {Forged}
  /\ ballot \in {box \in Boxes : Cardinality(box) = Cardinality(roster)}
  /\ tallyResult = {} /\ invalidVotes = 0 /\ checkpoint = <<>>
  /\ call = [r \in Requests |-> NoCall]
  /\ step = "seal" /\ edits = 0 /\ saved = Nothing /\ pinned = Nothing
---------------------------------------------------------------------------
(* The script calls createCheckpoint and waits for it.                     *)

KindOf == [seal |-> "ROSTER_SEALED", final |-> "FINAL", results |-> "RESULTS"]

BeginRow ==
  /\ step # "rest"
  /\ Begin(Script, KindOf[step])
  /\ UNCHANGED <<step, edits, saved, pinned>>

MakeRow == CallStep(Script) /\ UNCHANGED <<step, edits, saved, pinned>>

(* What an anchor allows to compare: the row it names is still the one.    *)
PinHolds ==
  pinned.seq \in DOMAIN checkpoint /\ checkpoint[pinned.seq].hash = pinned.hash

Pin(s) == [seq |-> s, hash |-> checkpoint[s].hash,
           ballot |-> ballot, roster |-> roster, tallyResult |-> tallyResult]

(* The row is there; that of an honest chain is pinned outside.            *)
RowMade ==
  /\ call[Script].pc = "done"
  /\ EndCall(Script)
  /\ step' = IF step = "seal" THEN "final" ELSE "rest"
  /\ \E s \in DOMAIN checkpoint :
       /\ IsHead(s)
       /\ pinned' = IF step # "seal" /\ (pinned = Nothing \/ PinHolds) THEN Pin(s) ELSE pinned
  /\ UNCHANGED <<edits, saved>>

Resting == step = "rest" /\ edits = 0
HeadIs(kind) == \E s \in DOMAIN checkpoint : IsHead(s) /\ checkpoint[s].body.kind = kind

(* Scenario 7 begins with the publication of the results.                  *)
Publish ==
  /\ Resting /\ HeadIs("FINAL")
  /\ tallyResult' = {[id |-> choice, candidateId |-> choice,
                      votes |-> Cardinality({b \in ballot : b.vote = choice})] :
                        choice \in {b.vote : b \in ballot}}
  /\ step' = "results"
  /\ UNCHANGED <<roster, ballot, invalidVotes, checkpoint, call, edits, saved, pinned>>
---------------------------------------------------------------------------
(* Edits.                                                                  *)

Editing ==
  /\ step = "rest" /\ edits < MaxEdits
  /\ edits' = edits + 1
  /\ saved' = IF edits = 0 THEN Tables ELSE saved
  /\ UNCHANGED <<invalidVotes, call, step, pinned>>

AddBallot ==
  /\ Editing
  /\ \E id \in BallotIds, vote \in Votes :
       /\ \A b \in ballot : b.id # id
       /\ ballot' = ballot \cup {[id |-> id, vote |-> vote]}
  /\ UNCHANGED <<roster, tallyResult, checkpoint>>

DeleteBallot ==
  /\ Editing
  /\ \E b \in ballot : ballot' = ballot \ {b}
  /\ UNCHANGED <<roster, tallyResult, checkpoint>>

SwapBallot ==
  /\ Editing
  /\ \E b \in ballot, vote \in Votes :
       /\ vote # b.vote
       /\ ballot' = (ballot \ {b}) \cup {[b EXCEPT !.vote = vote]}
  /\ UNCHANGED <<roster, tallyResult, checkpoint>>

AddVoter ==
  /\ Editing
  /\ Forged \notin roster
  /\ roster' = roster \cup {Forged}
  /\ UNCHANGED <<ballot, tallyResult, checkpoint>>

EditRow ==
  /\ Editing
  /\ \E s \in DOMAIN checkpoint : checkpoint' = [checkpoint EXCEPT ![s].body.ballotCount = @ + 1]
  /\ UNCHANGED <<roster, ballot, tallyResult>>

DeleteRow ==
  /\ Editing
  /\ \E s \in DOMAIN checkpoint :
       checkpoint' = [t \in DOMAIN checkpoint \ {s} |-> checkpoint[t]]
  /\ UNCHANGED <<roster, ballot, tallyResult>>

EditResults ==
  /\ Editing
  /\ HeadIs("RESULTS")
  /\ \E row \in tallyResult :
       tallyResult' = (tallyResult \ {row}) \cup {[row EXCEPT !.votes = @ + 1]}
  /\ UNCHANGED <<roster, ballot, checkpoint>>

(* Everything is put back as it was.                                       *)
Restore ==
  /\ edits > 0 /\ edits' = 0
  /\ roster' = saved.roster /\ ballot' = saved.ballot
  /\ tallyResult' = saved.tallyResult /\ checkpoint' = saved.checkpoint
  /\ saved' = Nothing
  /\ UNCHANGED <<invalidVotes, call, step, pinned>>

(* Scenario 8: other ballots, and the whole chain made anew over them.     *)
Rebuild ==
  /\ Resting /\ pinned # Nothing
  /\ checkpoint' = <<>>
  /\ ballot' \in {box \in Boxes : Cardinality(box) = Cardinality(ballot)}
  /\ step' = "seal"
  /\ UNCHANGED <<roster, tallyResult, invalidVotes, call, edits, saved, pinned>>

Next ==
  \/ BeginRow \/ MakeRow \/ RowMade \/ Publish \/ Rebuild \/ Restore
  \/ AddBallot \/ DeleteBallot \/ SwapBallot \/ AddVoter
  \/ EditRow \/ DeleteRow \/ EditResults

Spec == Init /\ [][Next]_tamperVars
---------------------------------------------------------------------------
(* Properties                                                              *)

HeadDeleted ==
  \E s \in DOMAIN saved.checkpoint :
    /\ \A t \in DOMAIN saved.checkpoint : t <= s
    /\ DOMAIN checkpoint = DOMAIN saved.checkpoint \ {s}

(* verifyChain notices every single edit of the script, at whatever row it *)
(* is made, also in a chain that was rebuilt before; only the deletion of  *)
(* the last checkpoint leaves nothing that refers to it.  It passes again  *)
(* once the tables are as they were, and it passes a chain rebuilt as a    *)
(* whole, which is why there are anchors.                                  *)
VerdictRight ==
  /\ Resting => verifyChain
  /\ edits = 1 /\ ~HeadDeleted => ~verifyChain

(* With the last honest row pinned outside, no pile of edits and no        *)
(* rebuilding gets past both checks: where verifyChain passes and the pin  *)
(* still holds, ballots, roster and results are the ones it certifies.     *)
OnlyPinnedPasses ==
  step = "rest" /\ verifyChain /\ PinHolds =>
    /\ ballot = pinned.ballot /\ roster = pinned.roster
    /\ HeadIs("RESULTS") => tallyResult = pinned.tallyResult

---------------------------------------------------------------------------
(* The inductive invariant behind them.                                    *)

(* The chain of the script over a box and the results, to which nobody but *)
(* createCheckpoint has added: its rows, and the hash of the first s.      *)
Members == Voters \ {Forged}

Body(s, box, rows) ==
  [seq |-> s, kind |-> <<"ROSTER_SEALED", "FINAL", "RESULTS">>[s],
   ballotCount |-> Cardinality(box), merkleRoot |-> box,
   rosterHash |-> IF s = 1 THEN <<Members>> ELSE Null,
   resultsHash |-> IF s = 3 THEN <<[rows |-> rows, invalid |-> 0]>> ELSE Null]

HashOf(s, box, rows) == [i \in 1..s |-> Body(i, box, rows)]

Row(s, box, rows) ==
  [body |-> Body(s, box, rows), prevHash |-> HashOf(s - 1, box, rows), hash |-> HashOf(s, box, rows)]

Chain(n, box, rows) == [s \in 1..n |-> Row(s, box, rows)]

Honest(tables, n) ==
  /\ tables.roster = Members /\ tables.ballot \in Boxes
  /\ tables.checkpoint = Chain(n, tables.ballot, tables.tallyResult)

(* The tables as they are but for the edits.                               *)
Base == IF edits = 0 THEN Tables ELSE saved

(* The locals c of the call that makes row k + 1, over tables that stand   *)
(* still.                                                                  *)
Locals(k) ==
  [pc : CallPc \ {"failed"}, kind : Kinds, prevSeq : 0..2,
   prevHash : {GENESIS, HashOf(k, ballot, tallyResult)},
   leaves : SUBSET ballot, cursor : BallotIds \cup {-1}, rosterHash : {Null, <<Members>>},
   rows : {Null, <<tallyResult>>}, invalid : {Null, <<0>>}]

MakingSound(c, k) ==
  /\ c \in Locals(k)
  /\ c.pc # "idle" => c.kind = KindOf[step]
  /\ c.pc = "prev" => c = [NoCall EXCEPT !.pc = "prev", !.kind = KindOf[step]]
  /\ AfterPrev(c) =>
       /\ c.prevSeq = k /\ c.prevHash = HashOf(k, ballot, tallyResult)
       /\ \A b \in ballot : (c.pc = "scan" => b.id <= c.cursor) => b \in c.leaves
       /\ c.rosterHash = IF c.pc = "insert" /\ step = "seal" THEN <<Members>> ELSE Null
       /\ c.pc = "roster" => step = "seal"
       /\ c.pc = "results" => step = "results"
       /\ c.pc = "insert" /\ step = "results" => c.rows # Null /\ c.invalid # Null

RowsBefore == CASE step = "seal" -> 0 [] step = "final" -> 1 [] step = "results" -> 2 [] OTHER -> 3

Making ==
  step # "rest" =>
    /\ edits = 0
    /\ MakingSound(call[Script], RowsBefore)
    /\ Honest(Tables, IF call[Script].pc = "done" THEN RowsBefore + 1 ELSE RowsBefore)

(* A pin is the hash of an honest chain; one that was taken before the     *)
(* results were published does not fit the chain they were published in.   *)
PinSound ==
  pinned # Nothing =>
    /\ pinned.seq \in {2, 3} /\ pinned.roster = Members
    /\ pinned.hash = HashOf(pinned.seq, pinned.ballot, pinned.tallyResult)

AtRest ==
  step = "rest" =>
    /\ call[Script] = NoCall
    /\ Honest(Base, 2) \/ Honest(Base, 3)
    /\ Honest(Base, 3) /\ pinned.seq = 2 => pinned.hash # HashOf(2, Base.ballot, Base.tallyResult)

(* An edit rewrites no hash.                                               *)
Rows(chain) == \A s \in DOMAIN chain : DOMAIN chain[s] = {"body", "prevHash", "hash"}

HashesStay ==
  /\ Rows(checkpoint) /\ DOMAIN checkpoint \subseteq DOMAIN Base.checkpoint
  /\ \A s \in DOMAIN checkpoint : /\ checkpoint[s].prevHash = Base.checkpoint[s].prevHash
                                  /\ checkpoint[s].hash = Base.checkpoint[s].hash

(* What a single edit leaves alone, and what it does not.                  *)
Only(table) ==
  /\ table # "roster"      => roster = saved.roster
  /\ table # "ballot"      => ballot = saved.ballot
  /\ table # "tallyResult" => tallyResult = saved.tallyResult
  /\ table # "checkpoint"  => checkpoint = saved.checkpoint

OneEdit ==
  edits = 1 =>
    \/ Only("roster") /\ roster # saved.roster
    \/ Only("ballot") /\ ballot # saved.ballot
    \/ Only("tallyResult") /\ tallyResult # saved.tallyResult /\ HeadIs("RESULTS")
    \/ /\ Only("checkpoint") /\ DOMAIN checkpoint = DOMAIN saved.checkpoint
       /\ \E s \in DOMAIN checkpoint : checkpoint[s].body # saved.checkpoint[s].body
    \/ /\ Only("checkpoint")
       /\ \E s \in DOMAIN saved.checkpoint : DOMAIN checkpoint = DOMAIN saved.checkpoint \ {s}

(* An edit of the results leaves rows of numbers.                          *)
Published == [id : Votes, candidateId : Votes, votes : Nat]

Counted == tallyResult \subseteq Published /\ Base.tallyResult \subseteq Published

TamperInv ==
  /\ step \in Steps /\ edits \in Nat /\ DOMAIN call = Requests /\ invalidVotes = 0
  /\ Making /\ AtRest /\ PinSound /\ HashesStay /\ OneEdit /\ Counted
---------------------------------------------------------------------------
(* What the repository says of itself and its code does not always do:     *)
(* TLC refutes it.                                                         *)

(* "It catches: a checkpoint deleted as a whole."                          *)
DeletionNoticed == edits = 1 => ~verifyChain
===========================================================================
