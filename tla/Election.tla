----------------------------- MODULE Election -----------------------------
(***************************************************************************)
(* One election of the voting API, from its creation to the publication of *)
(* its results: VoteService.castBallot and the handlers of AdminService,   *)
(* over the tables they share and the checkpoint chain of CheckpointChain. *)
(*                                                                         *)
(* A handler is a sequence of awaited database calls.  Each of them is one *)
(* atomic action here, and the handlers of different requests interleave   *)
(* freely: API processes share nothing but the database, and hold no lock  *)
(* across two calls.  req[r] is where request r is in its handler, with    *)
(* the local variables it still needs.  A request that is answered (200 or *)
(* an error) becomes Idle and its slot may serve another request.          *)
(*                                                                         *)
(* Left out: the audit log, which is written after the step it records and *)
(* read by no handler; wording, names and times of day; authentication     *)
(* (a vote comes from a roster member, an approval from an admin).         *)
(***************************************************************************)
EXTENDS CheckpointChain

CONSTANTS
  Admins,          \* accounts with the role COMMISSIONER
  Quorum,          \* TALLY_QUORUM
  Names,           \* candidates an admin may put on the ballot paper
  Abstain,         \* the choice null of an opened ballot, NULL in TallyResult
  Garbage,         \* a sealed ballot that does not open
  RosterChunk,     \* rows per createMany of importRoster
  MaxGenerations,  \* bound: how often the candidate list is written
  MaxSeq,          \* bound: manual checkpoints only while the chain is shorter
  Ops,             \* the operations clients call in this instance
  Crashes          \* whether a request may die in the middle of its handler

ASSUME QuorumAssumption      == Quorum \in Nat \ {0}
ASSUME RosterChunkAssumption == RosterChunk \in Nat \ {0}
ASSUME BoundsAssumption      == MaxGenerations \in Nat \ {0} /\ MaxSeq \in Nat
ASSUME CrashesAssumption     == Crashes \in BOOLEAN

(* replaceCandidates deletes the rows and inserts new ones, so a candidate *)
(* id is never used again: it is the generation of the list and the name.  *)
CandidateIds == (1..MaxGenerations) \X Names

ASSUME VotesAssumption  == Votes = CandidateIds \cup {Abstain, Garbage}
ASSUME ChoiceAssumption == /\ Abstain \notin CandidateIds
                           /\ Garbage \notin CandidateIds \cup {Abstain}
ASSUME RowIdsAssumption == RowIds = Admins \X Votes
ASSUME SetsAssumption   == IsFiniteSet(Voters) /\ IsFiniteSet(Admins)

VARIABLES
  status,     \* Election.status
  clock,      \* where now is, relative to startsAt and endsAt
  candidate,  \* the Candidate rows
  hasVoted,   \* the voters whose hasVoted is true
  approval,   \* the admins with a TallyApproval row
  anchored,   \* the seq of every checkpoint with an Anchor row
  req,        \* where each request is in its handler
  closedBox   \* history: the ballots in the box when the status left OPEN

ownVars == <<status, clock, candidate, hasVoted, approval, anchored, req, closedBox>>
vars    == <<chainVars, ownVars>>

Statuses == {"DRAFT", "OPEN", "CLOSED", "TALLIED"}
Clocks   == {"before", "during", "after"}
---------------------------------------------------------------------------
(* Local states of a handler.                                              *)

Idle       == [pc |-> "idle"]
At(pc)     == [pc |-> pc]
(* about to call createCheckpoint(kind), then to continue at pc = then     *)
Checkpointing(kind, then) == [pc |-> "begin", kind |-> kind, then |-> then]

Continuations == {"idle", "open.update", "anchor"}

PlainReq   == [pc : {"idle", "seal.sealed", "seal.count", "open.seal", "open.match",
                     "open.update", "anchor"}]
CastReq    == [pc : {"cast"}, voter : Voters, vote : Votes]
ImportReq  == [pc : {"import.seal", "import.rows"}, rows : SUBSET Voters]
ListReq    == [pc : {"candidates"}, names : SUBSET Names]
BeginReq   == [pc : {"begin"}, kind : Kinds, then : Continuations]
CallReq    == [pc : {"call"}, then : Continuations]
CheckReq   == [pc : {"tally.check"}, admin : Admins, voted : Nullable(Nat),
               ballots : Nullable(Nat), chainOk : Nullable(BOOLEAN)]
ApproveReq == [pc : {"tally.quorum", "tally.claim", "tally.candidates"}, admin : Admins]
CountReq   == [pc : {"tally.scan", "tally.publish"}, admin : Admins,
               valid : SUBSET CandidateIds, opened : SUBSET BallotRow, cursor : Int]

Req == PlainReq \cup CastReq \cup ImportReq \cup ListReq \cup BeginReq \cup CallReq
         \cup CheckReq \cup ApproveReq \cup CountReq

TypeOK ==
  /\ ChainTypeOK
  /\ status \in Statuses
  /\ clock \in Clocks
  /\ candidate \subseteq CandidateIds
  /\ hasVoted \subseteq Voters
  /\ approval \subseteq Admins
  /\ anchored \subseteq Nat
  /\ req \in [Requests -> Req]
  /\ closedBox \subseteq BallotRow

(* The state after createElection, which writes the election with its key  *)
(* and a non-empty list of candidates.                                     *)
Init ==
  /\ ChainInit
  /\ status = "DRAFT"
  /\ clock = "before"
  /\ \E N \in (SUBSET Names) \ {{}} : candidate = {1} \X N
  /\ hasVoted = {}
  /\ approval = {}
  /\ anchored = {}
  /\ req = [r \in Requests |-> Idle]
  /\ closedBox = {}
---------------------------------------------------------------------------
(* A new request for op arrives in the slot r.                             *)
Arrives(r, op) == req[r] = Idle /\ op \in Ops

Goto(r, local) == req' = [req EXCEPT ![r] = local]

(* What a handler that only touches its own locals leaves alone.           *)
OnlyReq == UNCHANGED <<chainVars, status, clock, candidate, hasVoted, approval,
                       anchored, closedBox>>

Tick ==
  /\ \/ clock = "before" /\ clock' = "during"
     \/ clock = "during" /\ clock' = "after"
  /\ UNCHANGED <<chainVars, status, candidate, hasVoted, approval, anchored, req, closedBox>>
---------------------------------------------------------------------------
(* castBallot                                                              *)

(* What a browser can seal: a candidate it was ever shown, an abstention,  *)
(* or something that will not open.                                        *)
Choices == {id \in CandidateIds : \E c \in candidate : id[1] <= c[1]} \cup {Abstain, Garbage}

(* The election is read and its status and period checked.                 *)
CastCheck(r, v, choice) ==
  /\ Arrives(r, "cast")
  /\ v \in roster
  /\ status = "OPEN"
  /\ clock = "during"
  /\ Goto(r, [pc |-> "cast", voter |-> v, vote |-> choice])
  /\ OnlyReq

(* The condition of the update, and the one that forgets hasVoted.         *)
MayVoteAgain(v) == v \in roster

MayVote(v) == v \in roster \ hasVoted

(* The transaction: the conditional update of the voter row and the ballot *)
(* commit together.  It looks at no column of Election.                    *)
CastCommit(r) ==
  /\ req[r].pc = "cast"
  /\ MayVote(req[r].voter)
  /\ hasVoted' = hasVoted \cup {req[r].voter}
  /\ \E id \in BallotIds :
       /\ \A b \in ballot : b.id # id
       /\ ballot' = ballot \cup {[id |-> id, vote |-> req[r].vote]}
  /\ Goto(r, Idle)
  /\ UNCHANGED <<roster, tallyResult, invalidVotes, checkpoint, call,
                 status, clock, candidate, approval, anchored, closedBox>>

(* The update matches no row: 409, nothing is written.                     *)
CastConflict(r) ==
  /\ req[r].pc = "cast"
  /\ ~MayVote(req[r].voter)
  /\ Goto(r, Idle)
  /\ OnlyReq
---------------------------------------------------------------------------
(* importRoster                                                            *)

ImportCheck(r, rows) ==
  /\ Arrives(r, "import")
  /\ status = "DRAFT"
  /\ Goto(r, [pc |-> "import.seal", rows |-> rows])
  /\ OnlyReq

RosterSealed == \E s \in DOMAIN checkpoint : Sealed(s)

ImportSealCheck(r) ==
  /\ req[r].pc = "import.seal"
  /\ Goto(r, IF RosterSealed THEN Idle ELSE [req[r] EXCEPT !.pc = "import.rows"])
  /\ OnlyReq

ImportChunkReplaces(r) ==   \* deletes the rows that are not in the file
  /\ req[r].pc = "import.rows"
  /\ roster' = req[r].rows
  /\ Goto(r, Idle)
  /\ UNCHANGED <<ballot, tallyResult, invalidVotes, checkpoint, call,
                 status, clock, candidate, hasVoted, approval, anchored, closedBox>>

(* One createMany with skipDuplicates; the chunks are not one transaction. *)
ImportChunk(r) ==
  /\ req[r].pc = "import.rows"
  /\ \E rows \in (SUBSET req[r].rows) \ {{}} :
       /\ \/ Cardinality(rows) = RosterChunk
          \/ rows = req[r].rows /\ Cardinality(rows) < RosterChunk
       /\ roster' = roster \cup rows
       /\ Goto(r, IF rows = req[r].rows THEN Idle
                  ELSE [req[r] EXCEPT !.rows = @ \ rows])
  /\ UNCHANGED <<ballot, tallyResult, invalidVotes, checkpoint, call,
                 status, clock, candidate, hasVoted, approval, anchored, closedBox>>
---------------------------------------------------------------------------
(* replaceCandidates                                                       *)

CandidatesCheck(r, names) ==
  /\ Arrives(r, "candidates")
  /\ status = "DRAFT"
  /\ Goto(r, [pc |-> "candidates", names |-> names])
  /\ OnlyReq

(* deleteMany and createMany in one transaction.  The foreign key of       *)
(* TallyResult is ON DELETE SET NULL.                                      *)
CandidatesReplace(r) ==
  /\ req[r].pc = "candidates"
  /\ \E g \in 1..MaxGenerations :
       /\ \A c \in candidate : c[1] = g - 1
       /\ candidate' = {g} \X req[r].names
  /\ tallyResult' =
       {IF row.candidateId \in candidate THEN [row EXCEPT !.candidateId = Abstain] ELSE row :
          row \in tallyResult}
  /\ Goto(r, Idle)
  /\ UNCHANGED <<roster, ballot, invalidVotes, checkpoint, call,
                 status, clock, hasVoted, approval, anchored, closedBox>>
---------------------------------------------------------------------------
(* createCheckpoint as a callee, and autoAnchor                            *)

BeginCheckpoint(r) ==
  /\ req[r].pc = "begin"
  /\ Begin(r, req[r].kind)
  /\ Goto(r, [pc |-> "call", then |-> req[r].then])
  /\ UNCHANGED <<status, clock, candidate, hasVoted, approval, anchored, closedBox>>

RunCheckpoint(r) ==
  /\ req[r].pc = "call"
  /\ CallStep(r)
  /\ UNCHANGED ownVars

(* It returned: the caller goes on.  It threw: the handler answers 500.    *)
(* AfterCallSwallowed carries on after an error, as autoAnchor does.       *)
AfterCallSwallowed(r) == At(req[r].then)

AfterCall(r) == IF call[r].pc = "done" THEN At(req[r].then) ELSE Idle

EndCheckpoint(r) ==
  /\ req[r].pc = "call"
  /\ call[r].pc \in {"done", "failed"}
  /\ EndCall(r)
  /\ Goto(r, AfterCall(r))
  /\ UNCHANGED <<status, clock, candidate, hasVoted, approval, anchored, closedBox>>

(* autoAnchor hands the latest checkpoint, not the one just made, to the   *)
(* provider.  A failure is logged and swallowed.                           *)
AutoAnchor(r) ==
  /\ req[r].pc = "anchor"
  /\ \/ anchored' = anchored \cup {s \in DOMAIN checkpoint : IsHead(s)}
     \/ UNCHANGED anchored
  /\ Goto(r, Idle)
  /\ UNCHANGED <<chainVars, status, clock, candidate, hasVoted, approval, closedBox>>

(* The manual route makes a BALLOTS checkpoint, whatever the status.       *)
CheckpointRoute(r) ==
  /\ Arrives(r, "checkpoint")
  /\ Cardinality(DOMAIN checkpoint) < MaxSeq
  /\ Goto(r, Checkpointing("BALLOTS", "idle"))
  /\ OnlyReq
---------------------------------------------------------------------------
(* sealRoster                                                              *)

SealCheck(r) ==
  /\ Arrives(r, "seal")
  /\ status = "DRAFT"
  /\ Goto(r, At("seal.sealed"))
  /\ OnlyReq

SealAlready(r) ==
  /\ req[r].pc = "seal.sealed"
  /\ Goto(r, IF RosterSealed THEN Idle ELSE At("seal.count"))
  /\ OnlyReq

SealCount(r) ==
  /\ req[r].pc = "seal.count"
  /\ Goto(r, IF roster = {} THEN Idle ELSE Checkpointing("ROSTER_SEALED", "anchor"))
  /\ OnlyReq
---------------------------------------------------------------------------
(* openElection                                                            *)

(* The counts of voters and of candidates; the latter is never zero.       *)
OpenCounts(r) ==
  /\ Arrives(r, "open")
  /\ roster # {} /\ candidate # {}
  /\ Goto(r, At("open.seal"))
  /\ OnlyReq

(* Without a seal one is made here, and the roster is not compared again.  *)
OpenReadSeal(r) ==
  /\ req[r].pc = "open.seal"
  /\ Goto(r, IF RosterSealed THEN At("open.match")
             ELSE Checkpointing("ROSTER_SEALED", "open.update"))
  /\ OnlyReq

OpenMatch(r) ==
  /\ req[r].pc = "open.match"
  /\ Goto(r, IF RosterMatches THEN At("open.update") ELSE Idle)
  /\ OnlyReq

(* updateMany where status = DRAFT                                         *)
OpenUpdate(r) ==
  /\ req[r].pc = "open.update"
  /\ IF status = "DRAFT"
       THEN status' = "OPEN" /\ Goto(r, Checkpointing("BALLOTS", "anchor"))
       ELSE status' = status /\ Goto(r, Idle)
  /\ UNCHANGED <<chainVars, clock, candidate, hasVoted, approval, anchored, closedBox>>
---------------------------------------------------------------------------
(* closeElection                                                           *)

CloseUpdateUnchecked(r) ==   \* an update without its status = OPEN
  /\ Arrives(r, "close")
  /\ status' = "CLOSED"
  /\ closedBox' = ballot
  /\ Goto(r, Checkpointing("FINAL", "anchor"))
  /\ UNCHANGED <<chainVars, clock, candidate, hasVoted, approval, anchored>>

CloseUpdate(r) ==
  /\ Arrives(r, "close")
  /\ status = "OPEN"
  /\ status' = "CLOSED"
  /\ closedBox' = ballot
  /\ Goto(r, Checkpointing("FINAL", "anchor"))
  /\ UNCHANGED <<chainVars, clock, candidate, hasVoted, approval, anchored>>
---------------------------------------------------------------------------
(* approveTally and openAndCount                                           *)

TallyCheck(r, a) ==
  /\ Arrives(r, "tally")
  /\ status = "CLOSED"
  /\ Goto(r, [pc |-> "tally.check", admin |-> a,
              voted |-> Null, ballots |-> Null, chainOk |-> Null])
  /\ OnlyReq

(* integrityCheck: three queries at once, answered in any order            *)
IntegrityRead(r) ==
  /\ req[r].pc = "tally.check"
  /\ \/ /\ req[r].voted = Null
        /\ req' = [req EXCEPT ![r].voted = <<Cardinality(hasVoted)>>]
     \/ /\ req[r].ballots = Null
        /\ req' = [req EXCEPT ![r].ballots = <<Cardinality(ballot)>>]
     \/ /\ req[r].chainOk = Null
        /\ req' = [req EXCEPT ![r].chainOk = <<verifyChain>>]
  /\ OnlyReq

IntegrityKnown(r) ==
  /\ req[r].pc = "tally.check"
  /\ req[r].voted # Null /\ req[r].ballots # Null /\ req[r].chainOk # Null

matched(r) == req[r].voted = req[r].ballots

(* tallyApproval.create under the unique index (electionId, adminId)       *)
TallyApprove(r) ==
  /\ IntegrityKnown(r)
  /\ matched(r)
  /\ req[r].admin \notin approval
  /\ approval' = approval \cup {req[r].admin}
  /\ Goto(r, [pc |-> "tally.quorum", admin |-> req[r].admin])
  /\ UNCHANGED <<chainVars, status, clock, candidate, hasVoted, anchored, closedBox>>

(* 409: the counts differ, or this admin has approved before               *)
TallyRefuse(r) ==
  /\ IntegrityKnown(r)
  /\ ~matched(r) \/ req[r].admin \in approval
  /\ Goto(r, Idle)
  /\ OnlyReq

(* approvals.length < TALLY_QUORUM, negated, and its two off-by-ones       *)
QuorumReachedEarly == Cardinality(approval) + 1 >= Quorum
QuorumExceeded     == Cardinality(approval) > Quorum

QuorumReached == Cardinality(approval) >= Quorum

TallyQuorum(r) ==
  /\ req[r].pc = "tally.quorum"
  /\ Goto(r, IF QuorumReached THEN [req[r] EXCEPT !.pc = "tally.claim"] ELSE Idle)
  /\ OnlyReq

(* updateMany where status = CLOSED.  It writes talliedAt and talliedBy,   *)
(* which no handler reads, and leaves the status as it is.                 *)
TallyClaim(r) ==
  /\ req[r].pc = "tally.claim"
  /\ Goto(r, IF status = "CLOSED" THEN [req[r] EXCEPT !.pc = "tally.candidates"] ELSE Idle)
  /\ OnlyReq

TallyCandidates(r) ==
  /\ req[r].pc = "tally.candidates"
  /\ Goto(r, [pc |-> "tally.scan", admin |-> req[r].admin, valid |-> candidate,
              opened |-> {}, cursor |-> -1])
  /\ OnlyReq

TallyScan(r) ==
  /\ req[r].pc = "tally.scan"
  /\ \E batch \in SUBSET Beyond(req[r].cursor) :
       /\ IsBatch(batch, req[r].cursor)
       /\ \E id \in BallotIds \cup {req[r].cursor} :
            /\ IsLast(id, batch, req[r].cursor)
            /\ Goto(r, [req[r] EXCEPT
                 !.opened = @ \cup batch,
                 !.cursor = id,
                 !.pc = IF LastBatch(batch) THEN "tally.publish" ELSE "tally.scan"])
  /\ OnlyReq

VotesFor(box, choice) == {b \in box : b.vote = choice}
Counted(r) == {b \in req[r].opened : b.vote \in req[r].valid \cup {Abstain}}

(* Votes that do not open, and votes for nobody on the list.               *)
DamagedUnopened(r) == VotesFor(req[r].opened, Garbage)

Damaged(r) == req[r].opened \ Counted(r)

(* One row per choice that occurs.  The row id stands for a fresh UUID: an *)
(* admin approves once, so no two rows share it.                           *)
NewRows(r) ==
  {[id |-> <<req[r].admin, choice>>, candidateId |-> choice,
    votes |-> Cardinality(VotesFor(Counted(r), choice))] :
      choice \in {b.vote : b \in Counted(r)}}

(* The unique index ignores NULL, and so does the foreign key.             *)
RowsAllowedTwice(rows) ==   \* without the unique index
  \A row \in rows : row.candidateId # Abstain => row.candidateId \in candidate

RowsAllowed(rows) ==
  \A row \in rows : row.candidateId # Abstain =>
    /\ row.candidateId \in candidate
    /\ \A old \in tallyResult : old.candidateId # row.candidateId

TallyPublish(r) ==
  /\ req[r].pc = "tally.publish"
  /\ RowsAllowed(NewRows(r))
  /\ tallyResult' = tallyResult \cup NewRows(r)
  /\ invalidVotes' = Cardinality(Damaged(r))
  /\ status' = "TALLIED"
  /\ Goto(r, Checkpointing("RESULTS", "anchor"))
  /\ UNCHANGED <<roster, ballot, checkpoint, call,
                 clock, candidate, hasVoted, approval, anchored, closedBox>>

TallyPublishFails(r) ==
  /\ req[r].pc = "tally.publish"
  /\ ~RowsAllowed(NewRows(r))
  /\ Goto(r, Idle)
  /\ OnlyReq
---------------------------------------------------------------------------
(* A request dies: its process stops, or the database refuses a call.      *)
Crash(r) ==
  /\ Crashes
  /\ req[r] # Idle
  /\ Goto(r, Idle)
  /\ EndCall(r)
  /\ UNCHANGED <<status, clock, candidate, hasVoted, approval, anchored, closedBox>>

Arrival(r) ==
  \/ \E v \in Voters, choice \in Choices : CastCheck(r, v, choice)
  \/ \E rows \in (SUBSET Voters) \ {{}} : ImportCheck(r, rows)
  \/ \E names \in (SUBSET Names) \ {{}} : CandidatesCheck(r, names)
  \/ SealCheck(r) \/ OpenCounts(r) \/ CloseUpdate(r) \/ CheckpointRoute(r)
  \/ \E a \in Admins : TallyCheck(r, a)

VoterStep(r)     == CastCommit(r) \/ CastConflict(r)
SetupStep(r)     == ImportSealCheck(r) \/ ImportChunk(r) \/ CandidatesReplace(r)
CheckpointStep(r) == BeginCheckpoint(r) \/ RunCheckpoint(r) \/ EndCheckpoint(r) \/ AutoAnchor(r)
LifecycleStep(r) == SealAlready(r) \/ SealCount(r) \/ OpenReadSeal(r) \/ OpenMatch(r)
                      \/ OpenUpdate(r)
TallyStep(r)     == IntegrityRead(r) \/ TallyApprove(r) \/ TallyRefuse(r) \/ TallyQuorum(r)
                      \/ TallyClaim(r) \/ TallyCandidates(r) \/ TallyScan(r)
                      \/ TallyPublish(r) \/ TallyPublishFails(r)

(* What a request in progress does next.                                   *)
Progress(r) == VoterStep(r) \/ SetupStep(r) \/ CheckpointStep(r) \/ LifecycleStep(r)
                 \/ TallyStep(r)

Next ==
  \/ Tick
  \/ \E r \in Requests : Arrival(r) \/ Progress(r) \/ Crash(r)

Spec == Init /\ [][Next]_vars

(* The event loop resumes every handler whose call was answered, and the   *)
(* database answers every call.  Nothing forces a client to call.          *)
FairSpec == Spec /\ \A r \in Requests : WF_vars(Progress(r))
---------------------------------------------------------------------------
(* Properties                                                              *)

(* One person, one vote: however requests of one voter race, and wherever  *)
(* they die, the box holds exactly one ballot for each voter marked as     *)
(* having voted, and only roster members are marked (castBallot).          *)
OneBallotPerVoter ==
  /\ hasVoted \subseteq roster
  /\ Cardinality(ballot) = Cardinality(hasVoted)

(* No election is opened without a sealed roster in its chain, whichever   *)
(* of sealRoster and openElection made the seal, and whoever else was      *)
(* inserting checkpoints at the time.                                      *)
SealedBeforeOpen == status # "DRAFT" => RosterSealed

(* What QuorumReached is there to establish                               *)
EnoughApprovals == Cardinality(approval) >= Quorum

(* Dual control: ballots are opened, and results written, only after the   *)
(* election was closed and Quorum different admins approved.               *)
Opening(r) == req[r].pc \in {"tally.candidates", "tally.scan", "tally.publish"}

OpenedUnderDualControl ==
  (tallyResult # {} \/ status = "TALLIED" \/ \E r \in Requests : Opening(r)) =>
    /\ status \in {"CLOSED", "TALLIED"}
    /\ EnoughApprovals

(* Every FINAL and every RESULTS checkpoint certifies all the ballots that *)
(* were in the box when the election was closed.                           *)
FinalCoversVoting ==
  \A s \in DOMAIN checkpoint :
    checkpoint[s].body.kind \in {"FINAL", "RESULTS"} =>
      closedBox \subseteq checkpoint[s].body.merkleRoot

(* No vote cast in time is lost by the count, whichever of several racing  *)
(* tallies publishes and however late the candidate list was replaced: the *)
(* votes in the box at closing time are in the row published for their     *)
(* choice, or are reported as invalid (openAndCount).                      *)
TimelyVotesCounted ==
  status = "TALLIED" =>
    \A choice \in Votes :
      LET timely == Cardinality(VotesFor(closedBox, choice)) IN
      \/ timely <= invalidVotes
      \/ \E row \in tallyResult : row.id[2] = choice /\ timely <= row.votes

(* The published rows come from one count: if the box held a vote for a    *)
(* listed candidate at closing time, the unique index lets only one of the *)
(* approvals that reached openAndCount publish.                            *)
ResultsFromOneCount ==
  (\E row \in tallyResult : VotesFor(closedBox, row.candidateId) # {}
                            /\ row.candidateId \in candidate) =>
    \A row, other \in tallyResult : row.id[1] = other.id[1]

(* What voters and admins are promised: seen from the tables alone, every  *)
(* step of every interleaving of half-done requests is one operation of    *)
(* BallotBox or no operation at all.  In particular a ballot enters with   *)
(* its voter, and what approveTally publishes are the exact counts of all  *)
(* the ballots of the closing and of no ballot that is not in the box.     *)
Box == INSTANCE BallotBox WITH
         stage <- status, listed <- candidate, roll <- roster, voted <- hasVoted,
         box <- ballot, closing <- closedBox, approved <- approval,
         results <- tallyResult, invalid <- invalidVotes

BoxSpec == Box!Spec

(* Once enough admins have approved and no request fails, the election is  *)
(* tallied, even if the approvals raced and some of them lost.             *)
QuorumLeadsToTally ==
  EnoughApprovals ~> (status = "TALLIED")
---------------------------------------------------------------------------
(* The inductive invariant behind OneBallotPerVoter, OpenedUnderDualControl *)
(* and the refinement of CheckpointChain.                                  *)

TallyPcs   == {"tally.check", "tally.quorum", "tally.claim", "tally.candidates",
               "tally.scan", "tally.publish"}
GrantedPcs == {"tally.claim", "tally.candidates", "tally.scan", "tally.publish"}

(* What holds of the locals l of a handler: it counts ballots of the box,  *)
(* it tallies only after closing, and it claims only with the quorum.      *)
ReqSound(l) ==
  /\ l.pc \in {"tally.scan", "tally.publish"} => l.opened \subseteq ballot
  /\ l.pc \in TallyPcs => status \in {"CLOSED", "TALLIED"}
  /\ l.pc \in GrantedPcs => EnoughApprovals

ReqsSound == \A r \in Requests : ReqSound(req[r])

ElectionInv ==
  /\ ChainInv
  /\ TypeOK
  /\ ReqsSound
  /\ OneBallotPerVoter
  /\ OpenedUnderDualControl
---------------------------------------------------------------------------
(* The inductive invariant, beside ElectionInv, behind SealedBeforeOpen,   *)
(* FinalCoversVoting, TimelyVotesCounted, ResultsFromOneCount and BoxSpec. *)

Past       == status \in {"CLOSED", "TALLIED"}
Certifying == {"FINAL", "RESULTS"}

(* openElection, at locals l and call c: the roster was counted, and there *)
(* is a seal as soon as the handler may go on to its update.               *)
Resuming(l) == l.pc \in {"begin", "call"} /\ l.then = "open.update"

OpenSound(l, c) ==
  /\ l.pc \in {"open.seal", "open.match", "open.update"} \/ Resuming(l) => roster # {}
  /\ l.pc \in {"open.match", "open.update"} => RosterSealed
  /\ l.pc = "begin" /\ Resuming(l) => l.kind = "ROSTER_SEALED"
  /\ l.pc = "call" /\ Resuming(l) =>
       c.kind = "ROSTER_SEALED" /\ (c.pc = "done" => RosterSealed)

(* A call that certifies the closing comes after it, and has collected its *)
(* ballots up to the cursor.                                               *)
CollectedClosing(c) ==
  AfterPrev(c) => \A b \in closedBox : c.pc # "scan" \/ b.id <= c.cursor => b \in c.leaves

CertifySound(l, c) ==
  /\ l.pc = "begin" /\ l.kind \in Certifying => Past
  /\ l.pc = "call" /\ c.kind \in Certifying => Past /\ CollectedClosing(c)

(* A vote on its way was admitted while the election was open, for a       *)
(* candidate of this list or of an earlier one.                            *)
CastSound(l) == l.pc = "cast" => status # "DRAFT" /\ l.vote \in Choices

(* A count opens the ballots of the closing, and either the list it read   *)
(* is still in place or the list in place is younger than these ballots.   *)
Unchosen == \A b \in closedBox : b.vote \notin candidate

CountSound(l) ==
  /\ l.pc \in GrantedPcs \cup {"tally.quorum"} => l.admin \in approval
  /\ l.pc = "tally.scan" => \A b \in closedBox : b.id <= l.cursor => b \in l.opened
  /\ l.pc = "tally.publish" => closedBox \subseteq l.opened
  /\ l.pc \in {"tally.scan", "tally.publish"} => l.valid = candidate \/ Unchosen

HandlerSound(l, c) ==
  /\ OpenSound(l, c)
  /\ CertifySound(l, c)
  /\ CastSound(l)
  /\ l.pc = "candidates" => l.names # {}
  /\ CountSound(l)

HandlersSound == \A r \in Requests : HandlerSound(req[r], call[r])

(* The box holds votes for candidates that were listed by then; nothing is *)
(* certified or published before its time; and once tallied, each vote of  *)
(* the closing for a listed candidate has its row.                         *)
TablesSound ==
  /\ candidate # {}
  /\ \A b \in ballot : b.vote \in Choices
  /\ closedBox \subseteq ballot
  /\ \A s \in DOMAIN checkpoint : checkpoint[s].body.kind \in Certifying => Past
  /\ tallyResult # {} => status = "TALLIED"
  /\ status = "TALLIED" => \A b \in closedBox :
       b.vote \in candidate => \E row \in tallyResult : row.candidateId = b.vote

OutcomeInv ==
  /\ HandlersSound
  /\ TablesSound
  /\ SealedBeforeOpen
  /\ FinalCoversVoting
  /\ TimelyVotesCounted
  /\ ResultsFromOneCount
---------------------------------------------------------------------------
(* What the repository says of itself and its code does not always do:     *)
(* TLC refutes each of these.                                              *)

(* "A vote attempted after closing is refused."                            *)
NoVoteAfterClose == [][ballot' # ballot => status = "OPEN"]_ballot

(* "If integrity is broken before the tally, not even the approval is      *)
(* accepted": integrityCheck had found the chain intact.                   *)
ApprovalNeedsIntactChain ==
  [][\A r \in Requests : TallyApprove(r) => req[r].chainOk = <<TRUE>>]_vars

(* "Executed only once even when approvals are simultaneous."              *)
TallyRunsOnce == \A r, q \in Requests : Opening(r) /\ Opening(q) => r = q

(* "Once sealed the roster cannot be changed any more."                    *)
RosterFrozenOnceSealed == [][roster' # roster => ~RosterSealed]_roster

(* "Candidates can be changed only in DRAFT."                              *)
CandidatesFixedOnceOpen == [][candidate' # candidate => status = "DRAFT"]_candidate

(* "If ballots are added or removed after the tally, it is caught here":   *)
(* the audit fails when the box is not the one the results certify.        *)
DriftDetected ==
  (\E s \in DOMAIN checkpoint :
      checkpoint[s].body.kind = "RESULTS" /\ checkpoint[s].body.merkleRoot # ballot)
  => ~verifyChain

(* "OPEN --> CLOSED: closing (FINAL checkpoint)": a closed election gets   *)
(* its FINAL checkpoint.                                                   *)
ClosedGetsFinal ==
  (status = "CLOSED") ~>
    (\E s \in DOMAIN checkpoint : checkpoint[s].body.kind = "FINAL")
===========================================================================
