------------------------- MODULE CheckpointChain -------------------------
(***************************************************************************)
(* IntegrityService: the append-only chain of checkpoints of one election. *)
(*                                                                         *)
(* createCheckpoint is not a transaction.  It is a procedure of several    *)
(* database calls, and any number of callers (seal, open, close, tally,    *)
(* the manual checkpoint route) may be inside it at once while ballots are *)
(* being cast.  Each await of the procedure is an action below, taken by   *)
(* the request r that is executing it; call[r] holds its local variables.  *)
(* Only the unique index on (electionId, seq) orders concurrent callers.   *)
(*                                                                         *)
(* The tables the procedure reads (Voter, Ballot, TallyResult and the      *)
(* invalidVotes column) belong to the callers.  DataStep says all that the *)
(* chain relies on: the roster and the ballot box only grow.  Election     *)
(* refines this specification.                                             *)
(*                                                                         *)
(* A digest is modelled by what it digests: it is injective and can be     *)
(* compared for equality, which is all the code does with one.             *)
(***************************************************************************)
EXTENDS Integers, FiniteSets, Sequences

CONSTANTS
  Requests,   \* HTTP requests that may be executing at the same time
  Voters,     \* the members a roster may contain
  BallotIds,  \* Ballot.id: random UUIDs, of which only the order matters
  Votes,      \* what a sealed ballot may hold
  RowIds,     \* TallyResult.id
  Chunk       \* ballots fetched per query (CHUNK)

ASSUME ChunkAssumption == Chunk \in Nat \ {0}
ASSUME BallotIdsAssumption == BallotIds \subseteq Nat /\ IsFiniteSet(BallotIds)

VARIABLES
  roster,        \* the Voter rows
  ballot,        \* the Ballot rows
  tallyResult,   \* the TallyResult rows
  invalidVotes,  \* Election.invalidVotes
  checkpoint,    \* the Checkpoint rows, keyed by their unique seq
  call           \* per request, the locals of its createCheckpoint call

dataVars  == <<roster, ballot, tallyResult, invalidVotes>>
chainVars == <<roster, ballot, tallyResult, invalidVotes, checkpoint, call>>
---------------------------------------------------------------------------
(* Rows, digests and local states.                                         *)

BallotRow == [id : BallotIds, vote : Votes]
TallyRow  == [id : RowIds, candidateId : Votes, votes : Nat]
Kinds     == {"ROSTER_SEALED", "BALLOTS", "FINAL", "RESULTS"}

(* A nullable column: <<>> is NULL, <<x>> is the value x.                  *)
Null        == <<>>
Nullable(S) == {q \in Seq(S) : Len(q) <= 1}

RosterHashes  == Nullable(SUBSET Voters)
ResultsHashes == Nullable([rows : SUBSET TallyRow, invalid : Nat])

Content == [seq : Nat, kind : Kinds, ballotCount : Nat,
            merkleRoot : SUBSET BallotRow,
            rosterHash : RosterHashes, resultsHash : ResultsHashes]

(* A checkpoint's hash covers its content and the hash before it, hence    *)
(* the contents of the whole chain up to it.                               *)
Hashes                         == Seq(Content)
GENESIS                        == <<>>
checkpointHash(body, prevHash) == Append(prevHash, body)

Checkpoint == [body : Content, prevHash : Hashes, hash : Hashes]

CallPc == {"idle", "prev", "scan", "roster", "results", "insert", "done", "failed"}

Call == [pc : CallPc, kind : Kinds, prevSeq : Nat, prevHash : Hashes,
         leaves : SUBSET BallotRow, cursor : Int,
         rosterHash : RosterHashes,
         rows : Nullable(SUBSET TallyRow), invalid : Nullable(Nat)]

NoCall == [pc |-> "idle", kind |-> "BALLOTS", prevSeq |-> 0, prevHash |-> GENESIS,
           leaves |-> {}, cursor |-> -1, rosterHash |-> Null,
           rows |-> Null, invalid |-> Null]

UniqueIds == \A b, c \in ballot : b.id = c.id => b = c

ChainTypeOK ==
  /\ roster \subseteq Voters
  /\ ballot \subseteq BallotRow
  /\ UniqueIds
  /\ tallyResult \subseteq TallyRow
  /\ invalidVotes \in Nat
  /\ DOMAIN checkpoint \subseteq Nat \ {0}
  /\ IsFiniteSet(DOMAIN checkpoint)
  /\ checkpoint \in [DOMAIN checkpoint -> Checkpoint]
  /\ call \in [Requests -> Call]

ChainInit ==
  /\ roster = {}
  /\ ballot = {}
  /\ tallyResult = {}
  /\ invalidVotes = 0
  /\ checkpoint = <<>>
  /\ call = [r \in Requests |-> NoCall]
---------------------------------------------------------------------------
(* The ordered, chunked read of the Ballot table that computeBallotRoot    *)
(* and openAndCount share: the Chunk lowest ids beyond the cursor.         *)

Beyond(cursor) == {b \in ballot : b.id > cursor}

IsBatch(batch, cursor) ==
  /\ \A b \in batch, c \in Beyond(cursor) : c.id <= b.id => c \in batch
  /\ IF Cardinality(Beyond(cursor)) <= Chunk
       THEN batch = Beyond(cursor)
       ELSE Cardinality(batch) = Chunk

(* The cursor after a batch is the id of its last row.                     *)
IsLast(id, batch, cursor) ==
  IF batch = {} THEN id = cursor
  ELSE /\ \E b \in batch : b.id = id
       /\ \A b \in batch : b.id <= id

(* A scan stops at the first batch that is not full; stopping at a full one *)
(* would forget the rest of the box.                                       *)
LastBatchFull(batch) == Cardinality(batch) <= Chunk

LastBatch(batch) == Cardinality(batch) < Chunk
---------------------------------------------------------------------------
(* createCheckpoint                                                        *)

Begin(r, kind) ==
  /\ call[r].pc = "idle"
  /\ call' = [call EXCEPT ![r] = [NoCall EXCEPT !.pc = "prev", !.kind = kind]]
  /\ UNCHANGED <<dataVars, checkpoint>>

(* findFirst ordered by seq descending                                     *)
IsHead(s) ==
  /\ s \in DOMAIN checkpoint
  /\ \A t \in DOMAIN checkpoint : t <= s

ReadPrev(r) ==
  /\ call[r].pc = "prev"
  /\ \/ /\ DOMAIN checkpoint = {}
        /\ call' = [call EXCEPT ![r].pc = "scan", ![r].prevSeq = 0,
                                ![r].prevHash = GENESIS]
     \/ \E s \in DOMAIN checkpoint :
          /\ IsHead(s)
          /\ call' = [call EXCEPT ![r].pc = "scan", ![r].prevSeq = s,
                                  ![r].prevHash = checkpoint[s].hash]
  /\ UNCHANGED <<dataVars, checkpoint>>

AfterScan(kind) == CASE kind = "ROSTER_SEALED" -> "roster"
                     [] kind = "RESULTS"       -> "results"
                     [] OTHER                  -> "insert"

(* one round of the loop of computeBallotRoot                              *)
ScanBatch(r) ==
  /\ call[r].pc = "scan"
  /\ \E batch \in SUBSET Beyond(call[r].cursor) :
       /\ IsBatch(batch, call[r].cursor)
       /\ \E id \in BallotIds \cup {call[r].cursor} :
            /\ IsLast(id, batch, call[r].cursor)
            /\ call' = [call EXCEPT
                 ![r].leaves = @ \cup batch,
                 ![r].cursor = id,
                 ![r].pc = IF LastBatch(batch) THEN AfterScan(call[r].kind) ELSE "scan"]
  /\ UNCHANGED <<dataVars, checkpoint>>

(* computeRosterHash                                                       *)
ReadRoster(r) ==
  /\ call[r].pc = "roster"
  /\ call' = [call EXCEPT ![r].rosterHash = <<roster>>, ![r].pc = "insert"]
  /\ UNCHANGED <<dataVars, checkpoint>>

(* computeResultsHash: two queries at once, answered in either order       *)
ReadRows(r) ==
  /\ call[r].pc = "results" /\ call[r].rows = Null
  /\ call' = [call EXCEPT ![r].rows = <<tallyResult>>,
                          ![r].pc = IF call[r].invalid = Null THEN "results" ELSE "insert"]
  /\ UNCHANGED <<dataVars, checkpoint>>

ReadInvalid(r) ==
  /\ call[r].pc = "results" /\ call[r].invalid = Null
  /\ call' = [call EXCEPT ![r].invalid = <<invalidVotes>>,
                          ![r].pc = IF call[r].rows = Null THEN "results" ELSE "insert"]
  /\ UNCHANGED <<dataVars, checkpoint>>

(* seq = (prev?.seq ?? 0) + 1; without the + 1 the first row is number 0   *)
nextSeqRepeated(r) == call[r].prevSeq

nextSeq(r) == call[r].prevSeq + 1

NewBody(r) ==
  [seq |-> nextSeq(r), kind |-> call[r].kind,
   ballotCount |-> Cardinality(call[r].leaves), merkleRoot |-> call[r].leaves,
   rosterHash |-> call[r].rosterHash,
   resultsHash |-> IF call[r].kind = "RESULTS"
                     THEN <<[rows |-> call[r].rows[1], invalid |-> call[r].invalid[1]]>>
                     ELSE Null]

NewCheckpoint(r) ==
  [body |-> NewBody(r), prevHash |-> call[r].prevHash,
   hash |-> checkpointHash(NewBody(r), call[r].prevHash)]

(* @@unique([electionId, seq]), and the write of a schema without it       *)
SeqFreeUnchecked(r) == TRUE

SeqFree(r) == nextSeq(r) \notin DOMAIN checkpoint

(* checkpoint.create, when no other caller has taken this seq              *)
Insert(r) ==
  /\ call[r].pc = "insert"
  /\ SeqFree(r)
  /\ checkpoint' = [s \in DOMAIN checkpoint \cup {nextSeq(r)} |->
                      IF s = nextSeq(r) THEN NewCheckpoint(r) ELSE checkpoint[s]]
  /\ call' = [call EXCEPT ![r].pc = "done"]
  /\ UNCHANGED dataVars

(* checkpoint.create violates the unique index: P2002, which nobody catches *)
InsertConflict(r) ==
  /\ call[r].pc = "insert"
  /\ ~SeqFree(r)
  /\ call' = [call EXCEPT ![r].pc = "failed"]
  /\ UNCHANGED <<dataVars, checkpoint>>

(* The call ends: it returned or threw, or its process died.               *)
EndCall(r) ==
  /\ call' = [call EXCEPT ![r] = NoCall]
  /\ UNCHANGED <<dataVars, checkpoint>>

(* What the chain relies on from everybody else.                           *)
DataStep ==
  /\ roster \subseteq roster' /\ roster' \subseteq Voters
  /\ ballot \subseteq ballot' /\ ballot' \subseteq BallotRow /\ UniqueIds'
  /\ tallyResult' \subseteq TallyRow
  /\ invalidVotes' \in Nat
  /\ UNCHANGED <<checkpoint, call>>

CallStep(r) ==
  \/ ReadPrev(r) \/ ScanBatch(r) \/ ReadRoster(r) \/ ReadRows(r) \/ ReadInvalid(r)
  \/ Insert(r) \/ InsertConflict(r)

ChainNext ==
  \/ \E r \in Requests, kind \in Kinds : Begin(r, kind)
  \/ \E r \in Requests : CallStep(r) \/ EndCall(r)
  \/ DataStep

ChainSpec == ChainInit /\ [][ChainNext]_chainVars
---------------------------------------------------------------------------
(* verifyChain                                                             *)

Sealed(s)    == s \in DOMAIN checkpoint /\ checkpoint[s].body.kind = "ROSTER_SEALED"
FirstSeal(s) == Sealed(s) /\ \A t \in DOMAIN checkpoint : Sealed(t) => s <= t

(* The rows in seq order are numbered 1, 2, ...; each repeats the hash of  *)
(* the one before it, and each hash is that of the row.                    *)
RowsLinked ==
  \A s \in DOMAIN checkpoint :
    /\ checkpoint[s].body.seq = s
    /\ checkpoint[s].prevHash = IF s = 1 THEN GENESIS ELSE checkpoint[s - 1].hash
    /\ checkpoint[s].hash = checkpointHash(checkpoint[s].body, checkpoint[s].prevHash)

Contiguous == DOMAIN checkpoint = 1..Cardinality(DOMAIN checkpoint)

LinksHold == Contiguous /\ RowsLinked

(* Only a head of kind FINAL or RESULTS is compared with the ballots.      *)
BallotsMatchCount(body) ==   \* the root not compared
  body.kind \in {"FINAL", "RESULTS"} => body.ballotCount = Cardinality(ballot)

BallotsMatch(body) ==
  body.kind \in {"FINAL", "RESULTS"} =>
    /\ body.ballotCount = Cardinality(ballot)
    /\ body.merkleRoot = ballot

ResultsMatch(body) ==
  body.kind = "RESULTS" =>
    body.resultsHash = <<[rows |-> tallyResult, invalid |-> invalidVotes]>>

RosterMatchesGrown ==   \* additions not noticed
  \A s \in DOMAIN checkpoint :
    FirstSeal(s) => checkpoint[s].body.rosterHash[1] \subseteq roster

RosterMatches == \A s \in DOMAIN checkpoint :
                   FirstSeal(s) => checkpoint[s].body.rosterHash = <<roster>>

verifyChain ==
  /\ DOMAIN checkpoint # {}
  /\ LinksHold
  /\ \A s \in DOMAIN checkpoint :
       IsHead(s) => BallotsMatch(checkpoint[s].body) /\ ResultsMatch(checkpoint[s].body)
  /\ RosterMatches
---------------------------------------------------------------------------
(* Properties                                                              *)

(* Whatever callers race in createCheckpoint, the rows they leave form one *)
(* chain: an audit never sees a gap, a fork or a wrong hash in a chain     *)
(* that only the application wrote.                                        *)
ChainLinear == LinksHold

(* The ballot set of a checkpoint contains that of every earlier one, even *)
(* though the ballots are read in chunks while others are being cast and   *)
(* the scan of one caller may overlap that of another.                     *)
ChainMonotone ==
  \A s, t \in DOMAIN checkpoint :
    s <= t => checkpoint[s].body.merkleRoot \subseteq checkpoint[t].body.merkleRoot
---------------------------------------------------------------------------
(* The inductive invariant behind them.                                    *)

RowsInBox == \A s \in DOMAIN checkpoint : checkpoint[s].body.merkleRoot \subseteq ballot

(* What holds of the locals c of a call, once it has read a head (AfterPrev): *)
(* the row it means to extend is known, and the scan has collected everything *)
(* that row certified, up to the cursor, and all of it once the scan is over. *)
AfterPrev(c) == c.pc \in {"scan", "roster", "results", "insert"}

PrevKnown(c) ==
  \/ c.prevSeq = 0 /\ c.prevHash = GENESIS
  \/ c.prevSeq \in DOMAIN checkpoint /\ c.prevHash = checkpoint[c.prevSeq].hash

CollectedPrev(c) ==
  c.prevSeq \in DOMAIN checkpoint =>
    \A b \in checkpoint[c.prevSeq].body.merkleRoot :
      (c.pc # "scan" \/ b.id <= c.cursor) => b \in c.leaves

ResultsRead(c) ==
  c.kind = "RESULTS" =>
    c.pc # "roster" /\ (c.pc = "insert" => c.rows # Null /\ c.invalid # Null)

Fresh(c) == c.pc = "prev" => c.leaves = {} /\ c.cursor = -1

CallSound(c) ==
  /\ Fresh(c)
  /\ AfterPrev(c) => PrevKnown(c) /\ CollectedPrev(c) /\ c.leaves \subseteq ballot
  /\ ResultsRead(c)

CallsSound == \A r \in Requests : CallSound(call[r])

ChainInv ==
  /\ ChainTypeOK
  /\ Contiguous
  /\ RowsLinked
  /\ RowsInBox
  /\ ChainMonotone
  /\ CallsSound
===========================================================================
