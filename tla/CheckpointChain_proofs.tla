---------------------- MODULE CheckpointChain_proofs ----------------------
(***************************************************************************)
(* Type correctness, linearity and monotonicity of the checkpoint chain,   *)
(* for any number of requests, voters and ballots and any chunk size.      *)
(***************************************************************************)
EXTENDS CheckpointChain, TLAPS, FiniteSetTheorems

(* Ballot ids are unique and finite in number, so every set of rows of the *)
(* box has a natural number of elements.                                   *)
LEMMA FiniteBox ==
  ASSUME ballot \subseteq BallotRow, UniqueIds, NEW S \in SUBSET ballot
  PROVE  IsFiniteSet(S) /\ Cardinality(S) \in Nat
<1> DEFINE f == [b \in S |-> b.id]
<1>1. f \in Injection(S, BallotIds)
  BY DEF Injection, IsInjective, UniqueIds, BallotRow
<1>2. IsFiniteSet(S)
  BY <1>1, FS_Injection, BallotIdsAssumption DEF Injection
<1>3. QED
  BY <1>2, FS_CardinalityType

(* The keys of the checkpoint table are an initial segment of the naturals *)
(* also after the next one was added.                                      *)
LEMMA NextKey ==
  ASSUME IsFiniteSet(DOMAIN checkpoint), Contiguous, NEW n \in Nat,
         n = 0 \/ n \in DOMAIN checkpoint, n + 1 \notin DOMAIN checkpoint
  PROVE  /\ DOMAIN checkpoint = 1..n
         /\ DOMAIN checkpoint \cup {n + 1} = 1..(n + 1)
         /\ IsFiniteSet(1..(n + 1)) /\ Cardinality(1..(n + 1)) = n + 1
<1> DEFINE m == Cardinality(DOMAIN checkpoint)
<1>1. m \in Nat /\ DOMAIN checkpoint = 1..m
  BY FS_CardinalityType DEF Contiguous
<1> HIDE DEF m
<1>2. n = m
  BY <1>1
<1>3. IsFiniteSet(1..(n + 1)) /\ Cardinality(1..(n + 1)) = n + 1
  BY FS_Interval, 1 \in Int, n + 1 \in Int
<1>4. QED
  BY <1>1, <1>2, <1>3
---------------------------------------------------------------------------
LEMMA NoCallType == NoCall \in Call
BY DEF NoCall, Call, CallPc, Kinds, GENESIS, Null, Hashes, RosterHashes, Nullable

(* A nullable column that is not NULL holds a value.                       *)
LEMMA NullableValue ==
  ASSUME NEW S, NEW q \in Nullable(S), q # Null
  PROVE  q[1] \in S
<1>1. q \in Seq(S) /\ Len(q) <= 1
  BY DEF Nullable
<1>2. Len(q) = 1
  BY <1>1 DEF Null
<1>3. QED
  BY <1>1, <1>2

LEMMA InitInv == ChainInit => ChainInv
<1> SUFFICES ASSUME ChainInit PROVE ChainInv
  OBVIOUS
<1>1. DOMAIN checkpoint = {} /\ checkpoint \in [{} -> Checkpoint]
  BY DEF ChainInit
<1>2. IsFiniteSet({}) /\ Cardinality({}) = 0
  BY FS_EmptySet
<1>4. ChainTypeOK
  BY <1>1, <1>2, NoCallType DEF ChainInit, ChainTypeOK, UniqueIds
<1>5. Contiguous
  BY <1>1, <1>2 DEF Contiguous
<1>6. CallsSound
  BY DEF ChainInit, CallsSound, CallSound, Fresh, AfterPrev, ResultsRead, NoCall
<1>7. QED
  BY <1>1, <1>4, <1>5, <1>6 DEF ChainInv, RowsLinked, RowsInBox, ChainMonotone

(* A step that changes only the locals of r keeps the invariant if the new *)
(* locals are sound.                                                       *)
LEMMA LocalStep ==
  ASSUME ChainInv, NEW r \in Requests, NEW c \in Call, CallSound(c),
         call' = [call EXCEPT ![r] = c],
         UNCHANGED <<dataVars, checkpoint>>
  PROVE  ChainInv'
<1> USE DEF ChainInv, dataVars
<1>1. ChainTypeOK'
  BY DEF ChainTypeOK, UniqueIds
<1>2. CallsSound'
  <2> SUFFICES ASSUME NEW q \in Requests PROVE CallSound(call[q])'
    BY DEF CallsSound
  <2>1. CallSound(call'[q])
    BY DEF CallsSound, ChainTypeOK
  <2>2. QED
    BY <2>1 DEF CallSound, Fresh, AfterPrev, PrevKnown, CollectedPrev, ResultsRead
<1>3. Contiguous' /\ RowsLinked' /\ RowsInBox' /\ ChainMonotone'
  BY DEF Contiguous, RowsLinked, RowsInBox, ChainMonotone
<1>4. QED
  BY <1>1, <1>2, <1>3

LEMMA BeginInv ==
  ASSUME ChainInv, NEW r \in Requests, NEW kind \in Kinds, Begin(r, kind)
  PROVE  ChainInv'
<1> DEFINE c == [NoCall EXCEPT !.pc = "prev", !.kind = kind]
<1>1. c \in Call
  BY NoCallType DEF Call, CallPc
<1>2. call' = [call EXCEPT ![r] = c] /\ UNCHANGED <<dataVars, checkpoint>>
  BY DEF Begin
<1>3. CallSound(c)
  BY DEF CallSound, Fresh, AfterPrev, ResultsRead, NoCall
<1>4. QED
  BY <1>1, <1>2, <1>3, LocalStep

LEMMA EndCallInv ==
  ASSUME ChainInv, NEW r \in Requests, EndCall(r)
  PROVE  ChainInv'
<1>1. CallSound(NoCall)
  BY DEF CallSound, Fresh, AfterPrev, ResultsRead, NoCall
<1>2. QED
  BY <1>1, NoCallType, LocalStep DEF EndCall

LEMMA ReadPrevInv ==
  ASSUME ChainInv, NEW r \in Requests, ReadPrev(r)
  PROVE  ChainInv'
<1>1. UNCHANGED <<dataVars, checkpoint>> /\ call[r] \in Call /\ call[r].pc = "prev"
  BY DEF ReadPrev, ChainInv, ChainTypeOK
<1>2. call[r].leaves = {} /\ call[r].cursor = -1
  BY <1>1 DEF ChainInv, CallsSound, CallSound, Fresh
<1>3. ASSUME NEW s \in Nat, NEW h \in Hashes,
             call' = [call EXCEPT ![r].pc = "scan", ![r].prevSeq = s, ![r].prevHash = h],
             \/ s = 0 /\ h = GENESIS
             \/ s \in DOMAIN checkpoint /\ h = checkpoint[s].hash
      PROVE  ChainInv'
  <2> DEFINE c == [call[r] EXCEPT !.pc = "scan", !.prevSeq = s, !.prevHash = h]
  <2>1. c \in Call
    BY <1>1, <1>3 DEF Call, CallPc
  <2>2. call' = [call EXCEPT ![r] = c]
    BY <1>3 DEF ChainInv, ChainTypeOK
  <2>3. /\ c.pc = "scan" /\ c.prevSeq = s /\ c.prevHash = h
        /\ c.leaves = {} /\ c.cursor = -1
    BY <1>1, <1>2 DEF Call
  <2>4. \A t \in DOMAIN checkpoint : \A b \in checkpoint[t].body.merkleRoot : ~(b.id <= -1)
    BY BallotIdsAssumption DEF ChainInv, ChainTypeOK, Checkpoint, Content, BallotRow
  <2> HIDE DEF c
  <2>5. Fresh(c) /\ ResultsRead(c)
    BY <2>3 DEF Fresh, ResultsRead
  <2>6. PrevKnown(c) /\ c.leaves \subseteq ballot
    BY <1>3, <2>3 DEF PrevKnown
  <2>7. CollectedPrev(c)
    BY <2>3, <2>4 DEF CollectedPrev
  <2>8. QED
    BY <1>1, <2>1, <2>2, <2>5, <2>6, <2>7, LocalStep DEF CallSound
<1>4. GENESIS \in Hashes
  BY DEF GENESIS, Hashes
<1>5. \A s \in DOMAIN checkpoint : s \in Nat /\ checkpoint[s].hash \in Hashes
  BY DEF ChainInv, ChainTypeOK, Checkpoint
<1>6. QED
  BY <1>3, <1>4, <1>5 DEF ReadPrev

(* Every ballot beyond the cursor and not beyond the last one of the batch *)
(* is in the batch; a batch that is not full holds them all.               *)
LEMMA BatchCovers ==
  ASSUME ChainTypeOK, NEW cursor \in Int, NEW batch, IsBatch(batch, cursor),
         NEW id, IsLast(id, batch, cursor), NEW b \in Beyond(cursor),
         LastBatch(batch) \/ b.id <= id
  PROVE  b \in batch
<1>1. CASE LastBatch(batch)
  <2>1. batch = Beyond(cursor)
    BY <1>1, ChunkAssumption DEF IsBatch, LastBatch
  <2>2. QED
    BY <2>1
<1>2. CASE b.id <= id /\ batch # {}
  BY <1>2 DEF IsBatch, IsLast
<1>3. CASE b.id <= id /\ batch = {}
  BY <1>3, BallotIdsAssumption DEF IsLast, Beyond, ChainTypeOK, BallotRow
<1>4. QED
  BY <1>1, <1>2, <1>3

LEMMA ScanBatchInv ==
  ASSUME ChainInv, NEW r \in Requests, ScanBatch(r)
  PROVE  ChainInv'
<1>1. UNCHANGED <<dataVars, checkpoint>> /\ call[r] \in Call /\ call[r].pc = "scan"
  BY DEF ScanBatch, ChainInv, ChainTypeOK
<1>2. PrevKnown(call[r]) /\ CollectedPrev(call[r]) /\ call[r].leaves \subseteq ballot
  BY <1>1 DEF ChainInv, CallsSound, CallSound, AfterPrev
<1>3. PICK batch \in SUBSET Beyond(call[r].cursor), id \in BallotIds \cup {call[r].cursor} :
        /\ IsBatch(batch, call[r].cursor)
        /\ IsLast(id, batch, call[r].cursor)
        /\ call' = [call EXCEPT
             ![r].leaves = @ \cup batch,
             ![r].cursor = id,
             ![r].pc = IF LastBatch(batch) THEN AfterScan(call[r].kind) ELSE "scan"]
  BY DEF ScanBatch
<1> DEFINE pc == IF LastBatch(batch) THEN AfterScan(call[r].kind) ELSE "scan"
           c  == [call[r] EXCEPT !.leaves = @ \cup batch, !.cursor = id, !.pc = pc]
<1>4. /\ pc \in {"scan", "roster", "results", "insert"}
      /\ pc = "scan" \/ LastBatch(batch)
      /\ pc \in {"roster", "insert"} => call[r].kind # "RESULTS"
  BY DEF AfterScan
<1>5. /\ batch \subseteq ballot /\ ballot \subseteq BallotRow
      /\ call[r].cursor \in Int /\ id \in Int
  BY <1>1, BallotIdsAssumption DEF Beyond, ChainInv, ChainTypeOK, Call
<1> HIDE DEF pc
<1>6. c \in Call
  <2>1. pc \in CallPc /\ call[r].leaves \cup batch \in SUBSET BallotRow
    BY <1>2, <1>4, <1>5 DEF CallPc
  <2>2. QED
    BY <1>1, <1>5, <2>1 DEF Call
<1>7. call' = [call EXCEPT ![r] = c]
  BY <1>3 DEF ChainInv, ChainTypeOK, pc
<1>8. /\ c.pc = pc /\ c.cursor = id /\ c.leaves = call[r].leaves \cup batch
      /\ c.kind = call[r].kind /\ c.prevSeq = call[r].prevSeq
      /\ c.prevHash = call[r].prevHash
  BY <1>1 DEF Call
<1> HIDE DEF c
<1>9. ASSUME NEW b \in ballot, b \notin batch, pc # "scan" \/ b.id <= id
      PROVE  b.id <= call[r].cursor
  <2>1. b.id \in Int
    <3>1. b \in BallotRow
      BY <1>5
    <3>2. b.id \in BallotIds
      BY <3>1 DEF BallotRow
    <3>3. BallotIds \subseteq Int
      BY BallotIdsAssumption
    <3>4. QED
      BY <3>2, <3>3, Zenon
  <2>2. b \notin Beyond(call[r].cursor)
    BY <1>3, <1>4, <1>5, <1>9, BatchCovers DEF ChainInv
  <2>3. QED
    BY <1>5, <1>9, <2>1, <2>2 DEF Beyond
<1>10. CollectedPrev(c)
  <2> SUFFICES ASSUME call[r].prevSeq \in DOMAIN checkpoint,
                      NEW b \in checkpoint[call[r].prevSeq].body.merkleRoot,
                      pc # "scan" \/ b.id <= id
               PROVE  b \in call[r].leaves \cup batch
    BY <1>8 DEF CollectedPrev
  <2>1. b \in ballot
    BY DEF ChainInv, RowsInBox
  <2>2. b \in batch \/ b.id <= call[r].cursor
    BY <1>9, <2>1
  <2>3. QED
    BY <1>1, <1>2, <2>2 DEF CollectedPrev
<1>11. PrevKnown(c) /\ c.leaves \subseteq ballot
  BY <1>2, <1>5, <1>8 DEF PrevKnown
<1>12. Fresh(c) /\ ResultsRead(c)
  BY <1>4, <1>8 DEF Fresh, ResultsRead
<1>13. QED
  BY <1>1, <1>6, <1>7, <1>10, <1>11, <1>12, LocalStep DEF CallSound

(* The queries after the scan change none of what the scan collected.      *)
LEMMA LaterQuery ==
  ASSUME NEW c, NEW d, CallSound(c),
         c.pc \in {"roster", "results"}, d.pc \in {"results", "insert"},
         d.prevSeq = c.prevSeq, d.prevHash = c.prevHash, d.leaves = c.leaves,
         ResultsRead(d)
  PROVE  CallSound(d)
<1>1. PrevKnown(c) /\ CollectedPrev(c) /\ c.leaves \subseteq ballot
  BY DEF CallSound, AfterPrev
<1>2. PrevKnown(d) /\ CollectedPrev(d) /\ d.leaves \subseteq ballot
  BY <1>1 DEF PrevKnown, CollectedPrev
<1>3. Fresh(d)
  BY DEF Fresh
<1>4. QED
  BY <1>2, <1>3 DEF CallSound

LEMMA ReadRosterInv ==
  ASSUME ChainInv, NEW r \in Requests, ReadRoster(r)
  PROVE  ChainInv'
<1> DEFINE c == [call[r] EXCEPT !.rosterHash = <<roster>>, !.pc = "insert"]
<1>1. /\ UNCHANGED <<dataVars, checkpoint>> /\ call' = [call EXCEPT ![r] = c]
      /\ call[r] \in Call /\ call[r].pc = "roster" /\ CallSound(call[r])
  BY DEF ReadRoster, ChainInv, ChainTypeOK, CallsSound
<1>2. <<roster>> \in RosterHashes
  BY DEF RosterHashes, Nullable, ChainInv, ChainTypeOK
<1>3. c \in Call
  BY <1>1, <1>2 DEF Call, CallPc
<1>4. /\ c.pc = "insert" /\ c.kind = call[r].kind /\ c.leaves = call[r].leaves
      /\ c.prevSeq = call[r].prevSeq /\ c.prevHash = call[r].prevHash
  BY <1>1 DEF Call
<1> HIDE DEF c
<1>5. ResultsRead(c)
  BY <1>1, <1>4 DEF CallSound, ResultsRead
<1>6. CallSound(c)
  BY <1>1, <1>4, <1>5, LaterQuery
<1>7. QED
  BY <1>1, <1>3, <1>6, LocalStep

LEMMA ReadRowsInv ==
  ASSUME ChainInv, NEW r \in Requests, ReadRows(r)
  PROVE  ChainInv'
<1> DEFINE pc == IF call[r].invalid = Null THEN "results" ELSE "insert"
           c  == [call[r] EXCEPT !.rows = <<tallyResult>>, !.pc = pc]
<1>1. /\ UNCHANGED <<dataVars, checkpoint>> /\ call' = [call EXCEPT ![r] = c]
      /\ call[r] \in Call /\ call[r].pc = "results" /\ CallSound(call[r])
  BY DEF ReadRows, ChainInv, ChainTypeOK, CallsSound
<1>2. <<tallyResult>> \in Nullable(SUBSET TallyRow) /\ <<tallyResult>> # Null
  BY DEF Nullable, Null, ChainInv, ChainTypeOK
<1>3. pc \in {"results", "insert"} /\ (pc = "insert" => call[r].invalid # Null)
  OBVIOUS
<1> HIDE DEF pc
<1>4. c \in Call
  BY <1>1, <1>2, <1>3 DEF Call, CallPc
<1>5. /\ c.pc = pc /\ c.rows = <<tallyResult>> /\ c.invalid = call[r].invalid
      /\ c.kind = call[r].kind /\ c.leaves = call[r].leaves
      /\ c.prevSeq = call[r].prevSeq /\ c.prevHash = call[r].prevHash
  BY <1>1 DEF Call
<1> HIDE DEF c
<1>6. ResultsRead(c)
  BY <1>2, <1>3, <1>5 DEF ResultsRead
<1>7. CallSound(c)
  BY <1>1, <1>3, <1>5, <1>6, LaterQuery
<1>8. QED
  BY <1>1, <1>4, <1>7, LocalStep

LEMMA ReadInvalidInv ==
  ASSUME ChainInv, NEW r \in Requests, ReadInvalid(r)
  PROVE  ChainInv'
<1> DEFINE pc == IF call[r].rows = Null THEN "results" ELSE "insert"
           c  == [call[r] EXCEPT !.invalid = <<invalidVotes>>, !.pc = pc]
<1>1. /\ UNCHANGED <<dataVars, checkpoint>> /\ call' = [call EXCEPT ![r] = c]
      /\ call[r] \in Call /\ call[r].pc = "results" /\ CallSound(call[r])
  BY DEF ReadInvalid, ChainInv, ChainTypeOK, CallsSound
<1>2. <<invalidVotes>> \in Nullable(Nat) /\ <<invalidVotes>> # Null
  BY DEF Nullable, Null, ChainInv, ChainTypeOK
<1>3. pc \in {"results", "insert"} /\ (pc = "insert" => call[r].rows # Null)
  OBVIOUS
<1> HIDE DEF pc
<1>4. c \in Call
  BY <1>1, <1>2, <1>3 DEF Call, CallPc
<1>5. /\ c.pc = pc /\ c.invalid = <<invalidVotes>> /\ c.rows = call[r].rows
      /\ c.kind = call[r].kind /\ c.leaves = call[r].leaves
      /\ c.prevSeq = call[r].prevSeq /\ c.prevHash = call[r].prevHash
  BY <1>1 DEF Call
<1> HIDE DEF c
<1>6. ResultsRead(c)
  BY <1>2, <1>3, <1>5 DEF ResultsRead
<1>7. CallSound(c)
  BY <1>1, <1>3, <1>5, <1>6, LaterQuery
<1>8. QED
  BY <1>1, <1>4, <1>7, LocalStep

LEMMA InsertConflictInv ==
  ASSUME ChainInv, NEW r \in Requests, InsertConflict(r)
  PROVE  ChainInv'
<1> DEFINE c == [call[r] EXCEPT !.pc = "failed"]
<1>1. /\ UNCHANGED <<dataVars, checkpoint>> /\ call' = [call EXCEPT ![r] = c]
      /\ call[r] \in Call
  BY DEF InsertConflict, ChainInv, ChainTypeOK
<1>2. c \in Call /\ c.pc = "failed"
  BY <1>1 DEF Call, CallPc
<1> HIDE DEF c
<1>3. CallSound(c)
  BY <1>2 DEF CallSound, Fresh, AfterPrev, ResultsRead
<1>4. QED
  BY <1>1, <1>2, <1>3, LocalStep

(* The row a caller writes is a checkpoint: in particular its ballotCount  *)
(* is a number, and its results were read.                                 *)
LEMMA NewCheckpointType ==
  ASSUME ChainInv, NEW r \in Requests, call[r].pc = "insert"
  PROVE  NewBody(r) \in Content /\ NewCheckpoint(r) \in Checkpoint
<1>1. call[r] \in Call /\ CallSound(call[r])
  BY DEF ChainInv, ChainTypeOK, CallsSound
<1>2. Cardinality(call[r].leaves) \in Nat
  BY <1>1, FiniteBox DEF CallSound, AfterPrev, ChainInv, ChainTypeOK
<1> DEFINE results == IF call[r].kind = "RESULTS"
                        THEN <<[rows |-> call[r].rows[1], invalid |-> call[r].invalid[1]]>>
                        ELSE Null
<1>3. results \in ResultsHashes
  <2>1. CASE call[r].kind = "RESULTS"
    <3>1. /\ call[r].rows # Null /\ call[r].rows \in Nullable(SUBSET TallyRow)
          /\ call[r].invalid # Null /\ call[r].invalid \in Nullable(Nat)
      BY <1>1, <2>1 DEF CallSound, ResultsRead, Call
    <3>2. call[r].rows[1] \in SUBSET TallyRow /\ call[r].invalid[1] \in Nat
      BY <3>1, NullableValue
    <3>3. QED
      BY <2>1, <3>2 DEF ResultsHashes, Nullable
  <2>2. CASE call[r].kind # "RESULTS"
    BY <2>2 DEF ResultsHashes, Nullable, Null
  <2>3. QED
    BY <2>1, <2>2
<1> HIDE DEF results
<1>4. NewBody(r) = [seq |-> call[r].prevSeq + 1, kind |-> call[r].kind,
                    ballotCount |-> Cardinality(call[r].leaves),
                    merkleRoot |-> call[r].leaves,
                    rosterHash |-> call[r].rosterHash, resultsHash |-> results]
  BY DEF NewBody, nextSeq, results
<1>5. NewBody(r) \in Content
  BY <1>1, <1>2, <1>3, <1>4 DEF Content, Call
<1>6. Append(call[r].prevHash, NewBody(r)) \in Hashes
  BY <1>1, <1>5 DEF Hashes, Call
<1>7. QED
  BY <1>1, <1>5, <1>6 DEF NewCheckpoint, Checkpoint, checkpointHash, Call

LEMMA InsertInv ==
  ASSUME ChainInv, NEW r \in Requests, Insert(r)
  PROVE  ChainInv'
<1> DEFINE n   == call[r].prevSeq
           row == NewCheckpoint(r)
<1>1. /\ call[r].pc = "insert" /\ n + 1 \notin DOMAIN checkpoint /\ UNCHANGED dataVars
      /\ checkpoint' = [s \in DOMAIN checkpoint \cup {n + 1} |->
                          IF s = n + 1 THEN row ELSE checkpoint[s]]
      /\ call' = [call EXCEPT ![r].pc = "done"]
  BY DEF Insert, SeqFree, nextSeq
<1>2. /\ call[r] \in Call /\ n \in Nat
      /\ PrevKnown(call[r]) /\ CollectedPrev(call[r]) /\ call[r].leaves \subseteq ballot
  BY <1>1 DEF ChainInv, ChainTypeOK, CallsSound, CallSound, AfterPrev, Call
<1>3. n = 0 \/ n \in DOMAIN checkpoint
  BY <1>2 DEF PrevKnown
<1>4. /\ row \in Checkpoint /\ row.body.seq = n + 1
      /\ row.body.merkleRoot = call[r].leaves /\ row.prevHash = call[r].prevHash
      /\ row.hash = checkpointHash(row.body, row.prevHash)
  BY <1>1, NewCheckpointType DEF NewCheckpoint, NewBody, nextSeq
<1>5. /\ DOMAIN checkpoint = 1..n /\ DOMAIN checkpoint' = 1..(n + 1)
      /\ IsFiniteSet(1..(n + 1)) /\ Cardinality(1..(n + 1)) = n + 1
  BY <1>1, <1>2, <1>3, NextKey DEF ChainInv, ChainTypeOK
<1> HIDE DEF n, row
<1>6. checkpoint'[n + 1] = row /\ \A s \in 1..n : checkpoint'[s] = checkpoint[s]
  BY <1>1, <1>2, <1>5
<1>7. ChainTypeOK'
  <2>1. call' \in [Requests -> Call]
    BY <1>1, <1>2 DEF ChainInv, ChainTypeOK, Call, CallPc
  <2>2. \A s \in 1..(n + 1) : checkpoint'[s] \in Checkpoint
    BY <1>2, <1>4, <1>5, <1>6 DEF ChainInv, ChainTypeOK
  <2>3. checkpoint' \in [1..(n + 1) -> Checkpoint]
    BY <1>1, <1>5, <2>2
  <2>4. DOMAIN checkpoint' \subseteq Nat \ {0} /\ IsFiniteSet(DOMAIN checkpoint')
    BY <1>2, <1>5
  <2>5. checkpoint' \in [DOMAIN checkpoint' -> Checkpoint]
    BY <1>5, <2>3
  <2>6. QED
    BY <1>1, <2>1, <2>4, <2>5 DEF ChainInv, ChainTypeOK, UniqueIds, dataVars
<1>8. Contiguous'
  BY <1>5 DEF Contiguous
<1>9. RowsLinked'
  <2> SUFFICES ASSUME NEW s \in 1..(n + 1)
               PROVE  /\ checkpoint'[s].body.seq = s
                      /\ checkpoint'[s].prevHash =
                           IF s = 1 THEN GENESIS ELSE checkpoint'[s - 1].hash
                      /\ checkpoint'[s].hash =
                           checkpointHash(checkpoint'[s].body, checkpoint'[s].prevHash)
    BY <1>5 DEF RowsLinked
  <2>1. CASE s = n + 1
    <3>1. n = 0 => call[r].prevHash = GENESIS
      BY <1>2, <1>5, 0 \notin 1..n DEF PrevKnown, n
    <3>2. n # 0 => n \in 1..n /\ call[r].prevHash = checkpoint[n].hash
      BY <1>2, <1>5 DEF PrevKnown, n
    <3>3. QED
      BY <1>2, <1>4, <1>6, <2>1, <3>1, <3>2
  <2>2. CASE s # n + 1
    <3>1. s \in 1..n /\ (s # 1 => s - 1 \in 1..n)
      BY <1>2, <2>2
    <3>2. QED
      BY <1>5, <1>6, <3>1 DEF ChainInv, RowsLinked
  <2>3. QED
    BY <2>1, <2>2
<1>10. RowsInBox'
  <2>1. \A s \in 1..n : checkpoint[s].body.merkleRoot \subseteq ballot
    BY <1>5 DEF ChainInv, RowsInBox
  <2>2. \A s \in 1..(n + 1) : checkpoint'[s].body.merkleRoot \subseteq ballot
    BY <1>2, <1>4, <1>6, <2>1
  <2>3. QED
    BY <1>1, <1>5, <2>2 DEF RowsInBox, dataVars
<1>11. \A s \in 1..n : checkpoint[s].body.merkleRoot \subseteq row.body.merkleRoot
  <2> SUFFICES ASSUME NEW s \in 1..n
               PROVE  checkpoint[s].body.merkleRoot \subseteq call[r].leaves
    BY <1>4
  <2>1. n \in 1..n /\ s <= n
    BY <1>2
  <2>2. checkpoint[s].body.merkleRoot \subseteq checkpoint[n].body.merkleRoot
    BY <1>5, <2>1 DEF ChainInv, ChainMonotone
  <2>3. checkpoint[n].body.merkleRoot \subseteq call[r].leaves
    BY <1>1, <1>2, <1>5, <2>1 DEF CollectedPrev, n
  <2>4. QED
    BY <2>2, <2>3
<1>12. ChainMonotone'
  <2> SUFFICES ASSUME NEW s \in 1..(n + 1), NEW t \in 1..(n + 1), s <= t
               PROVE  checkpoint'[s].body.merkleRoot \subseteq checkpoint'[t].body.merkleRoot
    BY <1>5 DEF ChainMonotone
  <2>1. CASE t = n + 1
    BY <1>2, <1>6, <1>11, <2>1
  <2>2. CASE t # n + 1
    <3>1. s \in 1..n /\ t \in 1..n
      BY <1>2, <2>2
    <3>2. QED
      BY <1>5, <1>6, <3>1 DEF ChainInv, ChainMonotone
  <2>3. QED
    BY <2>1, <2>2
<1>13. CallsSound'
  <2> SUFFICES ASSUME NEW q \in Requests PROVE CallSound(call[q])'
    BY DEF CallsSound
  <2>1. CASE q = r
    <3>1. call'[q].pc = "done"
      BY <1>1, <1>2, <2>1 DEF ChainInv, ChainTypeOK, Call
    <3>2. QED
      BY <3>1 DEF CallSound, Fresh, AfterPrev, ResultsRead
  <2>2. CASE q # r
    <3>1. call'[q] = call[q] /\ CallSound(call[q]) /\ ballot' = ballot
      BY <1>1, <2>2 DEF ChainInv, ChainTypeOK, CallsSound, dataVars
    <3>2. CASE AfterPrev(call[q])
      <4>1. PrevKnown(call[q]) /\ CollectedPrev(call[q]) /\ call[q].leaves \subseteq ballot
        BY <3>1, <3>2 DEF CallSound
      <4>2. call[q].prevSeq \in 1..(n + 1) => call[q].prevSeq \in 1..n
        BY <1>2, <1>5, <4>1 DEF PrevKnown
      <4>3. PrevKnown(call[q])'
        BY <1>2, <1>5, <1>6, <3>1, <4>1 DEF PrevKnown
      <4>4. CollectedPrev(call[q])'
        BY <1>5, <1>6, <3>1, <4>1, <4>2 DEF CollectedPrev
      <4>5. QED
        BY <3>1, <4>1, <4>3, <4>4 DEF CallSound, Fresh, ResultsRead
    <3>3. CASE ~AfterPrev(call[q])
      BY <3>1, <3>3 DEF CallSound, Fresh, ResultsRead, AfterPrev
    <3>4. QED
      BY <3>2, <3>3
  <2>3. QED
    BY <2>1, <2>2
<1>14. QED
  BY <1>7, <1>8, <1>9, <1>10, <1>12, <1>13 DEF ChainInv

(* The tables grow under the chain's feet.                                 *)
LEMMA DataStepInv ==
  ASSUME ChainInv, DataStep
  PROVE  ChainInv'
<1>1. /\ ballot \subseteq ballot' /\ checkpoint' = checkpoint /\ call' = call
  BY DEF DataStep
<1>2. ChainTypeOK'
  BY DEF ChainInv, ChainTypeOK, DataStep
<1>3. Contiguous' /\ RowsLinked' /\ RowsInBox' /\ ChainMonotone'
  BY <1>1 DEF ChainInv, Contiguous, RowsLinked, RowsInBox, ChainMonotone
<1>4. CallsSound'
  BY <1>1 DEF ChainInv, CallsSound, CallSound, Fresh, AfterPrev, PrevKnown,
              CollectedPrev, ResultsRead
<1>5. QED
  BY <1>2, <1>3, <1>4 DEF ChainInv

LEMMA StutterInv ==
  ASSUME ChainInv, UNCHANGED chainVars
  PROVE  ChainInv'
<1>1. DataStep
  BY DEF DataStep, chainVars, ChainInv, ChainTypeOK, UniqueIds
<1>2. QED
  BY <1>1, DataStepInv

LEMMA StepInv ==
  ASSUME ChainInv, [ChainNext]_chainVars
  PROVE  ChainInv'
<1>1. ASSUME NEW r \in Requests, NEW kind \in Kinds, Begin(r, kind) PROVE ChainInv'
  BY <1>1, BeginInv
<1>2. ASSUME NEW r \in Requests, ReadPrev(r) PROVE ChainInv'
  BY <1>2, ReadPrevInv
<1>3. ASSUME NEW r \in Requests, ScanBatch(r) PROVE ChainInv'
  BY <1>3, ScanBatchInv
<1>4. ASSUME NEW r \in Requests, ReadRoster(r) PROVE ChainInv'
  BY <1>4, ReadRosterInv
<1>5. ASSUME NEW r \in Requests, ReadRows(r) PROVE ChainInv'
  BY <1>5, ReadRowsInv
<1>6. ASSUME NEW r \in Requests, ReadInvalid(r) PROVE ChainInv'
  BY <1>6, ReadInvalidInv
<1>7. ASSUME NEW r \in Requests, Insert(r) PROVE ChainInv'
  BY <1>7, InsertInv
<1>8. ASSUME NEW r \in Requests, InsertConflict(r) PROVE ChainInv'
  BY <1>8, InsertConflictInv
<1>9. ASSUME NEW r \in Requests, EndCall(r) PROVE ChainInv'
  BY <1>9, EndCallInv
<1>10. CASE DataStep
  BY <1>10, DataStepInv
<1>11. CASE UNCHANGED chainVars
  BY <1>11, StutterInv
<1>12. QED
  BY <1>1, <1>2, <1>3, <1>4, <1>5, <1>6, <1>7, <1>8, <1>9, <1>10, <1>11
     DEF ChainNext, CallStep

LEMMA SpecInv == ChainSpec => []ChainInv
<1>1. QED
  BY InitInv, StepInv, PTL DEF ChainSpec
---------------------------------------------------------------------------
(* Every table and every local of createCheckpoint keeps its type.         *)
THEOREM ChainTypeCorrect == ChainSpec => []ChainTypeOK
<1>1. ChainInv => ChainTypeOK
  BY DEF ChainInv
<1>2. QED
  BY <1>1, SpecInv, PTL

(* The unique seq alone keeps the chain linear, whatever callers race: no  *)
(* gap, no fork, every hash over the row before it.                        *)
THEOREM ChainStaysLinear == ChainSpec => []ChainLinear
<1>1. ChainInv => ChainLinear
  BY DEF ChainInv, ChainLinear, LinksHold
<1>2. QED
  BY <1>1, SpecInv, PTL

(* A later checkpoint never certifies fewer ballots than an earlier one,   *)
(* for every chunk size and every interleaving of scans and votes.         *)
THEOREM ChainStaysMonotone == ChainSpec => []ChainMonotone
<1>1. ChainInv => ChainMonotone
  BY DEF ChainInv
<1>2. QED
  BY <1>1, SpecInv, PTL
===========================================================================
