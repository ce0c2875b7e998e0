-------------------------- MODULE Election_proofs --------------------------
(***************************************************************************)
(* The election implements the checkpoint chain, keeps its types, holds    *)
(* one ballot per voter, is tallied under dual control only, and comes to  *)
(* what a BallotBox promises: for any number of voters, commissioners and  *)
(* requests, any quorum, and crashes.                                      *)
(***************************************************************************)
EXTENDS Election, CheckpointChain_proofs

(* The values a handler may have in its locals, by where it is.            *)
LEMMA Shape ==
  ASSUME NEW l \in Req
  PROVE  /\ l.pc = "cast" => l \in CastReq
         /\ l.pc \in {"import.seal", "import.rows"} => l \in ImportReq
         /\ l.pc = "candidates" => l \in ListReq
         /\ l.pc = "begin" => l \in BeginReq
         /\ l.pc = "call" => l \in CallReq
         /\ l.pc = "tally.check" => l \in CheckReq
         /\ l.pc \in {"tally.quorum", "tally.claim", "tally.candidates"} => l \in ApproveReq
         /\ l.pc \in {"tally.scan", "tally.publish"} => l \in CountReq
BY DEF Req, PlainReq, CastReq, ImportReq, ListReq, BeginReq, CallReq, CheckReq,
       ApproveReq, CountReq

(* A handler between two calls that needs no locals any more.              *)
LEMMA PlainType ==
  ASSUME NEW p \in {"idle", "seal.sealed", "seal.count", "open.seal", "open.match",
                    "open.update", "anchor"}
  PROVE  At(p) \in Req /\ At(p).pc = p /\ At(p).pc \notin TallyPcs \cup GrantedPcs
BY DEF At, Req, PlainReq, TallyPcs, GrantedPcs

LEMMA IdleType == Idle \in Req /\ Idle = At("idle")
BY PlainType DEF Idle, At

LEMMA BeginType ==
  ASSUME NEW kind \in Kinds, NEW then \in Continuations
  PROVE  /\ Checkpointing(kind, then) \in Req
         /\ Checkpointing(kind, then).pc \notin TallyPcs \cup GrantedPcs
BY DEF Checkpointing, Req, BeginReq, TallyPcs, GrantedPcs

LEMMA CallType ==
  ASSUME NEW then \in Continuations
  PROVE  /\ [pc |-> "call", then |-> then] \in Req
         /\ [pc |-> "call", then |-> then].pc \notin TallyPcs \cup GrantedPcs
BY DEF Req, CallReq, TallyPcs, GrantedPcs
---------------------------------------------------------------------------
(* The box has as many ballots as there are marked voters also after one   *)
(* more of both.                                                           *)
LEMMA OneMoreVote ==
  ASSUME ChainTypeOK, hasVoted \subseteq roster, Cardinality(ballot) = Cardinality(hasVoted),
         NEW v \in roster \ hasVoted, NEW b, b \notin ballot
  PROVE  Cardinality(ballot \cup {b}) = Cardinality(hasVoted \cup {v})
<1>1. IsFiniteSet(ballot)
  BY FiniteBox DEF ChainTypeOK
<1>2. IsFiniteSet(hasVoted)
  BY FS_Subset, SetsAssumption DEF ChainTypeOK
<1>3. Cardinality(ballot \cup {b}) = Cardinality(ballot) + 1
  BY <1>1, FS_AddElement
<1>4. Cardinality(hasVoted \cup {v}) = Cardinality(hasVoted) + 1
  BY <1>2, FS_AddElement
<1>5. QED
  BY <1>3, <1>4

(* Approvals are never withdrawn, so a quorum that was reached stays.      *)
LEMMA QuorumStays ==
  ASSUME approval \subseteq approval', approval' \subseteq Admins, EnoughApprovals
  PROVE  EnoughApprovals'
<1>1. IsFiniteSet(approval') /\ IsFiniteSet(approval)
  BY FS_Subset, SetsAssumption
<1>2. Cardinality(approval) <= Cardinality(approval')
  BY <1>1, FS_Subset
<1>3. Cardinality(approval) \in Nat /\ Cardinality(approval') \in Nat
  BY <1>1, FS_CardinalityType
<1>4. QED
  BY <1>2, <1>3, QuorumAssumption DEF EnoughApprovals

(* A handler's step keeps the locals of all handlers sound if its own new  *)
(* locals are, the box grows, no election is reopened and the quorum stays. *)
LEMMA ReqStep ==
  ASSUME ElectionInv, NEW r \in Requests, NEW l \in Req, ReqSound(l)',
         req' = [req EXCEPT ![r] = l],
         ballot \subseteq ballot',
         status \in {"CLOSED", "TALLIED"} => status' \in {"CLOSED", "TALLIED"},
         EnoughApprovals => EnoughApprovals'
  PROVE  req' \in [Requests -> Req] /\ ReqsSound' /\ req'[r] = l
<1>1. req \in [Requests -> Req] /\ ReqsSound
  BY DEF ElectionInv, TypeOK
<1>2. req' \in [Requests -> Req] /\ req'[r] = l
  BY <1>1
<1>3. ASSUME NEW q \in Requests PROVE ReqSound(req[q])'
  <2>1. CASE q = r
    BY <1>2, <2>1 DEF ReqSound
  <2>2. CASE q # r
    <3>1. req'[q] = req[q] /\ ReqSound(req[q])
      BY <1>1, <2>2 DEF ReqsSound
    <3>2. QED
      BY <3>1 DEF ReqSound
  <2>3. QED
    BY <2>1, <2>2
<1>4. QED
  BY <1>2, <1>3 DEF ReqsSound

(* Locals outside the tally owe nothing.                                   *)
LEMMA OtherSound ==
  ASSUME NEW l, l.pc \notin TallyPcs \cup GrantedPcs
  PROVE  ReqSound(l)'
BY DEF ReqSound, TallyPcs, GrantedPcs

LEMMA OpenedStep ==
  ASSUME ReqsSound',
         tallyResult' # {} \/ status' = "TALLIED" =>
           status' \in {"CLOSED", "TALLIED"} /\ EnoughApprovals'
  PROVE  OpenedUnderDualControl'
<1>1. ASSUME NEW q \in Requests, Opening(q)'
      PROVE  status' \in {"CLOSED", "TALLIED"} /\ EnoughApprovals'
  BY <1>1 DEF ReqsSound, ReqSound, Opening, TallyPcs, GrantedPcs
<1>2. QED
  BY <1>1 DEF OpenedUnderDualControl

(* A step that changes nothing but the locals of one handler.              *)
LEMMA OnlyReqInv ==
  ASSUME ElectionInv, NEW r \in Requests, NEW l \in Req, Goto(r, l), OnlyReq, ReqSound(l)
  PROVE  ElectionInv'
<1> USE DEF OnlyReq, chainVars
<1>1. /\ req' = [req EXCEPT ![r] = l] /\ status' = status /\ ballot' = ballot
      /\ EnoughApprovals' = EnoughApprovals
  BY DEF Goto, EnoughApprovals
<1>2. ReqSound(l)'
  BY <1>1 DEF ReqSound
<1>3. req' \in [Requests -> Req] /\ ReqsSound'
  BY <1>1, <1>2, ReqStep
<1>4. ChainInv'
  BY StutterInv DEF ElectionInv
<1>5. TypeOK'
  BY <1>3, <1>4 DEF ElectionInv, TypeOK, ChainInv
<1>6. OneBallotPerVoter'
  BY DEF ElectionInv, OneBallotPerVoter
<1>7. OpenedUnderDualControl'
  BY <1>1, <1>3, OpenedStep DEF ElectionInv, OpenedUnderDualControl
<1>8. QED
  BY <1>3, <1>4, <1>5, <1>6, <1>7 DEF ElectionInv

(* The same, when the handler is or leaves outside the tally.              *)
LEMMA OtherReqInv ==
  ASSUME ElectionInv, NEW r \in Requests, NEW l \in Req, Goto(r, l), OnlyReq,
         l.pc \notin TallyPcs \cup GrantedPcs
  PROVE  ElectionInv'
<1>1. ReqSound(l)
  BY DEF ReqSound, TallyPcs, GrantedPcs
<1>2. QED
  BY <1>1, OnlyReqInv

LEMMA IdleReqInv ==
  ASSUME ElectionInv, NEW r \in Requests, Goto(r, Idle), OnlyReq
  PROVE  ElectionInv'
BY IdleType, PlainType, OtherReqInv
---------------------------------------------------------------------------
(* The steps that only move a handler on.                                  *)

LEMMA SetupReqInv ==
  ASSUME ElectionInv, NEW r \in Requests,
         \/ \E rows \in SUBSET Voters : ImportCheck(r, rows)
         \/ \E names \in SUBSET Names : CandidatesCheck(r, names)
         \/ ImportSealCheck(r)
  PROVE  ElectionInv'
<1>1. ASSUME NEW rows \in SUBSET Voters, ImportCheck(r, rows) PROVE ElectionInv'
  <2> DEFINE l == [pc |-> "import.seal", rows |-> rows]
  <2>1. l \in Req /\ l.pc \notin TallyPcs \cup GrantedPcs
    BY DEF Req, ImportReq, TallyPcs, GrantedPcs
  <2>2. QED
    BY <1>1, <2>1, OtherReqInv DEF ImportCheck
<1>2. ASSUME NEW names \in SUBSET Names, CandidatesCheck(r, names) PROVE ElectionInv'
  <2> DEFINE l == [pc |-> "candidates", names |-> names]
  <2>1. l \in Req /\ l.pc \notin TallyPcs \cup GrantedPcs
    BY DEF Req, ListReq, TallyPcs, GrantedPcs
  <2>2. QED
    BY <1>2, <2>1, OtherReqInv DEF CandidatesCheck
<1>3. CASE ImportSealCheck(r)
  <2> DEFINE l == [req[r] EXCEPT !.pc = "import.rows"]
  <2>1. req[r] \in ImportReq
    BY <1>3, Shape DEF ImportSealCheck, ElectionInv, TypeOK
  <2>2. l \in Req /\ l.pc \notin TallyPcs \cup GrantedPcs
    BY <2>1 DEF Req, ImportReq, TallyPcs, GrantedPcs
  <2>3. CASE RosterSealed
    BY <1>3, <2>3, IdleReqInv DEF ImportSealCheck
  <2>4. CASE ~RosterSealed
    BY <1>3, <2>2, <2>4, OtherReqInv DEF ImportSealCheck
  <2>5. QED
    BY <2>3, <2>4
<1>4. QED
  BY <1>1, <1>2, <1>3

LEMMA CastReqInv ==
  ASSUME ElectionInv, NEW r \in Requests,
         \/ \E v \in Voters, choice \in Choices : CastCheck(r, v, choice)
         \/ CastConflict(r)
  PROVE  ElectionInv'
<1>1. ASSUME NEW v \in Voters, NEW choice \in Choices, CastCheck(r, v, choice)
      PROVE  ElectionInv'
  <2> DEFINE l == [pc |-> "cast", voter |-> v, vote |-> choice]
  <2>1. choice \in Votes
    BY VotesAssumption DEF Choices
  <2>2. l \in Req /\ l.pc \notin TallyPcs \cup GrantedPcs
    BY <2>1 DEF Req, CastReq, TallyPcs, GrantedPcs
  <2>3. QED
    BY <1>1, <2>2, OtherReqInv DEF CastCheck
<1>2. CASE CastConflict(r)
  BY <1>2, IdleReqInv DEF CastConflict
<1>3. QED
  BY <1>1, <1>2

LEMMA LifecycleReqInv ==
  ASSUME ElectionInv, NEW r \in Requests,
         \/ SealCheck(r) \/ SealAlready(r) \/ SealCount(r) \/ CheckpointRoute(r)
         \/ OpenCounts(r) \/ OpenReadSeal(r) \/ OpenMatch(r)
  PROVE  ElectionInv'
<1>1. ASSUME NEW p \in {"idle", "seal.sealed", "seal.count", "open.seal", "open.match",
                        "open.update", "anchor"}, Goto(r, At(p)), OnlyReq
      PROVE  ElectionInv'
  BY <1>1, PlainType, OtherReqInv
<1>2. ASSUME NEW kind \in Kinds, NEW then \in Continuations,
             Goto(r, Checkpointing(kind, then)), OnlyReq
      PROVE  ElectionInv'
  BY <1>2, BeginType, OtherReqInv
<1>3. {"ROSTER_SEALED", "BALLOTS"} \subseteq Kinds
  BY DEF Kinds
<1>4. {"idle", "open.update", "anchor"} \subseteq Continuations
  BY DEF Continuations
<1>5. CASE SealCheck(r)
  BY <1>1, <1>5 DEF SealCheck
<1>6. CASE SealAlready(r)
  BY <1>1, <1>6, IdleReqInv DEF SealAlready
<1>7. CASE SealCount(r)
  BY <1>2, <1>3, <1>4, <1>7, IdleReqInv DEF SealCount
<1>8. CASE CheckpointRoute(r)
  BY <1>2, <1>3, <1>4, <1>8 DEF CheckpointRoute
<1>9. CASE OpenCounts(r)
  BY <1>1, <1>9 DEF OpenCounts
<1>10. CASE OpenReadSeal(r)
  BY <1>1, <1>2, <1>3, <1>4, <1>10 DEF OpenReadSeal
<1>11. CASE OpenMatch(r)
  BY <1>1, <1>11, IdleReqInv DEF OpenMatch
<1>12. QED
  BY <1>5, <1>6, <1>7, <1>8, <1>9, <1>10, <1>11

(* Values of a nullable local.                                             *)
LEMMA NullableType ==
  ASSUME NEW S PROVE Null \in Nullable(S) /\ \A x \in S : <<x>> \in Nullable(S)
BY DEF Null, Nullable

LEMMA TallyCheckInv ==
  ASSUME ElectionInv, NEW r \in Requests, NEW a \in Admins, TallyCheck(r, a)
  PROVE  ElectionInv'
<1> DEFINE l == [pc |-> "tally.check", admin |-> a,
                 voted |-> Null, ballots |-> Null, chainOk |-> Null]
<1>1. l \in CheckReq
  BY NullableType DEF CheckReq
<1>2. l \in Req
  BY <1>1 DEF Req
<1>3. ReqSound(l)
  BY DEF TallyCheck, ReqSound, GrantedPcs
<1>4. QED
  BY <1>2, <1>3, OnlyReqInv DEF TallyCheck

LEMMA IntegrityReadInv ==
  ASSUME ElectionInv, NEW r \in Requests, IntegrityRead(r)
  PROVE  ElectionInv'
<1>1. /\ req[r] \in CheckReq /\ req[r].pc = "tally.check" /\ req \in [Requests -> Req]
      /\ status \in {"CLOSED", "TALLIED"}
  BY Shape DEF IntegrityRead, ElectionInv, TypeOK, ReqsSound, ReqSound, TallyPcs
<1>2. ASSUME NEW l \in CheckReq, req' = [req EXCEPT ![r] = l] PROVE ElectionInv'
  <2>1. l \in Req /\ l.pc = "tally.check"
    BY DEF Req, CheckReq
  <2>2. ReqSound(l)
    BY <1>1, <2>1 DEF ReqSound, GrantedPcs
  <2>3. QED
    BY <1>2, <2>1, <2>2, OnlyReqInv DEF IntegrityRead, Goto
<1>3. <<Cardinality(hasVoted)>> \in Nullable(Nat)
  <2>1. IsFiniteSet(hasVoted)
    BY FS_Subset, SetsAssumption DEF ElectionInv, TypeOK
  <2>2. QED
    BY <2>1, FS_CardinalityType, NullableType
<1>4. <<Cardinality(ballot)>> \in Nullable(Nat)
  BY FiniteBox, NullableType DEF ElectionInv, TypeOK, ChainTypeOK
<1>5. <<verifyChain>> \in Nullable(BOOLEAN)
  <2>1. verifyChain \in BOOLEAN
    BY DEF verifyChain
  <2>2. QED
    BY <2>1, NullableType
<1>6. /\ [req[r] EXCEPT !.voted = <<Cardinality(hasVoted)>>] \in CheckReq
      /\ [req[r] EXCEPT !.ballots = <<Cardinality(ballot)>>] \in CheckReq
      /\ [req[r] EXCEPT !.chainOk = <<verifyChain>>] \in CheckReq
  BY <1>1, <1>3, <1>4, <1>5 DEF CheckReq
<1>7. \/ req' = [req EXCEPT ![r] = [req[r] EXCEPT !.voted = <<Cardinality(hasVoted)>>]]
      \/ req' = [req EXCEPT ![r] = [req[r] EXCEPT !.ballots = <<Cardinality(ballot)>>]]
      \/ req' = [req EXCEPT ![r] = [req[r] EXCEPT !.chainOk = <<verifyChain>>]]
  BY <1>1 DEF IntegrityRead
<1>8. QED
  BY <1>2, <1>6, <1>7

LEMMA TallyReqInv ==
  ASSUME ElectionInv, NEW r \in Requests,
         TallyRefuse(r) \/ TallyPublishFails(r) \/ TallyQuorum(r) \/ TallyClaim(r)
           \/ TallyCandidates(r)
  PROVE  ElectionInv'
<1>1. CASE TallyRefuse(r) \/ TallyPublishFails(r)
  BY <1>1, IdleReqInv DEF TallyRefuse, TallyPublishFails
<1>2. req[r] \in Req /\ ReqSound(req[r])
  BY DEF ElectionInv, TypeOK, ReqsSound
<1>3. CASE TallyQuorum(r)
  <2> DEFINE l == [req[r] EXCEPT !.pc = "tally.claim"]
  <2>1. req[r] \in ApproveReq /\ req[r].pc = "tally.quorum"
    BY <1>2, <1>3, Shape DEF TallyQuorum
  <2>2. l \in ApproveReq /\ l.pc = "tally.claim"
    BY <2>1 DEF ApproveReq
  <2> HIDE DEF l
  <2>3. l \in Req
    BY <2>2 DEF Req
  <2>4. EnoughApprovals => ReqSound(l)
    BY <1>2, <2>1, <2>2 DEF ReqSound, TallyPcs
  <2>5. QED
    BY <1>3, <2>3, <2>4, OnlyReqInv, IdleReqInv DEF TallyQuorum, QuorumReached, EnoughApprovals, l
<1>4. CASE TallyClaim(r)
  <2> DEFINE l == [req[r] EXCEPT !.pc = "tally.candidates"]
  <2>1. req[r] \in ApproveReq /\ req[r].pc = "tally.claim"
    BY <1>2, <1>4, Shape DEF TallyClaim
  <2>2. l \in ApproveReq /\ l.pc = "tally.candidates"
    BY <2>1 DEF ApproveReq
  <2> HIDE DEF l
  <2>3. l \in Req
    BY <2>2 DEF Req
  <2>4. ReqSound(l)
    BY <1>2, <2>1, <2>2 DEF ReqSound, TallyPcs, GrantedPcs
  <2>5. QED
    BY <1>4, <2>3, <2>4, OnlyReqInv, IdleReqInv DEF TallyClaim, l
<1>5. CASE TallyCandidates(r)
  <2> DEFINE l == [pc |-> "tally.scan", admin |-> req[r].admin, valid |-> candidate,
                   opened |-> {}, cursor |-> -1]
  <2>1. req[r] \in ApproveReq /\ req[r].pc = "tally.candidates"
    BY <1>2, <1>5, Shape DEF TallyCandidates
  <2>2. l \in CountReq
    BY <2>1 DEF CountReq, ApproveReq, ElectionInv, TypeOK
  <2>3. l \in Req
    BY <2>2 DEF Req
  <2>4. ReqSound(l)
    BY <1>2, <2>1 DEF ReqSound, TallyPcs, GrantedPcs
  <2>5. QED
    BY <1>5, <2>3, <2>4, OnlyReqInv DEF TallyCandidates
<1>6. QED
  BY <1>1, <1>3, <1>4, <1>5

LEMMA TallyScanInv ==
  ASSUME ElectionInv, NEW r \in Requests, TallyScan(r)
  PROVE  ElectionInv'
<1>1. req[r] \in CountReq /\ req[r].pc = "tally.scan" /\ ReqSound(req[r])
  BY Shape DEF TallyScan, ElectionInv, TypeOK, ReqsSound
<1>2. PICK batch \in SUBSET Beyond(req[r].cursor), id \in BallotIds \cup {req[r].cursor} :
        Goto(r, [req[r] EXCEPT
             !.opened = @ \cup batch,
             !.cursor = id,
             !.pc = IF LastBatch(batch) THEN "tally.publish" ELSE "tally.scan"])
  BY DEF TallyScan
<1> DEFINE pc == IF LastBatch(batch) THEN "tally.publish" ELSE "tally.scan"
           l  == [req[r] EXCEPT !.opened = @ \cup batch, !.cursor = id, !.pc = pc]
<1>3. pc \in {"tally.scan", "tally.publish"}
  OBVIOUS
<1> HIDE DEF pc
<1>4. /\ batch \subseteq ballot /\ ballot \subseteq BallotRow
      /\ req[r].opened \subseteq ballot /\ id \in Int
  BY <1>1, BallotIdsAssumption
     DEF Beyond, ElectionInv, TypeOK, ChainTypeOK, ReqSound, CountReq
<1>5. req[r].opened \cup batch \in SUBSET BallotRow
  BY <1>4
<1>6. l \in CountReq /\ l.pc = pc /\ l.opened = req[r].opened \cup batch
  BY <1>1, <1>3, <1>4, <1>5 DEF CountReq
<1> HIDE DEF l
<1>7. l \in Req
  BY <1>6 DEF Req
<1>8. ReqSound(l)
  BY <1>1, <1>3, <1>4, <1>6 DEF ReqSound, TallyPcs, GrantedPcs
<1>9. QED
  BY <1>2, <1>7, <1>8, OnlyReqInv DEF TallyScan, l, pc
---------------------------------------------------------------------------
(* The steps that change a table, each with the chain step it maps to.     *)

LEMMA TickInv ==
  ASSUME ElectionInv, Tick
  PROVE  ElectionInv'
<1>1. ChainInv'
  BY StutterInv DEF Tick, ElectionInv
<1>2. TypeOK'
  BY <1>1 DEF ElectionInv, TypeOK, Tick, Clocks, ChainInv
<1>3. ReqsSound' /\ OneBallotPerVoter' /\ OpenedUnderDualControl'
  BY DEF ElectionInv, Tick, chainVars, ReqsSound, ReqSound, OneBallotPerVoter,
         OpenedUnderDualControl, Opening, EnoughApprovals
<1>4. QED
  BY <1>1, <1>2, <1>3 DEF ElectionInv

LEMMA CastCommitInv ==
  ASSUME ElectionInv, NEW r \in Requests, CastCommit(r)
  PROVE  DataStep /\ ElectionInv'
<1>1. req[r] \in CastReq
  BY Shape DEF CastCommit, ElectionInv, TypeOK
<1> DEFINE v == req[r].voter
<1>2. PICK id \in BallotIds :
        /\ \A b \in ballot : b.id # id
        /\ ballot' = ballot \cup {[id |-> id, vote |-> req[r].vote]}
  BY DEF CastCommit
<1> DEFINE new == [id |-> id, vote |-> req[r].vote]
<1>3. new \in BallotRow /\ new \notin ballot
  BY <1>1, <1>2 DEF BallotRow, CastReq
<1>4. UniqueIds'
  BY <1>2 DEF UniqueIds, ElectionInv, ChainInv, ChainTypeOK
<1>5. DataStep
  BY <1>2, <1>3, <1>4 DEF DataStep, CastCommit, ElectionInv, ChainInv, ChainTypeOK
<1>6. ChainInv'
  BY <1>5, DataStepInv DEF ElectionInv
<1>7. /\ req' = [req EXCEPT ![r] = Idle] /\ ballot \subseteq ballot'
      /\ status' = status /\ EnoughApprovals' = EnoughApprovals
      /\ tallyResult' = tallyResult
  BY <1>2 DEF CastCommit, Goto, EnoughApprovals
<1>8. req' \in [Requests -> Req] /\ ReqsSound'
  BY <1>7, IdleType, PlainType, OtherSound, ReqStep
<1>9. TypeOK'
  BY <1>1, <1>6, <1>8 DEF ElectionInv, TypeOK, CastCommit, CastReq, ChainInv
<1>10. v \in roster \ hasVoted /\ hasVoted' = hasVoted \cup {v} /\ roster' = roster
  BY DEF CastCommit, MayVote
<1>11. OneBallotPerVoter'
  BY <1>2, <1>3, <1>10, OneMoreVote DEF ElectionInv, OneBallotPerVoter, TypeOK
<1>12. OpenedUnderDualControl'
  BY <1>7, <1>8, OpenedStep DEF ElectionInv, OpenedUnderDualControl
<1>13. QED
  BY <1>5, <1>6, <1>8, <1>9, <1>11, <1>12 DEF ElectionInv

LEMMA ImportChunkInv ==
  ASSUME ElectionInv, NEW r \in Requests, ImportChunk(r)
  PROVE  DataStep /\ ElectionInv'
<1>1. req[r] \in ImportReq /\ req[r].pc = "import.rows"
  BY Shape DEF ImportChunk, ElectionInv, TypeOK
<1>2. PICK rows \in (SUBSET req[r].rows) \ {{}} :
        /\ roster' = roster \cup rows
        /\ Goto(r, IF rows = req[r].rows THEN Idle ELSE [req[r] EXCEPT !.rows = @ \ rows])
  BY DEF ImportChunk
<1>3. DataStep
  BY <1>1, <1>2 DEF DataStep, ImportChunk, ImportReq, ElectionInv, ChainInv, ChainTypeOK,
                    UniqueIds
<1>4. ChainInv'
  BY <1>3, DataStepInv DEF ElectionInv
<1> DEFINE l == IF rows = req[r].rows THEN Idle ELSE [req[r] EXCEPT !.rows = @ \ rows]
<1>5. l \in Req /\ l.pc \notin TallyPcs \cup GrantedPcs
  <2>1. CASE rows = req[r].rows
    BY <2>1, IdleType, PlainType
  <2>2. CASE rows # req[r].rows
    <3>1. l \in ImportReq /\ l.pc = "import.rows"
      BY <1>1, <2>2 DEF ImportReq
    <3>2. QED
      BY <3>1 DEF Req, TallyPcs, GrantedPcs
  <2>3. QED
    BY <2>1, <2>2
<1> HIDE DEF l
<1>6. /\ req' = [req EXCEPT ![r] = l] /\ ballot' = ballot
      /\ status' = status /\ EnoughApprovals' = EnoughApprovals
      /\ tallyResult' = tallyResult
  BY <1>2 DEF ImportChunk, Goto, EnoughApprovals, l
<1>7. req' \in [Requests -> Req] /\ ReqsSound'
  BY <1>5, <1>6, OtherSound, ReqStep
<1>8. TypeOK'
  BY <1>4, <1>7 DEF ElectionInv, TypeOK, ImportChunk, ChainInv
<1>9. OneBallotPerVoter'
  BY <1>2 DEF ElectionInv, OneBallotPerVoter, ImportChunk
<1>10. OpenedUnderDualControl'
  BY <1>6, <1>7, OpenedStep DEF ElectionInv, OpenedUnderDualControl
<1>11. QED
  BY <1>3, <1>4, <1>7, <1>8, <1>9, <1>10 DEF ElectionInv

LEMMA CandidatesReplaceInv ==
  ASSUME ElectionInv, NEW r \in Requests, CandidatesReplace(r)
  PROVE  DataStep /\ ElectionInv'
<1>1. req[r] \in ListReq
  BY Shape DEF CandidatesReplace, ElectionInv, TypeOK
<1>2. candidate' \subseteq CandidateIds
  BY <1>1 DEF CandidatesReplace, CandidateIds, ListReq
<1>3. \A row \in TallyRow : [row EXCEPT !.candidateId = Abstain] \in TallyRow
  BY VotesAssumption DEF TallyRow
<1>4. tallyResult' \subseteq TallyRow
  BY <1>3 DEF CandidatesReplace, ElectionInv, ChainInv, ChainTypeOK
<1>5. DataStep
  BY <1>4 DEF DataStep, CandidatesReplace, ElectionInv, ChainInv, ChainTypeOK, UniqueIds
<1>6. ChainInv'
  BY <1>5, DataStepInv DEF ElectionInv
<1>7. /\ req' = [req EXCEPT ![r] = Idle] /\ ballot' = ballot
      /\ status' = status /\ EnoughApprovals' = EnoughApprovals
      /\ tallyResult' # {} => tallyResult # {}
  BY DEF CandidatesReplace, Goto, EnoughApprovals
<1>8. req' \in [Requests -> Req] /\ ReqsSound'
  BY <1>7, IdleType, PlainType, OtherSound, ReqStep
<1>9. TypeOK'
  BY <1>2, <1>6, <1>8 DEF ElectionInv, TypeOK, CandidatesReplace, ChainInv
<1>10. OneBallotPerVoter'
  BY DEF ElectionInv, OneBallotPerVoter, CandidatesReplace
<1>11. OpenedUnderDualControl'
  BY <1>7, <1>8, OpenedStep DEF ElectionInv, OpenedUnderDualControl
<1>12. QED
  BY <1>5, <1>6, <1>8, <1>9, <1>10, <1>11 DEF ElectionInv

(* The steps of createCheckpoint, seen from its caller: they change the    *)
(* chain, the locals of the call and the place of the caller.              *)
LEMMA CallInv ==
  ASSUME ElectionInv, NEW r \in Requests, ChainInv', UNCHANGED dataVars,
         UNCHANGED <<status, clock, candidate, hasVoted, approval, anchored, closedBox>>,
         NEW l \in Req, l.pc \notin TallyPcs \cup GrantedPcs, Goto(r, l)
  PROVE  ElectionInv'
<1>1. /\ req' = [req EXCEPT ![r] = l] /\ ballot' = ballot
      /\ status' = status /\ EnoughApprovals' = EnoughApprovals
      /\ tallyResult' = tallyResult
  BY DEF Goto, EnoughApprovals, dataVars
<1>2. req' \in [Requests -> Req] /\ ReqsSound'
  BY <1>1, OtherSound, ReqStep
<1>3. TypeOK'
  BY <1>2 DEF ElectionInv, TypeOK, ChainInv
<1>4. OneBallotPerVoter'
  BY DEF ElectionInv, OneBallotPerVoter, dataVars
<1>5. OpenedUnderDualControl'
  BY <1>1, <1>2, OpenedStep DEF ElectionInv, OpenedUnderDualControl
<1>6. QED
  BY <1>2, <1>3, <1>4, <1>5 DEF ElectionInv

LEMMA BeginCheckpointInv ==
  ASSUME ElectionInv, NEW r \in Requests, BeginCheckpoint(r)
  PROVE  ChainNext /\ ElectionInv'
<1>1. req[r] \in BeginReq
  BY Shape DEF BeginCheckpoint, ElectionInv, TypeOK
<1>2. req[r].kind \in Kinds /\ req[r].then \in Continuations /\ Begin(r, req[r].kind)
  BY <1>1 DEF BeginReq, BeginCheckpoint
<1>3. ChainNext
  BY <1>2 DEF ChainNext
<1>4. ChainInv'
  BY <1>3, StepInv DEF ElectionInv
<1>5. QED
  BY <1>2, <1>3, <1>4, CallType, CallInv DEF BeginCheckpoint, Begin

LEMMA EndCheckpointInv ==
  ASSUME ElectionInv, NEW r \in Requests, EndCheckpoint(r)
  PROVE  ChainNext /\ ElectionInv'
<1>1. req[r] \in CallReq
  BY Shape DEF EndCheckpoint, ElectionInv, TypeOK
<1>2. ChainNext
  BY DEF EndCheckpoint, ChainNext
<1>3. ChainInv'
  BY <1>2, StepInv DEF ElectionInv
<1>4. AfterCall(r) \in Req /\ AfterCall(r).pc \notin TallyPcs \cup GrantedPcs
  BY <1>1, IdleType, PlainType DEF AfterCall, CallReq, Continuations
<1>5. QED
  BY <1>2, <1>3, <1>4, CallInv DEF EndCheckpoint, EndCall

LEMMA CrashInv ==
  ASSUME ElectionInv, NEW r \in Requests, Crash(r)
  PROVE  ChainNext /\ ElectionInv'
<1>1. ChainNext
  BY DEF Crash, ChainNext
<1>2. ChainInv'
  BY <1>1, StepInv DEF ElectionInv
<1>3. QED
  BY <1>1, <1>2, IdleType, PlainType, CallInv DEF Crash, EndCall

LEMMA RunCheckpointInv ==
  ASSUME ElectionInv, NEW r \in Requests, RunCheckpoint(r)
  PROVE  ChainNext /\ ElectionInv'
<1>1. ChainNext
  BY DEF RunCheckpoint, ChainNext
<1>2. ChainInv'
  BY <1>1, StepInv DEF ElectionInv
<1>3. UNCHANGED dataVars /\ UNCHANGED ownVars
  BY DEF RunCheckpoint, CallStep, ReadPrev, ScanBatch, ReadRoster, ReadRows, ReadInvalid,
         Insert, InsertConflict
<1>4. TypeOK'
  BY <1>2, <1>3 DEF ElectionInv, TypeOK, ownVars, ChainInv
<1>5. ReqsSound' /\ OneBallotPerVoter' /\ OpenedUnderDualControl'
  BY <1>3 DEF ElectionInv, ownVars, dataVars, ReqsSound, ReqSound, OneBallotPerVoter,
              OpenedUnderDualControl, Opening, EnoughApprovals
<1>6. QED
  BY <1>1, <1>2, <1>4, <1>5 DEF ElectionInv

LEMMA AutoAnchorInv ==
  ASSUME ElectionInv, NEW r \in Requests, AutoAnchor(r)
  PROVE  ElectionInv'
<1>1. ChainInv'
  BY StutterInv DEF AutoAnchor, ElectionInv
<1>2. /\ req' = [req EXCEPT ![r] = Idle] /\ ballot' = ballot
      /\ status' = status /\ EnoughApprovals' = EnoughApprovals
      /\ tallyResult' = tallyResult
  BY DEF AutoAnchor, Goto, EnoughApprovals, chainVars
<1>3. req' \in [Requests -> Req] /\ ReqsSound'
  BY <1>2, IdleType, PlainType, OtherSound, ReqStep
<1>4. anchored' \subseteq Nat
  BY DEF AutoAnchor, ElectionInv, TypeOK, ChainTypeOK
<1>5. TypeOK'
  BY <1>1, <1>3, <1>4 DEF ElectionInv, TypeOK, AutoAnchor, ChainInv
<1>6. OneBallotPerVoter'
  BY DEF ElectionInv, OneBallotPerVoter, AutoAnchor, chainVars
<1>7. OpenedUnderDualControl'
  BY <1>2, <1>3, OpenedStep DEF ElectionInv, OpenedUnderDualControl
<1>8. QED
  BY <1>1, <1>3, <1>5, <1>6, <1>7 DEF ElectionInv
---------------------------------------------------------------------------
(* The steps that change the status or the approvals.                      *)

LEMMA OpenUpdateInv ==
  ASSUME ElectionInv, NEW r \in Requests, OpenUpdate(r)
  PROVE  ElectionInv'
<1> DEFINE l == IF status = "DRAFT" THEN Checkpointing("BALLOTS", "anchor") ELSE Idle
<1>1. l \in Req /\ l.pc \notin TallyPcs \cup GrantedPcs
  BY BeginType, IdleType, PlainType DEF Kinds, Continuations
<1> HIDE DEF l
<1>2. /\ req' = [req EXCEPT ![r] = l] /\ UNCHANGED chainVars
      /\ UNCHANGED <<clock, candidate, hasVoted, approval, anchored, closedBox>>
      /\ EnoughApprovals' = EnoughApprovals
      /\ status' = IF status = "DRAFT" THEN "OPEN" ELSE status
  BY DEF OpenUpdate, Goto, EnoughApprovals, l
<1>3. /\ status \in {"CLOSED", "TALLIED"} => status' \in {"CLOSED", "TALLIED"}
      /\ status' = "TALLIED" => status = "TALLIED"
      /\ tallyResult # {} => status \in {"CLOSED", "TALLIED"} /\ EnoughApprovals
      /\ status = "TALLIED" => EnoughApprovals
  BY <1>2 DEF ElectionInv, OpenedUnderDualControl
<1>4. req' \in [Requests -> Req] /\ ReqsSound'
  BY <1>1, <1>2, <1>3, OtherSound, ReqStep DEF chainVars
<1>5. ChainInv'
  BY <1>2, StutterInv DEF ElectionInv
<1>6. TypeOK'
  BY <1>2, <1>4, <1>5 DEF ElectionInv, TypeOK, Statuses, ChainInv
<1>7. OneBallotPerVoter'
  BY <1>2 DEF ElectionInv, OneBallotPerVoter, chainVars
<1>8. OpenedUnderDualControl'
  BY <1>2, <1>3, <1>4, OpenedStep DEF chainVars
<1>9. QED
  BY <1>4, <1>5, <1>6, <1>7, <1>8 DEF ElectionInv

LEMMA CloseUpdateInv ==
  ASSUME ElectionInv, NEW r \in Requests, CloseUpdate(r)
  PROVE  ElectionInv'
<1> DEFINE l == Checkpointing("FINAL", "anchor")
<1>1. l \in Req /\ l.pc \notin TallyPcs \cup GrantedPcs
  BY BeginType DEF Kinds, Continuations
<1>2. /\ req' = [req EXCEPT ![r] = l] /\ UNCHANGED chainVars
      /\ UNCHANGED <<clock, candidate, hasVoted, approval, anchored>>
      /\ EnoughApprovals' = EnoughApprovals
      /\ status = "OPEN" /\ status' = "CLOSED" /\ closedBox' = ballot
  BY DEF CloseUpdate, Goto, EnoughApprovals
<1> HIDE DEF l
<1>3. req' \in [Requests -> Req] /\ ReqsSound'
  BY <1>1, <1>2, OtherSound, ReqStep DEF chainVars
<1>4. ChainInv'
  BY <1>2, StutterInv DEF ElectionInv
<1>5. TypeOK'
  BY <1>2, <1>3, <1>4 DEF ElectionInv, TypeOK, Statuses, ChainInv, ChainTypeOK
<1>6. OneBallotPerVoter'
  BY <1>2 DEF ElectionInv, OneBallotPerVoter, chainVars
<1>7. tallyResult' = {}
  BY <1>2 DEF ElectionInv, OpenedUnderDualControl, chainVars
<1>8. OpenedUnderDualControl'
  BY <1>2, <1>3, <1>7, OpenedStep
<1>9. QED
  BY <1>3, <1>4, <1>5, <1>6, <1>8 DEF ElectionInv

LEMMA TallyApproveInv ==
  ASSUME ElectionInv, NEW r \in Requests, TallyApprove(r)
  PROVE  ElectionInv'
<1>1. req[r] \in CheckReq /\ req[r].pc = "tally.check" /\ ReqSound(req[r])
  BY Shape DEF TallyApprove, IntegrityKnown, ElectionInv, TypeOK, ReqsSound
<1> DEFINE l == [pc |-> "tally.quorum", admin |-> req[r].admin]
<1>2. l \in ApproveReq /\ l.pc = "tally.quorum"
  BY <1>1 DEF ApproveReq, CheckReq
<1>3. /\ req' = [req EXCEPT ![r] = l] /\ UNCHANGED chainVars
      /\ UNCHANGED <<status, clock, candidate, hasVoted, anchored, closedBox>>
      /\ approval' = approval \cup {req[r].admin}
  BY DEF TallyApprove, Goto
<1> HIDE DEF l
<1>4. approval \subseteq approval' /\ approval' \subseteq Admins
  BY <1>1, <1>3 DEF CheckReq, ElectionInv, TypeOK
<1>5. EnoughApprovals => EnoughApprovals'
  BY <1>4, QuorumStays
<1>6. l \in Req
  BY <1>2 DEF Req
<1>7. \A k \in Req : k.pc = "tally.quorum" => ReqSound(k)'
  BY <1>1, <1>3 DEF ReqSound, TallyPcs, GrantedPcs
<1>8. req' \in [Requests -> Req] /\ ReqsSound'
  BY <1>2, <1>3, <1>5, <1>6, <1>7, ReqStep DEF chainVars
<1>9. ChainInv'
  BY <1>3, StutterInv DEF ElectionInv
<1>10. TypeOK'
  BY <1>3, <1>4, <1>8, <1>9 DEF ElectionInv, TypeOK, ChainInv
<1>11. OneBallotPerVoter'
  BY <1>3 DEF ElectionInv, OneBallotPerVoter, chainVars
<1>12. OpenedUnderDualControl'
  BY <1>3, <1>5, <1>8, OpenedStep DEF ElectionInv, OpenedUnderDualControl, chainVars
<1>13. QED
  BY <1>8, <1>9, <1>10, <1>11, <1>12 DEF ElectionInv

LEMMA TallyPublishInv ==
  ASSUME ElectionInv, NEW r \in Requests, TallyPublish(r)
  PROVE  DataStep /\ ElectionInv'
<1>1. req[r] \in CountReq /\ req[r].pc = "tally.publish" /\ ReqSound(req[r])
  BY Shape DEF TallyPublish, ElectionInv, TypeOK, ReqsSound
<1>2. req[r].opened \subseteq ballot /\ EnoughApprovals
  BY <1>1 DEF ReqSound, GrantedPcs
<1>3. Cardinality(Damaged(r)) \in Nat
  BY <1>2, FiniteBox DEF Damaged, ElectionInv, TypeOK, ChainTypeOK
<1>4. NewRows(r) \subseteq TallyRow
  <2> SUFFICES ASSUME NEW b \in Counted(r)
               PROVE  [id |-> <<req[r].admin, b.vote>>, candidateId |-> b.vote,
                       votes |-> Cardinality(VotesFor(Counted(r), b.vote))] \in TallyRow
    BY DEF NewRows
  <2>1. b.vote \in Votes
    BY <1>1, VotesAssumption DEF Counted, CountReq
  <2>2. <<req[r].admin, b.vote>> \in RowIds
    BY <1>1, <2>1, RowIdsAssumption DEF CountReq
  <2>3. Cardinality(VotesFor(Counted(r), b.vote)) \in Nat
    BY <1>2, FiniteBox DEF VotesFor, Counted, ElectionInv, TypeOK, ChainTypeOK
  <2>4. QED
    BY <2>1, <2>2, <2>3 DEF TallyRow
<1>5. DataStep
  BY <1>3, <1>4 DEF DataStep, TallyPublish, ElectionInv, ChainInv, ChainTypeOK, UniqueIds
<1>6. ChainInv'
  BY <1>5, DataStepInv DEF ElectionInv
<1> DEFINE l == Checkpointing("RESULTS", "anchor")
<1>7. l \in Req /\ l.pc \notin TallyPcs \cup GrantedPcs
  BY BeginType DEF Kinds, Continuations
<1>8. /\ req' = [req EXCEPT ![r] = l] /\ ballot' = ballot /\ roster' = roster
      /\ UNCHANGED <<clock, candidate, hasVoted, approval, anchored, closedBox>>
      /\ EnoughApprovals' = EnoughApprovals /\ status' = "TALLIED"
  BY DEF TallyPublish, Goto, EnoughApprovals
<1> HIDE DEF l
<1>9. req' \in [Requests -> Req] /\ ReqsSound'
  BY <1>7, <1>8, OtherSound, ReqStep
<1>10. TypeOK'
  BY <1>6, <1>8, <1>9 DEF ElectionInv, TypeOK, Statuses, ChainInv
<1>11. OneBallotPerVoter'
  BY <1>8 DEF ElectionInv, OneBallotPerVoter
<1>12. OpenedUnderDualControl'
  BY <1>2, <1>8, <1>9, OpenedStep
<1>13. QED
  BY <1>5, <1>6, <1>9, <1>10, <1>11, <1>12 DEF ElectionInv
---------------------------------------------------------------------------
LEMMA ElectionInitInv ==
  ASSUME Init
  PROVE  ElectionInv
<1>1. ChainInv
  BY InitInv DEF Init
<1>2. Cardinality({}) = 0
  BY FS_EmptySet
<1>3. req \in [Requests -> Req] /\ \A r \in Requests : req[r] = At("idle")
  BY IdleType DEF Init
<1>4. candidate \subseteq CandidateIds
  <2>1. PICK N \in SUBSET Names : candidate = {1} \X N
    BY DEF Init
  <2>2. QED
    BY <2>1, BoundsAssumption DEF CandidateIds
<1>5. TypeOK
  BY <1>1, <1>3, <1>4 DEF Init, TypeOK, Statuses, Clocks, ChainInv
<1>6. ReqsSound
  BY <1>3, PlainType DEF ReqsSound, ReqSound, TallyPcs, GrantedPcs
<1>7. OneBallotPerVoter
  BY <1>2 DEF Init, ChainInit, OneBallotPerVoter
<1>8. OpenedUnderDualControl
  BY <1>3, PlainType DEF Init, ChainInit, OpenedUnderDualControl, Opening, GrantedPcs
<1>9. QED
  BY <1>1, <1>5, <1>6, <1>7, <1>8 DEF ElectionInv

LEMMA ElectionStep ==
  ASSUME ElectionInv, [Next]_vars
  PROVE  ElectionInv' /\ [ChainNext]_chainVars
<1>1. ASSUME NEW r \in Requests, Arrival(r)
      PROVE  ElectionInv' /\ UNCHANGED chainVars
  <2>1. ElectionInv'
    BY <1>1, CastReqInv, SetupReqInv, LifecycleReqInv, CloseUpdateInv, TallyCheckInv
       DEF Arrival
  <2>2. UNCHANGED chainVars
    BY <1>1 DEF Arrival, CastCheck, ImportCheck, CandidatesCheck, SealCheck, OpenCounts,
                CloseUpdate, CheckpointRoute, TallyCheck, OnlyReq
  <2>3. QED
    BY <2>1, <2>2
<1>2. ASSUME NEW r \in Requests, VoterStep(r)
      PROVE  ElectionInv' /\ [ChainNext]_chainVars
  <2>1. CASE CastCommit(r)
    BY <2>1, CastCommitInv DEF ChainNext
  <2>2. CASE CastConflict(r)
    BY <2>2, CastReqInv DEF CastConflict, OnlyReq
  <2>3. QED
    BY <1>2, <2>1, <2>2 DEF VoterStep
<1>3. ASSUME NEW r \in Requests, SetupStep(r)
      PROVE  ElectionInv' /\ [ChainNext]_chainVars
  <2>1. CASE ImportSealCheck(r)
    BY <2>1, SetupReqInv DEF ImportSealCheck, OnlyReq
  <2>2. CASE ImportChunk(r)
    BY <2>2, ImportChunkInv DEF ChainNext
  <2>3. CASE CandidatesReplace(r)
    BY <2>3, CandidatesReplaceInv DEF ChainNext
  <2>4. QED
    BY <1>3, <2>1, <2>2, <2>3 DEF SetupStep
<1>4. ASSUME NEW r \in Requests, CheckpointStep(r)
      PROVE  ElectionInv' /\ [ChainNext]_chainVars
  <2>1. CASE AutoAnchor(r)
    BY <2>1, AutoAnchorInv DEF AutoAnchor
  <2>2. QED
    BY <1>4, <2>1, BeginCheckpointInv, RunCheckpointInv, EndCheckpointInv
       DEF CheckpointStep
<1>5. ASSUME NEW r \in Requests, LifecycleStep(r)
      PROVE  ElectionInv' /\ UNCHANGED chainVars
  <2>1. ElectionInv'
    BY <1>5, LifecycleReqInv, OpenUpdateInv DEF LifecycleStep
  <2>2. UNCHANGED chainVars
    BY <1>5 DEF LifecycleStep, SealAlready, SealCount, OpenReadSeal, OpenMatch, OpenUpdate,
                OnlyReq
  <2>3. QED
    BY <2>1, <2>2
<1>6. ASSUME NEW r \in Requests, TallyStep(r)
      PROVE  ElectionInv' /\ [ChainNext]_chainVars
  <2>1. CASE TallyPublish(r)
    BY <2>1, TallyPublishInv DEF ChainNext
  <2>2. CASE TallyApprove(r)
    BY <2>2, TallyApproveInv DEF TallyApprove
  <2>3. CASE IntegrityRead(r)
    BY <2>3, IntegrityReadInv DEF IntegrityRead, OnlyReq
  <2>4. CASE TallyScan(r)
    BY <2>4, TallyScanInv DEF TallyScan, OnlyReq
  <2>5. CASE TallyRefuse(r) \/ TallyPublishFails(r) \/ TallyQuorum(r) \/ TallyClaim(r)
               \/ TallyCandidates(r)
    BY <2>5, TallyReqInv
       DEF TallyRefuse, TallyPublishFails, TallyQuorum, TallyClaim, TallyCandidates, OnlyReq
  <2>6. QED
    BY <1>6, <2>1, <2>2, <2>3, <2>4, <2>5 DEF TallyStep
<1>7. ASSUME NEW r \in Requests, Crash(r)
      PROVE  ElectionInv' /\ [ChainNext]_chainVars
  BY <1>7, CrashInv
<1>8. CASE Tick
  BY <1>8, TickInv DEF Tick
<1>9. CASE UNCHANGED vars
  <2>1. UNCHANGED chainVars /\ UNCHANGED ownVars
    BY <1>9 DEF vars
  <2>2. ChainInv'
    BY <2>1, StutterInv DEF ElectionInv
  <2>3. TypeOK'
    BY <2>1, <2>2 DEF ElectionInv, TypeOK, ownVars, ChainInv
  <2>4. ReqsSound' /\ OneBallotPerVoter' /\ OpenedUnderDualControl'
    BY <2>1 DEF ElectionInv, ownVars, chainVars, ReqsSound, ReqSound, OneBallotPerVoter,
                OpenedUnderDualControl, Opening, EnoughApprovals
  <2>5. QED
    BY <2>1, <2>2, <2>3, <2>4 DEF ElectionInv
<1>10. QED
  BY <1>1, <1>2, <1>3, <1>4, <1>5, <1>6, <1>7, <1>8, <1>9 DEF Next, Progress

LEMMA ElectionAlwaysInv == Spec => []ElectionInv
<1>1. Init => ElectionInv
  BY ElectionInitInv
<1>2. ElectionInv /\ [Next]_vars => ElectionInv'
  BY ElectionStep
<1>3. QED
  BY <1>1, <1>2, PTL DEF Spec
---------------------------------------------------------------------------
(* Every table and the locals of every handler keep their types.           *)
THEOREM ElectionTypeCorrect == Spec => []TypeOK
<1>1. ElectionInv => TypeOK
  BY DEF ElectionInv
<1>2. QED
  BY <1>1, ElectionAlwaysInv, PTL

(* The election implements the checkpoint chain: whatever its handlers do, *)
(* they only extend the roster and the box under a running checkpoint, so  *)
(* that the chain stays linear and monotone.                               *)
THEOREM ElectionImplementsChain == Spec => ChainSpec
<1>1. Init => ChainInit
  BY DEF Init
<1>2. ElectionInv /\ [Next]_vars => [ChainNext]_chainVars
  BY ElectionStep
<1>3. QED
  BY <1>1, <1>2, ElectionAlwaysInv, PTL DEF Spec, ChainSpec

(* So an audit of any election that only the application wrote finds its   *)
(* chain linear, and its ballot sets growing.                              *)
COROLLARY ElectionChainSound == Spec => []ChainLinear /\ []ChainMonotone
<1>1. QED
  BY ElectionImplementsChain, ChainStaysLinear, ChainStaysMonotone, PTL

(* One person, one vote, for every interleaving of castBallot requests     *)
(* with each other, with every other handler, and with crashes.            *)
THEOREM OnePersonOneVote == Spec => []OneBallotPerVoter
<1>1. ElectionInv => OneBallotPerVoter
  BY DEF ElectionInv
<1>2. QED
  BY <1>1, ElectionAlwaysInv, PTL

(* Ballots are opened and results exist only after closing and only with   *)
(* the approvals of Quorum different commissioners.                        *)
THEOREM DualControl == Spec => []OpenedUnderDualControl
<1>1. ElectionInv => OpenedUnderDualControl
  BY DEF ElectionInv
<1>2. QED
  BY <1>1, ElectionAlwaysInv, PTL
---------------------------------------------------------------------------
(* What an election comes to: it is opened with a sealed roster, its last  *)
(* checkpoints certify the closing, its results hold the votes of the      *)
(* closing, and seen from its tables it is a BallotBox.                    *)

(* What every step leaves true for the handlers that did not take it.      *)
Evolves ==
  /\ roster # {} => roster' # {}
  /\ RosterSealed => RosterSealed'
  /\ status # "DRAFT" => status' # "DRAFT"
  /\ Past => Past' /\ closedBox' = closedBox
  /\ Choices \subseteq Choices'
  /\ approval \subseteq approval'
  /\ candidate' = candidate \/ Unchosen'

(* What all conjuncts of OutcomeInv about tables only speak of.            *)
tables == <<ballot, tallyResult, invalidVotes, checkpoint, status, candidate, closedBox>>

OutcomeTables == TablesSound /\ SealedBeforeOpen /\ FinalCoversVoting
                   /\ TimelyVotesCounted /\ ResultsFromOneCount

(* A step of r keeps the knowledge of all other handlers.                  *)
LEMMA HandlersStep ==
  ASSUME ElectionInv, HandlersSound, Evolves, NEW r \in Requests,
         \A q \in Requests \ {r} : req'[q] = req[q] /\ call'[q] = call[q],
         HandlerSound(req[r], call[r])'
  PROVE  HandlersSound'
<1> SUFFICES ASSUME NEW q \in Requests \ {r} PROVE HandlerSound(req[q], call[q])'
  BY DEF HandlersSound
<1>1. /\ req'[q] = req[q] /\ call'[q] = call[q]
      /\ HandlerSound(req[q], call[q]) /\ ReqSound(req[q])
  BY DEF HandlersSound, ElectionInv, ReqsSound
<1>2. OpenSound(req[q], call[q])'
  BY <1>1 DEF HandlerSound, OpenSound, Resuming, Evolves
<1>3. CertifySound(req[q], call[q])'
  BY <1>1 DEF HandlerSound, CertifySound, CollectedClosing, AfterPrev, Evolves
<1>4. CastSound(req[q])' /\ (req'[q].pc = "candidates" => req'[q].names # {})
  BY <1>1 DEF HandlerSound, CastSound, Evolves
<1>5. CountSound(req[q])'
  <2>1. CountSound(req[q]) /\ (req[q].pc \in TallyPcs => Past)
    BY <1>1 DEF HandlerSound, ReqSound, Past
  <2>2. CASE req[q].pc \in TallyPcs
    BY <1>1, <2>1, <2>2 DEF CountSound, Unchosen, Evolves
  <2>3. CASE req[q].pc \notin TallyPcs
    BY <1>1, <2>3 DEF CountSound, TallyPcs, GrantedPcs
  <2>4. QED
    BY <2>2, <2>3
<1>6. QED
  BY <1>2, <1>3, <1>4, <1>5 DEF HandlerSound

(* A handler at a place where it relies on nothing.                        *)
LEMMA QuietSound ==
  ASSUME NEW r \in Requests,
         req'[r].pc \in {"idle", "anchor", "seal.sealed", "seal.count", "import.seal",
                         "import.rows", "tally.check"}
  PROVE  HandlerSound(req[r], call[r])'
BY DEF HandlerSound, OpenSound, Resuming, CertifySound, CastSound, CountSound, GrantedPcs

LEMMA TablesStay ==
  ASSUME OutcomeInv, UNCHANGED tables
  PROVE  /\ OutcomeTables'
         /\ RosterSealed' = RosterSealed /\ Past' = Past /\ Choices' = Choices
         /\ Unchosen' = Unchosen
<1> USE DEF tables
<1>1. RosterSealed' = RosterSealed /\ Past' = Past /\ Choices' = Choices /\ Unchosen' = Unchosen
  BY DEF RosterSealed, Sealed, Past, Choices, Unchosen
<1>2. TablesSound'
  BY <1>1 DEF OutcomeInv, TablesSound
<1>3. SealedBeforeOpen' /\ FinalCoversVoting'
  BY <1>1 DEF OutcomeInv, SealedBeforeOpen, FinalCoversVoting
<1>4. TimelyVotesCounted' /\ ResultsFromOneCount'
  BY DEF OutcomeInv, TimelyVotesCounted, ResultsFromOneCount, VotesFor
<1>5. QED
  BY <1>1, <1>2, <1>3, <1>4 DEF OutcomeTables

(* A step of r that changes none of these tables and keeps call.           *)
LEMMA LocalsOutcome ==
  ASSUME ElectionInv, OutcomeInv, NEW r \in Requests, NEW l,
         req' = [req EXCEPT ![r] = l],
         \A q \in Requests \ {r} : call'[q] = call[q],
         UNCHANGED tables, roster \subseteq roster', approval \subseteq approval',
         req'[r] = l => HandlerSound(req[r], call[r])'
  PROVE  OutcomeInv'
<1>1. Evolves
  BY TablesStay DEF Evolves, tables
<1>2. req \in [Requests -> Req]
  BY DEF ElectionInv, TypeOK
<1>3. HandlersSound'
  BY <1>1, <1>2, HandlersStep DEF OutcomeInv
<1>4. QED
  BY <1>3, TablesStay DEF OutcomeInv, OutcomeTables

(* ... to a place where it relies on nothing.                              *)
LEMMA QuietOutcome ==
  ASSUME ElectionInv, OutcomeInv, NEW r \in Requests, NEW l,
         req' = [req EXCEPT ![r] = l],
         \A q \in Requests \ {r} : call'[q] = call[q],
         UNCHANGED tables, roster \subseteq roster', approval \subseteq approval',
         l.pc \in {"idle", "anchor", "seal.sealed", "seal.count", "import.seal",
                   "import.rows", "tally.check"}
  PROVE  OutcomeInv'
BY QuietSound, LocalsOutcome
---------------------------------------------------------------------------
(* The steps that only move a handler on.                                  *)

LEMMA OnlyReqFrame ==
  ASSUME OnlyReq
  PROVE  UNCHANGED tables /\ roster' = roster /\ approval' = approval /\ call' = call
BY DEF OnlyReq, chainVars, tables

LEMMA QuietSteps ==
  ASSUME ElectionInv, OutcomeInv, NEW r \in Requests,
         \/ \E rows \in SUBSET Voters : ImportCheck(r, rows)
         \/ ImportSealCheck(r) \/ SealCheck(r) \/ SealAlready(r) \/ CastConflict(r)
         \/ \E a \in Admins : TallyCheck(r, a)
         \/ TallyRefuse(r) \/ TallyPublishFails(r)
  PROVE  OutcomeInv'
<1>1. ASSUME NEW l, Goto(r, l), OnlyReq,
             l.pc \in {"idle", "seal.sealed", "seal.count", "import.seal", "import.rows",
                       "tally.check"}
      PROVE  OutcomeInv'
  BY <1>1, OnlyReqFrame, QuietOutcome DEF Goto
<1>2. CASE \E rows \in SUBSET Voters : ImportCheck(r, rows)
  BY <1>1, <1>2 DEF ImportCheck
<1>3. CASE ImportSealCheck(r)
  <2>1. req[r] \in ImportReq
    BY <1>3, Shape DEF ImportSealCheck, ElectionInv, TypeOK
  <2>2. [req[r] EXCEPT !.pc = "import.rows"].pc = "import.rows"
    BY <2>1 DEF ImportReq
  <2>3. QED
    BY <1>1, <1>3, <2>2 DEF ImportSealCheck, Idle
<1>4. CASE SealCheck(r) \/ SealAlready(r)
  BY <1>1, <1>4 DEF SealCheck, SealAlready, At, Idle
<1>5. CASE CastConflict(r) \/ TallyRefuse(r) \/ TallyPublishFails(r)
  BY <1>1, <1>5 DEF CastConflict, TallyRefuse, TallyPublishFails, Idle
<1>6. CASE \E a \in Admins : TallyCheck(r, a)
  BY <1>1, <1>6 DEF TallyCheck
<1>7. QED
  BY <1>2, <1>3, <1>4, <1>5, <1>6

LEMMA IntegrityReadOutcome ==
  ASSUME ElectionInv, OutcomeInv, NEW r \in Requests, IntegrityRead(r)
  PROVE  OutcomeInv'
<1>1. req \in [Requests -> Req] /\ req[r] \in CheckReq /\ req[r].pc = "tally.check"
  BY Shape DEF IntegrityRead, ElectionInv, TypeOK
<1>2. \E l : req' = [req EXCEPT ![r] = l] /\ l.pc = "tally.check"
  <2>1. /\ [req[r] EXCEPT !.voted = <<Cardinality(hasVoted)>>].pc = "tally.check"
        /\ [req[r] EXCEPT !.ballots = <<Cardinality(ballot)>>].pc = "tally.check"
        /\ [req[r] EXCEPT !.chainOk = <<verifyChain>>].pc = "tally.check"
    BY <1>1 DEF CheckReq
  <2>2. \/ req' = [req EXCEPT ![r] = [req[r] EXCEPT !.voted = <<Cardinality(hasVoted)>>]]
        \/ req' = [req EXCEPT ![r] = [req[r] EXCEPT !.ballots = <<Cardinality(ballot)>>]]
        \/ req' = [req EXCEPT ![r] = [req[r] EXCEPT !.chainOk = <<verifyChain>>]]
    BY <1>1 DEF IntegrityRead
  <2>3. QED
    BY <2>1, <2>2
<1>3. QED
  BY <1>2, OnlyReqFrame, QuietOutcome DEF IntegrityRead

(* A vote is admitted while the election is open, a list only if it is not *)
(* empty, and openElection counts the roster first.                        *)
LEMMA AdmissionOutcome ==
  ASSUME ElectionInv, OutcomeInv, NEW r \in Requests,
         \/ \E v \in Voters, choice \in Choices : CastCheck(r, v, choice)
         \/ \E names \in (SUBSET Names) \ {{}} : CandidatesCheck(r, names)
         \/ OpenCounts(r)
  PROVE  OutcomeInv'
<1> USE DEF Goto
<1>1. ASSUME NEW v \in Voters, NEW choice \in Choices, CastCheck(r, v, choice)
      PROVE  OutcomeInv'
  <2>1. status' = status /\ Choices' = Choices
    BY <1>1, OnlyReqFrame, TablesStay DEF CastCheck, tables
  <2>2. ASSUME req'[r] = [pc |-> "cast", voter |-> v, vote |-> choice]
        PROVE  HandlerSound(req[r], call[r])'
    BY <1>1, <2>1, <2>2 DEF CastCheck, HandlerSound, OpenSound, Resuming, CertifySound,
                            CastSound, CountSound, GrantedPcs
  <2>3. QED
    BY <1>1, <2>2, OnlyReqFrame, LocalsOutcome DEF CastCheck
<1>2. ASSUME NEW names \in (SUBSET Names) \ {{}}, CandidatesCheck(r, names)
      PROVE  OutcomeInv'
  <2>1. ASSUME req'[r] = [pc |-> "candidates", names |-> names]
        PROVE  HandlerSound(req[r], call[r])'
    BY <2>1 DEF HandlerSound, OpenSound, Resuming, CertifySound, CastSound, CountSound, GrantedPcs
  <2>2. QED
    BY <1>2, <2>1, OnlyReqFrame, LocalsOutcome DEF CandidatesCheck
<1>3. CASE OpenCounts(r)
  <2>1. ASSUME req'[r] = At("open.seal")
        PROVE  HandlerSound(req[r], call[r])'
    BY <1>3, <2>1, OnlyReqFrame
       DEF OpenCounts, At, HandlerSound, OpenSound, Resuming, CertifySound, CastSound,
           CountSound, GrantedPcs
  <2>2. QED
    BY <1>3, <2>1, OnlyReqFrame, LocalsOutcome DEF OpenCounts
<1>4. QED
  BY <1>1, <1>2, <1>3

(* Checkpoints that a handler starts before its election is closed.        *)
LEMMA BeginSound ==
  ASSUME NEW r \in Requests, NEW kind \in {"ROSTER_SEALED", "BALLOTS"},
         NEW then \in Continuations,
         then = "open.update" => kind = "ROSTER_SEALED" /\ roster' # {},
         req'[r] = Checkpointing(kind, then)
  PROVE  HandlerSound(req[r], call[r])'
BY DEF Checkpointing, HandlerSound, OpenSound, Resuming, CertifySound, Certifying, CastSound,
       CountSound, GrantedPcs

LEMMA SealingOutcome ==
  ASSUME ElectionInv, OutcomeInv, NEW r \in Requests,
         SealCount(r) \/ CheckpointRoute(r) \/ OpenReadSeal(r) \/ OpenMatch(r)
  PROVE  OutcomeInv'
<1>1. ASSUME Goto(r, Idle), OnlyReq PROVE OutcomeInv'
  BY <1>1, OnlyReqFrame, QuietOutcome DEF Goto, Idle
<1>2. ASSUME NEW kind \in {"ROSTER_SEALED", "BALLOTS"}, NEW then \in Continuations,
             then = "open.update" => kind = "ROSTER_SEALED" /\ roster # {},
             Goto(r, Checkpointing(kind, then)), OnlyReq
      PROVE  OutcomeInv'
  BY <1>2, OnlyReqFrame, BeginSound, LocalsOutcome DEF Goto
<1>3. HandlerSound(req[r], call[r])
  BY DEF OutcomeInv, HandlersSound
<1>4. ASSUME NEW p \in {"open.match", "open.update"}, Goto(r, At(p)), OnlyReq,
             roster # {}, RosterSealed
      PROVE  OutcomeInv'
  <2>1. RosterSealed' /\ roster' = roster
    BY <1>4, OnlyReqFrame, TablesStay
  <2>2. ASSUME req'[r] = At(p) PROVE HandlerSound(req[r], call[r])'
    BY <1>4, <2>1, <2>2 DEF At, HandlerSound, OpenSound, Resuming, CertifySound, CastSound,
                            CountSound, GrantedPcs
  <2>3. QED
    BY <1>4, <2>2, OnlyReqFrame, LocalsOutcome DEF Goto
<1>5. {"idle", "open.update", "anchor"} \subseteq Continuations
  BY DEF Continuations
<1>6. CASE SealCount(r) \/ CheckpointRoute(r)
  BY <1>1, <1>2, <1>5, <1>6 DEF SealCount, CheckpointRoute
<1>7. CASE OpenReadSeal(r)
  <2>1. roster # {}
    BY <1>3, <1>7 DEF OpenReadSeal, HandlerSound, OpenSound
  <2>2. QED
    BY <1>2, <1>4, <1>5, <1>7, <2>1 DEF OpenReadSeal
<1>8. CASE OpenMatch(r)
  <2>1. roster # {} /\ RosterSealed
    BY <1>3, <1>8 DEF OpenMatch, HandlerSound, OpenSound
  <2>2. QED
    BY <1>1, <1>4, <1>8, <2>1 DEF OpenMatch
<1>9. QED
  BY <1>6, <1>7, <1>8

(* The quorum and the claim keep the admin; the list read for the count is *)
(* the one in place.                                                       *)
LEMMA GrantOutcome ==
  ASSUME ElectionInv, OutcomeInv, NEW r \in Requests,
         TallyQuorum(r) \/ TallyClaim(r) \/ TallyCandidates(r)
  PROVE  OutcomeInv'
<1>1. req[r] \in ApproveReq /\ OnlyReq
  BY Shape DEF TallyQuorum, TallyClaim, TallyCandidates, ElectionInv, TypeOK
<1>2. req[r].admin \in approval'
  BY <1>1, OnlyReqFrame DEF TallyQuorum, TallyClaim, TallyCandidates, OutcomeInv,
       HandlersSound, HandlerSound, CountSound, GrantedPcs
<1>3. ASSUME Goto(r, Idle) PROVE OutcomeInv'
  BY <1>1, <1>3, OnlyReqFrame, QuietOutcome DEF Goto, Idle
<1>4. ASSUME NEW p \in {"tally.claim", "tally.candidates"}, Goto(r, [req[r] EXCEPT !.pc = p])
      PROVE  OutcomeInv'
  <2> DEFINE l == [req[r] EXCEPT !.pc = p]
  <2>1. l.pc = p /\ l.admin = req[r].admin
    BY <1>1 DEF ApproveReq
  <2> HIDE DEF l
  <2>2. ASSUME req'[r] = l PROVE HandlerSound(req[r], call[r])'
    BY <1>2, <2>1, <2>2 DEF HandlerSound, OpenSound, Resuming, CertifySound, CastSound,
                            CountSound, GrantedPcs
  <2>3. QED
    BY <1>1, <1>4, <2>2, OnlyReqFrame, LocalsOutcome DEF Goto, l
<1>5. CASE TallyQuorum(r) \/ TallyClaim(r)
  BY <1>3, <1>4, <1>5 DEF TallyQuorum, TallyClaim
<1>6. CASE TallyCandidates(r)
  <2> DEFINE l == [pc |-> "tally.scan", admin |-> req[r].admin, valid |-> candidate,
                   opened |-> {}, cursor |-> -1]
  <2>1. candidate' = candidate /\ closedBox' = closedBox
    BY <1>1 DEF OnlyReq
  <2>2. \A b \in closedBox : ~(b.id <= -1)
    <3>1. closedBox \subseteq BallotRow
      BY DEF ElectionInv, TypeOK
    <3>2. \A b \in BallotRow : b.id \in Nat
      BY BallotIdsAssumption DEF BallotRow
    <3>3. QED
      BY <3>1, <3>2
  <2>3. ASSUME req'[r] = l PROVE HandlerSound(req[r], call[r])'
    BY <1>2, <2>1, <2>2, <2>3 DEF HandlerSound, OpenSound, Resuming, CertifySound, CastSound,
                                  CountSound, GrantedPcs
  <2>4. QED
    BY <1>6, <2>3, OnlyReqFrame, LocalsOutcome DEF TallyCandidates, Goto
<1>7. QED
  BY <1>5, <1>6

(* Both scans, of createCheckpoint and of openAndCount: a set of ballots   *)
(* that was collected up to the cursor is collected up to the next one,    *)
(* and altogether with the last batch.                                     *)
LEMMA ScanCollects ==
  ASSUME ChainTypeOK, NEW cursor \in Int, NEW batch, IsBatch(batch, cursor),
         NEW id, IsLast(id, batch, cursor), NEW S \in SUBSET ballot, NEW found,
         \A b \in S : b.id <= cursor => b \in found
  PROVE  \A b \in S : LastBatch(batch) \/ b.id <= id => b \in found \cup batch
<1> SUFFICES ASSUME NEW b \in S, LastBatch(batch) \/ b.id <= id, ~(b.id <= cursor)
             PROVE  b \in batch
  OBVIOUS
<1>1. b \in ballot /\ b.id \in Int
  BY BallotIdsAssumption DEF ChainTypeOK, BallotRow
<1>2. b \in Beyond(cursor)
  BY <1>1 DEF Beyond
<1>3. QED
  BY <1>2, BatchCovers

LEMMA TallyScanOutcome ==
  ASSUME ElectionInv, OutcomeInv, NEW r \in Requests, TallyScan(r)
  PROVE  OutcomeInv'
<1>1. /\ req[r] \in CountReq /\ req[r].pc = "tally.scan" /\ OnlyReq
      /\ HandlerSound(req[r], call[r])
  BY Shape DEF TallyScan, ElectionInv, TypeOK, OutcomeInv, HandlersSound
<1>2. PICK batch \in SUBSET Beyond(req[r].cursor), id \in BallotIds \cup {req[r].cursor} :
        /\ IsBatch(batch, req[r].cursor)
        /\ IsLast(id, batch, req[r].cursor)
        /\ Goto(r, [req[r] EXCEPT
             !.opened = @ \cup batch,
             !.cursor = id,
             !.pc = IF LastBatch(batch) THEN "tally.publish" ELSE "tally.scan"])
  BY DEF TallyScan
<1> DEFINE pc == IF LastBatch(batch) THEN "tally.publish" ELSE "tally.scan"
           l  == [req[r] EXCEPT !.opened = @ \cup batch, !.cursor = id, !.pc = pc]
<1>3. pc \in {"tally.scan", "tally.publish"} /\ (pc = "tally.publish" => LastBatch(batch))
  OBVIOUS
<1> HIDE DEF pc
<1>4. /\ l.pc = pc /\ l.opened = req[r].opened \cup batch /\ l.cursor = id
      /\ l.admin = req[r].admin /\ l.valid = req[r].valid
  BY <1>1 DEF CountReq
<1> HIDE DEF l
<1>5. \A b \in closedBox : LastBatch(batch) \/ b.id <= id => b \in l.opened
  <2>1. \A b \in closedBox : b.id <= req[r].cursor => b \in req[r].opened
    BY <1>1 DEF HandlerSound, CountSound
  <2>2. closedBox \subseteq ballot /\ ChainTypeOK /\ req[r].cursor \in Int
    BY <1>1 DEF OutcomeInv, TablesSound, ElectionInv, TypeOK, CountReq
  <2>3. QED
    BY <1>2, <1>4, <2>1, <2>2, ScanCollects
<1>6. req[r].admin \in approval /\ (req[r].valid = candidate \/ Unchosen)
  BY <1>1 DEF HandlerSound, CountSound, GrantedPcs
<1>7. /\ closedBox' = closedBox /\ candidate' = candidate /\ approval' = approval
      /\ Unchosen' = Unchosen
  BY <1>1 DEF OnlyReq, Unchosen
<1>8. ASSUME req'[r] = l PROVE HandlerSound(req[r], call[r])'
  <2>1. CountSound(req[r])'
    BY <1>3, <1>4, <1>5, <1>6, <1>7, <1>8 DEF CountSound, GrantedPcs
  <2>2. QED
    BY <1>3, <1>4, <1>8, <2>1 DEF HandlerSound, OpenSound, Resuming, CertifySound, CastSound
<1>9. QED
  BY <1>1, <1>2, <1>8, OnlyReqFrame, LocalsOutcome DEF Goto, l, pc
---------------------------------------------------------------------------
(* createCheckpoint on behalf of a handler.                                *)

LEMMA BeginCheckpointOutcome ==
  ASSUME ElectionInv, OutcomeInv, NEW r \in Requests, BeginCheckpoint(r)
  PROVE  OutcomeInv'
<1> DEFINE l == [pc |-> "call", then |-> req[r].then]
           c == [NoCall EXCEPT !.pc = "prev", !.kind = req[r].kind]
<1>1. /\ req' = [req EXCEPT ![r] = l] /\ call' = [call EXCEPT ![r] = c]
      /\ UNCHANGED tables /\ roster' = roster /\ approval' = approval
  BY DEF BeginCheckpoint, Begin, Goto, dataVars, tables
<1>2. call'[r] = c /\ \A q \in Requests \ {r} : call'[q] = call[q]
  BY <1>1 DEF ElectionInv, ChainInv, ChainTypeOK
<1>3. c.pc = "prev" /\ c.kind = req[r].kind
  BY DEF NoCall
<1>4. req[r].pc = "begin" /\ OpenSound(req[r], call[r]) /\ CertifySound(req[r], call[r])
  BY DEF BeginCheckpoint, OutcomeInv, HandlersSound, HandlerSound
<1>5. Past' = Past
  BY <1>1, TablesStay
<1> HIDE DEF c
<1>6. ASSUME req'[r] = l PROVE HandlerSound(req[r], call[r])'
  <2>1. OpenSound(req[r], call[r])'
    BY <1>1, <1>2, <1>3, <1>4, <1>6 DEF OpenSound, Resuming
  <2>2. CertifySound(req[r], call[r])'
    BY <1>2, <1>3, <1>4, <1>5, <1>6 DEF CertifySound, CollectedClosing, AfterPrev
  <2>3. QED
    BY <1>6, <2>1, <2>2 DEF HandlerSound, CastSound, CountSound, GrantedPcs
<1>7. QED
  BY <1>1, <1>2, <1>6, LocalsOutcome

LEMMA EndCheckpointOutcome ==
  ASSUME ElectionInv, OutcomeInv, NEW r \in Requests,
         EndCheckpoint(r) \/ AutoAnchor(r) \/ Crash(r)
  PROVE  OutcomeInv'
<1>1. /\ UNCHANGED tables /\ roster' = roster /\ approval' = approval
      /\ \A q \in Requests \ {r} : call'[q] = call[q]
  BY DEF EndCheckpoint, AutoAnchor, Crash, EndCall, dataVars, chainVars, tables,
         ElectionInv, ChainInv, ChainTypeOK
<1>2. ASSUME NEW p \in {"idle", "anchor"}, Goto(r, At(p)) PROVE OutcomeInv'
  BY <1>1, <1>2, QuietOutcome DEF Goto, At
<1>3. Idle = At("idle")
  BY DEF Idle, At
<1>4. CASE AutoAnchor(r) \/ Crash(r)
  BY <1>2, <1>3, <1>4 DEF AutoAnchor, Crash
<1>5. ASSUME EndCheckpoint(r), call[r].pc = "done", req[r].then = "open.update"
      PROVE  OutcomeInv'
  <2>1. roster # {} /\ RosterSealed
    BY <1>5 DEF EndCheckpoint, OutcomeInv, HandlersSound, HandlerSound, OpenSound, Resuming
  <2>2. RosterSealed' /\ roster' # {}
    BY <1>1, <2>1, TablesStay
  <2>3. ASSUME req'[r] = At("open.update") PROVE HandlerSound(req[r], call[r])'
    BY <2>2, <2>3 DEF At, HandlerSound, OpenSound, Resuming, CertifySound, CastSound,
                      CountSound, GrantedPcs
  <2>4. Goto(r, At("open.update"))
    BY <1>5 DEF EndCheckpoint, AfterCall
  <2>5. QED
    BY <1>1, <2>3, <2>4, LocalsOutcome DEF Goto
<1>6. CASE EndCheckpoint(r)
  <2>1. req[r].then \in {"idle", "open.update", "anchor"}
    BY <1>6, Shape DEF EndCheckpoint, ElectionInv, TypeOK, CallReq, Continuations
  <2>2. QED
    BY <1>2, <1>3, <1>5, <1>6, <2>1 DEF EndCheckpoint, AfterCall
<1>7. QED
  BY <1>4, <1>6

(* A query of createCheckpoint: it keeps its kind, does not return yet,    *)
(* and what it certifies it has collected.                                 *)
LEMMA QueryOutcome ==
  ASSUME ElectionInv, OutcomeInv, NEW r \in Requests, RunCheckpoint(r), NEW c,
         call' = [call EXCEPT ![r] = c], UNCHANGED <<dataVars, checkpoint>>,
         c.kind = call[r].kind, c.pc # "done",
         CollectedClosing(call[r]) => CollectedClosing(c)
  PROVE  OutcomeInv'
<1>1. /\ UNCHANGED tables /\ roster' = roster /\ approval' = approval
      /\ req' = [req EXCEPT ![r] = req[r]] /\ req[r].pc = "call"
  BY DEF RunCheckpoint, ownVars, dataVars, tables, ElectionInv, TypeOK
<1>2. call'[r] = c /\ \A q \in Requests \ {r} : call'[q] = call[q]
  BY DEF ElectionInv, ChainInv, ChainTypeOK
<1>3. OpenSound(req[r], call[r]) /\ CertifySound(req[r], call[r])
  BY DEF OutcomeInv, HandlersSound, HandlerSound
<1>4. Past' = Past /\ closedBox' = closedBox
  BY <1>1, TablesStay DEF tables
<1>5. ASSUME req'[r] = req[r] PROVE HandlerSound(req[r], call[r])'
  <2>1. OpenSound(req[r], call[r])'
    BY <1>1, <1>2, <1>3, <1>5 DEF OpenSound, Resuming
  <2>2. CertifySound(req[r], call[r])'
    BY <1>1, <1>2, <1>3, <1>4, <1>5 DEF CertifySound, CollectedClosing
  <2>3. QED
    BY <1>1, <1>5, <2>1, <2>2 DEF HandlerSound, CastSound, CountSound, GrantedPcs
<1>6. QED
  BY <1>1, <1>2, <1>5, LocalsOutcome

LEMMA ReadPrevOutcome ==
  ASSUME ElectionInv, OutcomeInv, NEW r \in Requests, RunCheckpoint(r), ReadPrev(r)
  PROVE  OutcomeInv'
<1>1. /\ call \in [Requests -> Call] /\ call[r].pc = "prev" /\ call[r].cursor = -1
      /\ UNCHANGED <<dataVars, checkpoint>>
  BY DEF ReadPrev, ElectionInv, ChainInv, ChainTypeOK, CallsSound, CallSound, Fresh
<1>2. PICK s, h : call' = [call EXCEPT ![r].pc = "scan", ![r].prevSeq = s, ![r].prevHash = h]
  BY DEF ReadPrev
<1> DEFINE c == [call[r] EXCEPT !.pc = "scan", !.prevSeq = s, !.prevHash = h]
<1>3. call' = [call EXCEPT ![r] = c]
  BY <1>1, <1>2
<1>4. c.kind = call[r].kind /\ c.pc = "scan" /\ c.cursor = -1
  BY <1>1 DEF Call
<1> HIDE DEF c
<1>5. \A b \in closedBox : ~(b.id <= -1)
  <2>1. closedBox \subseteq BallotRow
    BY DEF ElectionInv, TypeOK
  <2>2. \A b \in BallotRow : b.id \in Nat
    BY BallotIdsAssumption DEF BallotRow
  <2>3. QED
    BY <2>1, <2>2
<1>6. CollectedClosing(c)
  BY <1>4, <1>5 DEF CollectedClosing
<1>7. QED
  BY <1>1, <1>3, <1>4, <1>6, QueryOutcome

LEMMA ScanBatchOutcome ==
  ASSUME ElectionInv, OutcomeInv, NEW r \in Requests, RunCheckpoint(r), ScanBatch(r)
  PROVE  OutcomeInv'
<1>1. /\ call \in [Requests -> Call] /\ call[r] \in Call /\ call[r].pc = "scan"
      /\ ChainTypeOK /\ closedBox \subseteq ballot /\ UNCHANGED <<dataVars, checkpoint>>
  BY DEF ScanBatch, ElectionInv, ChainInv, ChainTypeOK, OutcomeInv, TablesSound
<1>2. PICK batch \in SUBSET Beyond(call[r].cursor), id \in BallotIds \cup {call[r].cursor} :
        /\ IsBatch(batch, call[r].cursor)
        /\ IsLast(id, batch, call[r].cursor)
        /\ call' = [call EXCEPT
             ![r].leaves = @ \cup batch,
             ![r].cursor = id,
             ![r].pc = IF LastBatch(batch) THEN AfterScan(call[r].kind) ELSE "scan"]
  BY DEF ScanBatch
<1> DEFINE pc == IF LastBatch(batch) THEN AfterScan(call[r].kind) ELSE "scan"
           c  == [call[r] EXCEPT !.leaves = @ \cup batch, !.cursor = id, !.pc = pc]
<1>3. pc # "done" /\ (pc = "scan" \/ LastBatch(batch))
  BY DEF AfterScan
<1> HIDE DEF pc
<1>4. call' = [call EXCEPT ![r] = c]
  BY <1>1, <1>2 DEF pc
<1>5. /\ c.pc = pc /\ c.kind = call[r].kind /\ c.cursor = id
      /\ c.leaves = call[r].leaves \cup batch
  BY <1>1 DEF Call
<1> HIDE DEF c
<1>6. ASSUME CollectedClosing(call[r]) PROVE CollectedClosing(c)
  <2>1. \A b \in closedBox : b.id <= call[r].cursor => b \in call[r].leaves
    BY <1>1, <1>6 DEF CollectedClosing, AfterPrev
  <2>2. call[r].cursor \in Int
    BY <1>1 DEF Call
  <2>3. \A b \in closedBox : LastBatch(batch) \/ b.id <= id => b \in c.leaves
    BY <1>1, <1>2, <1>5, <2>1, <2>2, ScanCollects
  <2>4. QED
    BY <1>3, <1>5, <2>3 DEF CollectedClosing
<1>7. QED
  BY <1>1, <1>3, <1>4, <1>5, <1>6, QueryOutcome

LEMMA LaterQueryOutcome ==
  ASSUME ElectionInv, OutcomeInv, NEW r \in Requests, RunCheckpoint(r),
         ReadRoster(r) \/ ReadRows(r) \/ ReadInvalid(r) \/ InsertConflict(r)
  PROVE  OutcomeInv'
<1>1. /\ call \in [Requests -> Call] /\ call[r] \in Call
      /\ UNCHANGED <<dataVars, checkpoint>>
  BY DEF ReadRoster, ReadRows, ReadInvalid, InsertConflict, ElectionInv, ChainInv, ChainTypeOK
<1>2. ASSUME NEW c, call' = [call EXCEPT ![r] = c], call[r].pc \in {"roster", "results", "insert"},
             c.pc \in {"results", "insert", "failed"},
             c.kind = call[r].kind, c.leaves = call[r].leaves
      PROVE  OutcomeInv'
  <2>1. CollectedClosing(call[r]) => CollectedClosing(c)
    BY <1>2 DEF CollectedClosing, AfterPrev
  <2>2. QED
    BY <1>1, <1>2, <2>1, QueryOutcome
<1>3. CASE ReadRoster(r)
  <2> DEFINE c == [call[r] EXCEPT !.rosterHash = <<roster>>, !.pc = "insert"]
  <2>1. call' = [call EXCEPT ![r] = c] /\ call[r].pc = "roster"
    BY <1>1, <1>3 DEF ReadRoster
  <2>2. c.pc = "insert" /\ c.kind = call[r].kind /\ c.leaves = call[r].leaves
    BY <1>1 DEF Call
  <2> HIDE DEF c
  <2>3. QED
    BY <1>2, <2>1, <2>2
<1>4. CASE ReadRows(r)
  <2> DEFINE pc == IF call[r].invalid = Null THEN "results" ELSE "insert"
             c  == [call[r] EXCEPT !.rows = <<tallyResult>>, !.pc = pc]
  <2>1. call' = [call EXCEPT ![r] = c] /\ call[r].pc = "results"
    BY <1>1, <1>4 DEF ReadRows
  <2>2. c.pc \in {"results", "insert"} /\ c.kind = call[r].kind /\ c.leaves = call[r].leaves
    BY <1>1 DEF Call
  <2> HIDE DEF c
  <2>3. QED
    BY <1>2, <2>1, <2>2
<1>5. CASE ReadInvalid(r)
  <2> DEFINE pc == IF call[r].rows = Null THEN "results" ELSE "insert"
             c  == [call[r] EXCEPT !.invalid = <<invalidVotes>>, !.pc = pc]
  <2>1. call' = [call EXCEPT ![r] = c] /\ call[r].pc = "results"
    BY <1>1, <1>5 DEF ReadInvalid
  <2>2. c.pc \in {"results", "insert"} /\ c.kind = call[r].kind /\ c.leaves = call[r].leaves
    BY <1>1 DEF Call
  <2> HIDE DEF c
  <2>3. QED
    BY <1>2, <2>1, <2>2
<1>6. CASE InsertConflict(r)
  <2> DEFINE c == [call[r] EXCEPT !.pc = "failed"]
  <2>1. call' = [call EXCEPT ![r] = c] /\ call[r].pc = "insert"
    BY <1>1, <1>6 DEF InsertConflict
  <2>2. c.pc = "failed" /\ c.kind = call[r].kind /\ c.leaves = call[r].leaves
    BY <1>1 DEF Call
  <2> HIDE DEF c
  <2>3. QED
    BY <1>2, <2>1, <2>2
<1>7. QED
  BY <1>3, <1>4, <1>5, <1>6

(* The row that a caller inserts: the rows before it stay, and if it       *)
(* certifies the closing it holds all its ballots.                         *)
LEMMA InsertOutcome ==
  ASSUME ElectionInv, OutcomeInv, NEW r \in Requests, RunCheckpoint(r), Insert(r)
  PROVE  OutcomeInv'
<1> DEFINE n == nextSeq(r)
<1>1. /\ req[r].pc = "call" /\ req' = req /\ req \in [Requests -> Req]
      /\ call[r].pc = "insert" /\ call[r] \in Call
      /\ HandlerSound(req[r], call[r])
      /\ UNCHANGED dataVars
      /\ UNCHANGED <<status, candidate, approval, closedBox>>
  BY DEF RunCheckpoint, Insert, ownVars, ElectionInv, TypeOK, ChainInv, ChainTypeOK,
         OutcomeInv, HandlersSound
<1>2. /\ n \notin DOMAIN checkpoint
      /\ checkpoint' = [s \in DOMAIN checkpoint \cup {n} |->
                          IF s = n THEN NewCheckpoint(r) ELSE checkpoint[s]]
      /\ call' = [call EXCEPT ![r].pc = "done"]
  BY DEF Insert, SeqFree
<1>3. /\ NewCheckpoint(r).body.kind = call[r].kind
      /\ NewCheckpoint(r).body.merkleRoot = call[r].leaves
  BY DEF NewCheckpoint, NewBody
<1> HIDE DEF n
<1>4. /\ DOMAIN checkpoint' = DOMAIN checkpoint \cup {n}
      /\ \A s \in DOMAIN checkpoint : checkpoint'[s] = checkpoint[s]
      /\ checkpoint'[n].body.kind = call[r].kind
      /\ checkpoint'[n].body.merkleRoot = call[r].leaves
  BY <1>2, <1>3
<1>5. /\ \A q \in Requests \ {r} : call'[q] = call[q]
      /\ call'[r].pc = "done" /\ call'[r].kind = call[r].kind
  BY <1>1, <1>2 DEF ElectionInv, ChainInv, ChainTypeOK, Call
<1>6. call[r].kind \in Certifying => Past /\ closedBox \subseteq call[r].leaves
  BY <1>1 DEF HandlerSound, CertifySound, CollectedClosing, AfterPrev
<1>7. /\ RosterSealed => RosterSealed'
      /\ call[r].kind = "ROSTER_SEALED" => RosterSealed'
  BY <1>4 DEF RosterSealed, Sealed
<1>8. Past' = Past /\ Choices' = Choices
  BY <1>1 DEF Past, Choices
<1>9. Evolves
  BY <1>1, <1>7, <1>8 DEF Evolves, dataVars
<1>10. HandlerSound(req[r], call[r])'
  <2>1. OpenSound(req[r], call[r])'
    BY <1>1, <1>5, <1>7 DEF HandlerSound, OpenSound, Resuming, dataVars
  <2>2. CertifySound(req[r], call[r])'
    BY <1>1, <1>5, <1>6, <1>8 DEF CertifySound, CollectedClosing, AfterPrev
  <2>3. QED
    BY <1>1, <2>1, <2>2 DEF HandlerSound, CastSound, CountSound, GrantedPcs
<1>11. HandlersSound'
  BY <1>1, <1>5, <1>9, <1>10, HandlersStep DEF OutcomeInv
<1>12. TablesSound'
  BY <1>1, <1>4, <1>6, <1>8 DEF OutcomeInv, TablesSound, dataVars
<1>13. SealedBeforeOpen' /\ FinalCoversVoting'
  BY <1>1, <1>4, <1>6, <1>7 DEF OutcomeInv, SealedBeforeOpen, FinalCoversVoting, Certifying
<1>14. TimelyVotesCounted' /\ ResultsFromOneCount'
  BY <1>1 DEF OutcomeInv, TimelyVotesCounted, ResultsFromOneCount, VotesFor, dataVars
<1>15. QED
  BY <1>11, <1>12, <1>13, <1>14 DEF OutcomeInv

LEMMA RunCheckpointOutcome ==
  ASSUME ElectionInv, OutcomeInv, NEW r \in Requests, RunCheckpoint(r)
  PROVE  OutcomeInv'
BY ReadPrevOutcome, ScanBatchOutcome, LaterQueryOutcome, InsertOutcome
   DEF RunCheckpoint, CallStep
---------------------------------------------------------------------------
(* The steps that change a table of the election.                          *)

(* What they have in common.                                               *)
LEMMA TableStep ==
  ASSUME ElectionInv, OutcomeInv, NEW r \in Requests, NEW l,
         req' = [req EXCEPT ![r] = l], call' = call,
         Evolves, OutcomeTables',
         req'[r] = l => HandlerSound(req[r], call[r])'
  PROVE  OutcomeInv'
<1>1. req \in [Requests -> Req]
  BY DEF ElectionInv, TypeOK
<1>2. HandlersSound'
  BY <1>1, HandlersStep DEF OutcomeInv
<1>3. QED
  BY <1>2 DEF OutcomeInv, OutcomeTables

LEMMA CastCommitOutcome ==
  ASSUME ElectionInv, OutcomeInv, NEW r \in Requests, CastCommit(r)
  PROVE  OutcomeInv'
<1>1. PICK id \in BallotIds : ballot' = ballot \cup {[id |-> id, vote |-> req[r].vote]}
  BY DEF CastCommit
<1>2. /\ req' = [req EXCEPT ![r] = Idle] /\ call' = call
      /\ UNCHANGED <<roster, tallyResult, invalidVotes, checkpoint, status, candidate,
                     approval, closedBox>>
  BY DEF CastCommit, Goto
<1>3. /\ RosterSealed' = RosterSealed /\ Past' = Past /\ Choices' = Choices
  BY <1>2 DEF RosterSealed, Sealed, Past, Choices
<1>4. Evolves
  BY <1>2, <1>3 DEF Evolves
<1>5. req[r].vote \in Choices
  BY DEF CastCommit, OutcomeInv, HandlersSound, HandlerSound, CastSound
<1>6. TablesSound'
  <2>1. \A b \in ballot' : b.vote \in Choices'
    BY <1>1, <1>3, <1>5 DEF OutcomeInv, TablesSound
  <2>2. closedBox' \subseteq ballot'
    BY <1>1, <1>2 DEF OutcomeInv, TablesSound
  <2>3. QED
    BY <1>2, <1>3, <2>1, <2>2 DEF OutcomeInv, TablesSound
<1>7. SealedBeforeOpen' /\ FinalCoversVoting' /\ TimelyVotesCounted' /\ ResultsFromOneCount'
  BY <1>2, <1>3 DEF OutcomeInv, SealedBeforeOpen, FinalCoversVoting, TimelyVotesCounted,
                    ResultsFromOneCount, VotesFor
<1>8. req'[r] = Idle => HandlerSound(req[r], call[r])'
  BY QuietSound DEF Idle
<1>9. QED
  BY <1>2, <1>4, <1>6, <1>7, <1>8, TableStep DEF OutcomeTables

LEMMA ImportChunkOutcome ==
  ASSUME ElectionInv, OutcomeInv, NEW r \in Requests, ImportChunk(r)
  PROVE  OutcomeInv'
<1>1. req[r] \in ImportReq /\ req[r].pc = "import.rows"
  BY Shape DEF ImportChunk, ElectionInv, TypeOK
<1>2. PICK rows \in (SUBSET req[r].rows) \ {{}} :
        /\ roster' = roster \cup rows
        /\ Goto(r, IF rows = req[r].rows THEN Idle ELSE [req[r] EXCEPT !.rows = @ \ rows])
  BY DEF ImportChunk
<1>3. UNCHANGED tables /\ approval' = approval /\ call' = call
  BY DEF ImportChunk, tables
<1>4. [req[r] EXCEPT !.rows = @ \ rows].pc = "import.rows"
  BY <1>1 DEF ImportReq
<1>5. QED
  BY <1>2, <1>3, <1>4, QuietOutcome DEF Goto, Idle

(* A new list: nobody has voted for its candidates yet.                    *)
LEMMA NewList ==
  ASSUME ElectionInv, OutcomeInv, NEW r \in Requests, CandidatesReplace(r)
  PROVE  /\ candidate' # {} /\ candidate' \cap candidate = {} /\ candidate' \subseteq CandidateIds
         /\ Choices \subseteq Choices'
         /\ \A b \in ballot : b.vote \notin candidate'
<1>1. req[r] \in ListReq /\ req[r].names # {}
  BY Shape DEF CandidatesReplace, ElectionInv, TypeOK, OutcomeInv, HandlersSound, HandlerSound
<1>2. PICK g \in 1..MaxGenerations :
        (\A c \in candidate : c[1] = g - 1) /\ candidate' = {g} \X req[r].names
  BY DEF CandidatesReplace
<1>3. g \in Int /\ g - 1 < g /\ ~(g <= g - 1)
  BY BoundsAssumption
<1>4. candidate' # {} /\ candidate' \subseteq CandidateIds
  <2>1. req[r].names \subseteq Names
    BY <1>1 DEF ListReq
  <2>2. PICK name \in req[r].names : TRUE
    BY <1>1
  <2>3. <<g, name>> \in candidate'
    BY <1>2
  <2>4. candidate' \subseteq CandidateIds
    BY <1>2, <2>1 DEF CandidateIds
  <2>5. QED
    BY <2>3, <2>4
<1>5. \A c \in candidate' : c[1] = g
  BY <1>2
<1>6. candidate \subseteq CandidateIds /\ candidate # {}
  BY DEF ElectionInv, TypeOK, OutcomeInv, TablesSound
<1>7. \A id \in Choices : id \in CandidateIds => id[1] <= g - 1
  <2>1. Abstain \notin CandidateIds /\ Garbage \notin CandidateIds
    BY ChoiceAssumption
  <2>2. QED
    BY <1>2, <2>1 DEF Choices
<1>8. Choices \subseteq Choices'
  <2> SUFFICES ASSUME NEW id \in CandidateIds, NEW c \in candidate, id[1] <= c[1]
               PROVE  \E d \in candidate' : id[1] <= d[1]
    BY DEF Choices
  <2>1. id[1] \in Int /\ c[1] = g - 1
    BY <1>2, BoundsAssumption DEF CandidateIds
  <2>2. id[1] <= g
    BY <1>3, <2>1
  <2>3. QED
    BY <1>4, <1>5, <2>2
<1>9. ASSUME NEW b \in ballot PROVE b.vote \notin candidate'
  <2>1. b.vote \in Choices
    BY DEF OutcomeInv, TablesSound
  <2>2. QED
    BY <1>3, <1>4, <1>5, <1>7, <2>1
<1>10. candidate' \cap candidate = {}
  BY <1>2, <1>3, <1>5
<1>11. QED
  BY <1>4, <1>8, <1>9, <1>10

LEMMA CandidatesReplaceOutcome ==
  ASSUME ElectionInv, OutcomeInv, NEW r \in Requests, CandidatesReplace(r)
  PROVE  OutcomeInv'
<1>1. /\ req' = [req EXCEPT ![r] = Idle] /\ call' = call
      /\ UNCHANGED <<roster, ballot, invalidVotes, checkpoint, status, approval, closedBox>>
      /\ tallyResult' = {IF row.candidateId \in candidate
                           THEN [row EXCEPT !.candidateId = Abstain] ELSE row :
                         row \in tallyResult}
  BY DEF CandidatesReplace, Goto
<1>2. RosterSealed' = RosterSealed /\ Past' = Past
  BY <1>1 DEF RosterSealed, Sealed, Past
<1>3. Unchosen'
  BY <1>1, NewList DEF Unchosen, OutcomeInv, TablesSound
<1>4. Evolves
  BY <1>1, <1>2, <1>3, NewList DEF Evolves
<1>5. TablesSound'
  <2>1. \A b \in ballot' : b.vote \in Choices'
    BY <1>1, NewList DEF OutcomeInv, TablesSound
  <2>2. tallyResult' # {} => status' = "TALLIED"
    BY <1>1 DEF OutcomeInv, TablesSound
  <2>3. QED
    BY <1>1, <1>2, <1>3, <2>1, <2>2, NewList DEF OutcomeInv, TablesSound, Unchosen
<1>6. SealedBeforeOpen' /\ FinalCoversVoting'
  BY <1>1, <1>2 DEF OutcomeInv, SealedBeforeOpen, FinalCoversVoting
<1>7. TimelyVotesCounted'
  <2>1. \A row \in tallyResult : \E new \in tallyResult' : new.id = row.id /\ new.votes = row.votes
    <3> SUFFICES ASSUME NEW row \in tallyResult
                 PROVE  \E new \in tallyResult' : new.id = row.id /\ new.votes = row.votes
      OBVIOUS
    <3> DEFINE new == IF row.candidateId \in candidate
                        THEN [row EXCEPT !.candidateId = Abstain] ELSE row
    <3>1. new \in tallyResult'
      BY <1>1
    <3>2. row \in TallyRow
      BY DEF ElectionInv, ChainInv, ChainTypeOK
    <3>3. new.id = row.id /\ new.votes = row.votes
      BY <3>2 DEF TallyRow
    <3>4. QED
      BY <3>1, <3>3
  <2> SUFFICES ASSUME status = "TALLIED", NEW choice \in Votes
               PROVE  LET timely == Cardinality(VotesFor(closedBox, choice)) IN
                      \/ timely <= invalidVotes
                      \/ \E row \in tallyResult' : row.id[2] = choice /\ timely <= row.votes
    BY <1>1 DEF TimelyVotesCounted
  <2>2. LET timely == Cardinality(VotesFor(closedBox, choice)) IN
        \/ timely <= invalidVotes
        \/ \E row \in tallyResult : row.id[2] = choice /\ timely <= row.votes
    BY DEF OutcomeInv, TimelyVotesCounted
  <2>3. QED
    BY <2>1, <2>2
<1>8. ResultsFromOneCount'
  BY <1>1, <1>3 DEF ResultsFromOneCount, VotesFor, Unchosen
<1>9. req'[r] = Idle => HandlerSound(req[r], call[r])'
  BY QuietSound DEF Idle
<1>10. QED
  BY <1>1, <1>4, <1>5, <1>6, <1>7, <1>8, <1>9, TableStep DEF OutcomeTables

LEMMA OpenUpdateOutcome ==
  ASSUME ElectionInv, OutcomeInv, NEW r \in Requests, OpenUpdate(r)
  PROVE  OutcomeInv'
<1> DEFINE l == IF status = "DRAFT" THEN Checkpointing("BALLOTS", "anchor") ELSE Idle
<1>1. /\ req' = [req EXCEPT ![r] = l] /\ UNCHANGED chainVars
      /\ UNCHANGED <<candidate, approval, closedBox>>
      /\ status' = IF status = "DRAFT" THEN "OPEN" ELSE status
  BY DEF OpenUpdate, Goto
<1>2. RosterSealed
  BY DEF OpenUpdate, OutcomeInv, HandlersSound, HandlerSound, OpenSound
<1>3. /\ RosterSealed' = RosterSealed /\ Past' = Past /\ Choices' = Choices
  BY <1>1 DEF RosterSealed, Sealed, Past, Choices, chainVars
<1>4. Evolves
  BY <1>1, <1>3 DEF Evolves, chainVars
<1>5. TablesSound' /\ SealedBeforeOpen' /\ FinalCoversVoting' /\ TimelyVotesCounted'
        /\ ResultsFromOneCount'
  <2>1. TablesSound'
    BY <1>1, <1>3 DEF OutcomeInv, TablesSound, chainVars
  <2>2. SealedBeforeOpen' /\ FinalCoversVoting'
    BY <1>1, <1>2, <1>3 DEF OutcomeInv, SealedBeforeOpen, FinalCoversVoting, chainVars
  <2>3. status' = "TALLIED" => status = "TALLIED"
    BY <1>1
  <2>4. TimelyVotesCounted' /\ ResultsFromOneCount'
    BY <1>1, <2>3 DEF OutcomeInv, TimelyVotesCounted, ResultsFromOneCount, VotesFor, chainVars
  <2>5. QED
    BY <2>1, <2>2, <2>4
<1>6. ASSUME req'[r] = l PROVE HandlerSound(req[r], call[r])'
  <2>1. CASE status = "DRAFT"
    BY <1>6, <2>1, BeginSound DEF Continuations
  <2>2. CASE status # "DRAFT"
    BY <1>6, <2>2, QuietSound DEF Idle
  <2>3. QED
    BY <2>1, <2>2
<1> HIDE DEF l
<1>7. QED
  BY <1>1, <1>4, <1>5, <1>6, TableStep DEF OutcomeTables, chainVars

(* Nothing was certified or published before the closing, so the ballots   *)
(* in the box are those of the closing for everything that comes after it. *)
LEMMA CloseUpdateOutcome ==
  ASSUME ElectionInv, OutcomeInv, NEW r \in Requests, CloseUpdate(r)
  PROVE  OutcomeInv'
<1> DEFINE l == Checkpointing("FINAL", "anchor")
<1>1. /\ req' = [req EXCEPT ![r] = l] /\ UNCHANGED chainVars
      /\ UNCHANGED <<candidate, approval>>
      /\ status = "OPEN" /\ status' = "CLOSED" /\ closedBox' = ballot
  BY DEF CloseUpdate, Goto
<1>2. ~Past /\ Past' /\ tallyResult = {}
  BY <1>1 DEF Past, OutcomeInv, TablesSound
<1>3. /\ RosterSealed' = RosterSealed /\ Choices' = Choices
  BY <1>1 DEF RosterSealed, Sealed, Choices, chainVars
<1>4. Evolves
  BY <1>1, <1>2, <1>3 DEF Evolves, chainVars
<1>5. TablesSound'
  BY <1>1, <1>2, <1>3 DEF OutcomeInv, TablesSound, chainVars
<1>6. SealedBeforeOpen' /\ FinalCoversVoting'
  BY <1>1, <1>2, <1>3 DEF OutcomeInv, TablesSound, SealedBeforeOpen, FinalCoversVoting,
                          Certifying, chainVars
<1>7. TimelyVotesCounted' /\ ResultsFromOneCount'
  BY <1>1, <1>2 DEF TimelyVotesCounted, ResultsFromOneCount, chainVars
<1>8. ASSUME req'[r] = l PROVE HandlerSound(req[r], call[r])'
  BY <1>2, <1>8 DEF Checkpointing, HandlerSound, OpenSound, Resuming, CertifySound,
                    CastSound, CountSound, GrantedPcs
<1> HIDE DEF l
<1>9. QED
  BY <1>1, <1>4, <1>5, <1>6, <1>7, <1>8, TableStep DEF OutcomeTables, chainVars

LEMMA TallyApproveOutcome ==
  ASSUME ElectionInv, OutcomeInv, NEW r \in Requests, TallyApprove(r)
  PROVE  OutcomeInv'
<1> DEFINE l == [pc |-> "tally.quorum", admin |-> req[r].admin]
<1>1. /\ req' = [req EXCEPT ![r] = l] /\ call' = call /\ UNCHANGED tables /\ roster' = roster
      /\ approval' = approval \cup {req[r].admin}
  BY DEF TallyApprove, Goto, chainVars, tables
<1>2. ASSUME req'[r] = l PROVE HandlerSound(req[r], call[r])'
  BY <1>1, <1>2 DEF HandlerSound, OpenSound, Resuming, CertifySound, CastSound, CountSound,
                    GrantedPcs
<1>3. QED
  BY <1>1, <1>2, LocalsOutcome

(* What a count holds when it is about to publish.                         *)
LEMMA CountAtPublish ==
  ASSUME ElectionInv, OutcomeInv, NEW r \in Requests, req[r].pc = "tally.publish"
  PROVE  /\ req[r] \in CountReq /\ Past /\ EnoughApprovals /\ req[r].admin \in approval
         /\ closedBox \subseteq req[r].opened /\ req[r].opened \subseteq ballot
         /\ req[r].valid = candidate \/ Unchosen
         /\ \A S \in SUBSET req[r].opened : IsFiniteSet(S) /\ Cardinality(S) \in Nat
<1>1. req[r] \in CountReq /\ ReqSound(req[r]) /\ CountSound(req[r])
  BY Shape DEF ElectionInv, TypeOK, ReqsSound, OutcomeInv, HandlersSound, HandlerSound
<1>2. Past /\ EnoughApprovals /\ req[r].opened \subseteq ballot
  BY <1>1 DEF ReqSound, TallyPcs, GrantedPcs, Past
<1>3. /\ req[r].admin \in approval /\ closedBox \subseteq req[r].opened
      /\ req[r].valid = candidate \/ Unchosen
  BY <1>1 DEF CountSound, GrantedPcs
<1>4. \A S \in SUBSET req[r].opened : IsFiniteSet(S) /\ Cardinality(S) \in Nat
  BY <1>2, FiniteBox DEF ElectionInv, TypeOK, ChainTypeOK
<1>5. QED
  BY <1>1, <1>2, <1>3, <1>4

(* Every accepted choice that was opened has its row.                      *)
LEMMA RowOfVote ==
  ASSUME NEW r \in Requests, NEW b \in req[r].opened, b.vote \in req[r].valid \cup {Abstain}
  PROVE  \E row \in NewRows(r) :
           /\ row.id = <<req[r].admin, b.vote>> /\ row.candidateId = b.vote
           /\ row.votes = Cardinality(VotesFor(Counted(r), b.vote))
<1> DEFINE row == [id |-> <<req[r].admin, b.vote>>, candidateId |-> b.vote,
                   votes |-> Cardinality(VotesFor(Counted(r), b.vote))]
<1>1. b \in Counted(r)
  BY DEF Counted
<1>2. row \in NewRows(r)
  BY <1>1 DEF NewRows
<1>3. QED
  BY <1>2

(* The votes of the closing for a choice are in its row, or reported.      *)
LEMMA PublishedTimely ==
  ASSUME ElectionInv, OutcomeInv, NEW r \in Requests, TallyPublish(r), NEW choice
  PROVE  LET timely == Cardinality(VotesFor(closedBox, choice)) IN
         \/ timely <= invalidVotes'
         \/ \E row \in tallyResult' : row.id[2] = choice /\ timely <= row.votes
<1>1. /\ closedBox \subseteq req[r].opened
      /\ \A S \in SUBSET req[r].opened : IsFiniteSet(S) /\ Cardinality(S) \in Nat
  BY CountAtPublish DEF TallyPublish
<1>2. invalidVotes' = Cardinality(Damaged(r)) /\ NewRows(r) \subseteq tallyResult'
  BY DEF TallyPublish
<1> DEFINE cast == VotesFor(closedBox, choice)
<1>3. cast \subseteq req[r].opened
  BY <1>1 DEF VotesFor
<1>4. ASSUME NEW S \in SUBSET req[r].opened, cast \subseteq S
      PROVE  Cardinality(cast) <= Cardinality(S)
  BY <1>1, <1>4, FS_Subset
<1>5. CASE choice \notin req[r].valid \cup {Abstain}
  <2>1. cast \subseteq Damaged(r)
    BY <1>3, <1>5 DEF VotesFor, Damaged, Counted
  <2>2. Damaged(r) \subseteq req[r].opened
    BY DEF Damaged
  <2>3. QED
    BY <1>2, <1>4, <2>1, <2>2
<1>6. CASE choice \in req[r].valid \cup {Abstain} /\ cast # {}
  <2>1. PICK b \in req[r].opened : b.vote = choice
    BY <1>3, <1>6 DEF VotesFor
  <2>2. PICK row \in NewRows(r) :
          /\ row.id = <<req[r].admin, choice>>
          /\ row.votes = Cardinality(VotesFor(Counted(r), choice))
    BY <1>6, <2>1, RowOfVote
  <2>3. cast \subseteq VotesFor(Counted(r), choice)
    BY <1>3, <1>6 DEF VotesFor, Counted
  <2>4. VotesFor(Counted(r), choice) \subseteq req[r].opened
    BY DEF VotesFor, Counted
  <2>5. Cardinality(cast) <= row.votes
    BY <1>4, <2>2, <2>3, <2>4
  <2>6. QED
    BY <1>2, <2>2, <2>5
<1>7. CASE cast = {}
  <2>1. Cardinality(cast) = 0
    BY <1>7, FS_EmptySet
  <2>2. Cardinality(Damaged(r)) \in Nat
    BY <1>1 DEF Damaged
  <2>3. QED
    BY <1>2, <2>1, <2>2
<1>8. QED
  BY <1>5, <1>6, <1>7

(* Each vote of the closing for a candidate in place has its row after a   *)
(* publication; the unique index refuses a second row for it.              *)
LEMMA PublishedRow ==
  ASSUME ElectionInv, OutcomeInv, NEW r \in Requests, TallyPublish(r),
         NEW b \in closedBox, b.vote \in candidate
  PROVE  /\ \E row \in NewRows(r) : row.candidateId = b.vote
         /\ tallyResult = {}
<1>1. closedBox \subseteq req[r].opened /\ req[r].valid = candidate
  BY CountAtPublish DEF TallyPublish, Unchosen
<1>2. PICK row \in NewRows(r) : row.candidateId = b.vote
  BY <1>1, RowOfVote
<1>3. b.vote # Abstain
  BY ChoiceAssumption DEF ElectionInv, TypeOK
<1>4. \A old \in tallyResult : old.candidateId # b.vote
  BY <1>2, <1>3 DEF TallyPublish, RowsAllowed
<1>5. status = "TALLIED" => \E old \in tallyResult : old.candidateId = b.vote
  BY DEF OutcomeInv, TablesSound
<1>6. tallyResult = {}
  BY <1>4, <1>5 DEF OutcomeInv, TablesSound
<1>7. QED
  BY <1>2, <1>6

LEMMA TallyPublishOutcome ==
  ASSUME ElectionInv, OutcomeInv, NEW r \in Requests, TallyPublish(r)
  PROVE  OutcomeInv'
<1> DEFINE l == Checkpointing("RESULTS", "anchor")
<1>1. /\ req' = [req EXCEPT ![r] = l] /\ call' = call
      /\ UNCHANGED <<roster, ballot, checkpoint, candidate, approval, closedBox>>
      /\ tallyResult' = tallyResult \cup NewRows(r) /\ status' = "TALLIED"
  BY DEF TallyPublish, Goto
<1>2. Past /\ status # "DRAFT" /\ Past'
  BY <1>1, CountAtPublish DEF TallyPublish, Past
<1>3. RosterSealed' = RosterSealed /\ Choices' = Choices
  BY <1>1 DEF RosterSealed, Sealed, Choices
<1>4. Evolves
  BY <1>1, <1>2, <1>3 DEF Evolves
<1>5. TablesSound'
  <2>1. \A b \in closedBox : b.vote \in candidate =>
          \E row \in tallyResult' : row.candidateId = b.vote
    BY <1>1, PublishedRow
  <2>2. QED
    BY <1>1, <1>2, <1>3, <2>1 DEF OutcomeInv, TablesSound
<1>6. SealedBeforeOpen' /\ FinalCoversVoting'
  BY <1>1, <1>2, <1>3 DEF OutcomeInv, SealedBeforeOpen, FinalCoversVoting
<1>7. TimelyVotesCounted'
  BY <1>1, PublishedTimely DEF TimelyVotesCounted
<1>8. ResultsFromOneCount'
  <2> SUFFICES ASSUME NEW row \in tallyResult', VotesFor(closedBox, row.candidateId) # {},
                      row.candidateId \in candidate
               PROVE  \A new, other \in tallyResult' : new.id[1] = other.id[1]
    BY <1>1 DEF ResultsFromOneCount
  <2>1. PICK b \in closedBox : b.vote = row.candidateId
    BY DEF VotesFor
  <2>2. tallyResult = {}
    BY <2>1, PublishedRow
  <2>3. \A new \in NewRows(r) : new.id[1] = req[r].admin
    BY DEF NewRows
  <2>4. QED
    BY <1>1, <2>2, <2>3
<1>9. ASSUME req'[r] = l PROVE HandlerSound(req[r], call[r])'
  BY <1>2, <1>9 DEF Checkpointing, HandlerSound, OpenSound, Resuming, CertifySound,
                    CastSound, CountSound, GrantedPcs
<1> HIDE DEF l
<1>10. QED
  BY <1>1, <1>4, <1>5, <1>6, <1>7, <1>8, <1>9, TableStep DEF OutcomeTables
---------------------------------------------------------------------------
LEMMA NoStepOutcome ==
  ASSUME OutcomeInv, UNCHANGED tables, UNCHANGED <<roster, approval, req, call>>
  PROVE  OutcomeInv'
<1>1. HandlersSound'
  <2> SUFFICES ASSUME NEW r \in Requests PROVE HandlerSound(req[r], call[r])'
    BY DEF HandlersSound
  <2>1. HandlerSound(req[r], call[r])
    BY DEF OutcomeInv, HandlersSound
  <2>2. OpenSound(req[r], call[r])' /\ CertifySound(req[r], call[r])'
    BY <2>1, TablesStay DEF HandlerSound, OpenSound, Resuming, CertifySound, CollectedClosing,
                            AfterPrev, tables
  <2>3. CastSound(req[r])' /\ CountSound(req[r])'
    BY <2>1, TablesStay DEF HandlerSound, CastSound, CountSound, tables
  <2>4. QED
    BY <2>1, <2>2, <2>3 DEF HandlerSound
<1>2. QED
  BY <1>1, TablesStay DEF OutcomeInv, OutcomeTables

LEMMA InitOutcome ==
  ASSUME Init
  PROVE  OutcomeInv
<1>1. HandlersSound
  BY DEF Init, Idle, HandlersSound, HandlerSound, OpenSound, Resuming, CertifySound, CastSound,
         CountSound, GrantedPcs
<1>2. candidate # {}
  <2>1. PICK N \in (SUBSET Names) \ {{}} : candidate = {1} \X N
    BY DEF Init
  <2>2. PICK name \in N : TRUE
    BY <2>1
  <2>3. <<1, name>> \in candidate
    BY <2>1
  <2>4. QED
    BY <2>3
<1>3. DOMAIN checkpoint = {} /\ ballot = {} /\ tallyResult = {} /\ status = "DRAFT" /\ closedBox = {}
  BY DEF Init, ChainInit
<1>4. TablesSound
  BY <1>2, <1>3 DEF TablesSound
<1>5. SealedBeforeOpen /\ FinalCoversVoting /\ TimelyVotesCounted /\ ResultsFromOneCount
  BY <1>3 DEF SealedBeforeOpen, FinalCoversVoting, TimelyVotesCounted, ResultsFromOneCount
<1>6. QED
  BY <1>1, <1>4, <1>5 DEF OutcomeInv

LEMMA OutcomeStep ==
  ASSUME ElectionInv, OutcomeInv, [Next]_vars
  PROVE  OutcomeInv'
<1>1. ASSUME NEW r \in Requests, Arrival(r) PROVE OutcomeInv'
  BY <1>1, QuietSteps, AdmissionOutcome, SealingOutcome, CloseUpdateOutcome DEF Arrival
<1>2. ASSUME NEW r \in Requests, VoterStep(r) \/ SetupStep(r) PROVE OutcomeInv'
  BY <1>2, CastCommitOutcome, QuietSteps, ImportChunkOutcome, CandidatesReplaceOutcome
     DEF VoterStep, SetupStep
<1>3. ASSUME NEW r \in Requests, CheckpointStep(r) \/ Crash(r) PROVE OutcomeInv'
  BY <1>3, BeginCheckpointOutcome, RunCheckpointOutcome, EndCheckpointOutcome
     DEF CheckpointStep
<1>4. ASSUME NEW r \in Requests, LifecycleStep(r) PROVE OutcomeInv'
  BY <1>4, QuietSteps, SealingOutcome, OpenUpdateOutcome DEF LifecycleStep
<1>5. ASSUME NEW r \in Requests, TallyStep(r) PROVE OutcomeInv'
  BY <1>5, IntegrityReadOutcome, TallyApproveOutcome, QuietSteps, GrantOutcome,
     TallyScanOutcome, TallyPublishOutcome DEF TallyStep
<1>6. CASE Tick
  BY <1>6, NoStepOutcome DEF Tick, chainVars, tables
<1>7. CASE UNCHANGED vars
  BY <1>7, NoStepOutcome DEF vars, ownVars, chainVars, tables
<1>8. QED
  BY <1>1, <1>2, <1>3, <1>4, <1>5, <1>6, <1>7 DEF Next, Progress

LEMMA OutcomeAlwaysInv == Spec => []OutcomeInv
<1>1. Init => OutcomeInv
  BY InitOutcome
<1>2. ElectionInv /\ OutcomeInv /\ [Next]_vars => OutcomeInv'
  BY OutcomeStep
<1>3. QED
  BY <1>1, <1>2, ElectionAlwaysInv, PTL DEF Spec
---------------------------------------------------------------------------
(* No election is opened without a sealed roster in its chain, however     *)
(* sealRoster, openElection and other checkpoints interleave and die.      *)
THEOREM OpenedOnlySealed == Spec => []SealedBeforeOpen
<1>1. OutcomeInv => SealedBeforeOpen
  BY DEF OutcomeInv
<1>2. QED
  BY <1>1, OutcomeAlwaysInv, PTL

(* Every FINAL and RESULTS checkpoint certifies all the ballots of the     *)
(* closing, in whatever chunks they were read while late ones arrived.     *)
THEOREM ClosingCertified == Spec => []FinalCoversVoting
<1>1. OutcomeInv => FinalCoversVoting
  BY DEF OutcomeInv
<1>2. QED
  BY <1>1, OutcomeAlwaysInv, PTL

(* No vote of the closing is lost by openAndCount, whichever of several    *)
(* racing counts publishes and whenever the candidates were replaced.      *)
THEOREM NoTimelyVoteLost == Spec => []TimelyVotesCounted
<1>1. OutcomeInv => TimelyVotesCounted
  BY DEF OutcomeInv
<1>2. QED
  BY <1>1, OutcomeAlwaysInv, PTL

(* If the closing held a vote for a listed candidate, the results are      *)
(* those of one count: the unique index refuses every other one.           *)
THEOREM OneCountPublished == Spec => []ResultsFromOneCount
<1>1. OutcomeInv => ResultsFromOneCount
  BY DEF OutcomeInv
<1>2. QED
  BY <1>1, OutcomeAlwaysInv, PTL
---------------------------------------------------------------------------
(* Seen from its tables the election is a BallotBox: each step of a        *)
(* handler is one of its operations, or changes none of them.              *)

LEMMA BoxStutter ==
  ASSUME UNCHANGED <<dataVars, status, candidate, hasVoted, closedBox, approval>>
  PROVE  UNCHANGED Box!boxVars
BY DEF Box!boxVars, dataVars

LEMMA CastIsVote ==
  ASSUME ElectionInv, OutcomeInv, NEW r \in Requests, CastCommit(r)
  PROVE  Box!Next
<1> DEFINE v == req[r].voter
           choice == req[r].vote
<1>1. req[r] \in CastReq /\ CastSound(req[r])
  BY Shape DEF CastCommit, ElectionInv, TypeOK, OutcomeInv, HandlersSound, HandlerSound
<1>2. v \in Voters /\ choice \in Box!Choices
  BY <1>1, VotesAssumption DEF CastReq, Box!Choices
<1>3. status # "DRAFT"
  BY <1>1 DEF CastSound, CastCommit
<1>4. PICK id \in BallotIds :
        /\ \A b \in ballot : b.id # id
        /\ ballot' = ballot \cup {[id |-> id, vote |-> choice]}
  BY DEF CastCommit
<1>5. id \in BallotIds \ {b.id : b \in ballot}
  BY <1>4
<1>6. /\ v \in roster \ hasVoted /\ hasVoted' = hasVoted \cup {v}
      /\ UNCHANGED <<status, candidate, roster, closedBox, approval, tallyResult, invalidVotes>>
  BY DEF CastCommit, MayVote
<1> HIDE DEF v, choice
<1>7. Box!Vote(v, choice)
  BY <1>3, <1>4, <1>5, <1>6 DEF Box!Vote
<1>8. QED
  BY <1>2, <1>7 DEF Box!Next

LEMMA ImportIsRegister ==
  ASSUME ElectionInv, NEW r \in Requests, ImportChunk(r)
  PROVE  Box!Next
<1>1. req[r] \in ImportReq
  BY Shape DEF ImportChunk, ElectionInv, TypeOK
<1>2. roster \subseteq roster' /\ roster' \subseteq Voters
  BY <1>1 DEF ImportChunk, ImportReq, ElectionInv, ChainInv, ChainTypeOK
<1>3. Box!Register
  BY <1>2 DEF ImportChunk, Box!Register
<1>4. QED
  BY <1>3 DEF Box!Next

LEMMA OpenIsOpen ==
  ASSUME OutcomeInv, NEW r \in Requests, OpenUpdate(r)
  PROVE  Box!Next \/ UNCHANGED Box!boxVars
<1>1. roster # {}
  BY DEF OpenUpdate, OutcomeInv, HandlersSound, HandlerSound, OpenSound
<1>2. CASE status = "DRAFT"
  <2>1. Box!Open
    BY <1>1, <1>2 DEF OpenUpdate, chainVars, Box!Open
  <2>2. QED
    BY <2>1 DEF Box!Next
<1>3. CASE status # "DRAFT"
  BY <1>3, BoxStutter DEF OpenUpdate, chainVars, dataVars
<1>4. QED
  BY <1>2, <1>3

LEMMA CloseIsClose ==
  ASSUME NEW r \in Requests, CloseUpdate(r)
  PROVE  Box!Next
<1>1. Box!Close
  BY DEF CloseUpdate, chainVars, Box!Close
<1>2. QED
  BY <1>1 DEF Box!Next

LEMMA ApproveIsApprove ==
  ASSUME ElectionInv, NEW r \in Requests, TallyApprove(r)
  PROVE  Box!Next
<1>1. req[r] \in CheckReq /\ ReqSound(req[r]) /\ req[r].pc = "tally.check"
  BY Shape DEF TallyApprove, IntegrityKnown, ElectionInv, TypeOK, ReqsSound
<1>2. req[r].admin \in Admins /\ status \in {"CLOSED", "TALLIED"}
  BY <1>1 DEF CheckReq, ReqSound, TallyPcs
<1>3. Box!Approve(req[r].admin)
  BY <1>2 DEF TallyApprove, chainVars, Box!Approve
<1>4. QED
  BY <1>2, <1>3 DEF Box!Next

LEMMA ReplaceIsReplace ==
  ASSUME ElectionInv, OutcomeInv, NEW r \in Requests, CandidatesReplace(r)
  PROVE  Box!Next
<1>1. /\ UNCHANGED <<status, roster, hasVoted, ballot, closedBox, approval, invalidVotes>>
      /\ tallyResult' = {IF row.candidateId \in candidate
                           THEN [row EXCEPT !.candidateId = Abstain] ELSE row :
                         row \in tallyResult}
  BY DEF CandidatesReplace
<1>2. ASSUME NEW row \in tallyResult
      PROVE  (IF row.candidateId \in candidate THEN [row EXCEPT !.candidateId = Abstain] ELSE row)
             = [row EXCEPT !.candidateId = IF row.candidateId \in candidate THEN Abstain
                                           ELSE row.candidateId]
  <2>1. row \in TallyRow
    BY DEF ElectionInv, ChainInv, ChainTypeOK
  <2>2. QED
    BY <2>1 DEF TallyRow
<1>3. tallyResult' = {[row EXCEPT !.candidateId = IF row.candidateId \in candidate THEN Abstain
                                                  ELSE row.candidateId] : row \in tallyResult}
  BY <1>1, <1>2
<1>4. Box!Replace(candidate')
  BY <1>1, <1>3, NewList DEF Box!Replace
<1>5. QED
  BY <1>4, NewList DEF Box!Next

LEMMA BoxCardinality == \A S : Box!Cardinality(S) = Cardinality(S)
BY DEF Cardinality, Box!Cardinality

(* What openAndCount publishes is the exact count of all ballots of the    *)
(* closing and of some late ones, for choices that are listed by then.     *)
LEMMA PublishIsPublish ==
  ASSUME ElectionInv, OutcomeInv, NEW r \in Requests, TallyPublish(r)
  PROVE  Box!Next
<1> DEFINE a        == req[r].admin
           late     == req[r].opened \ closedBox
           known    == req[r].valid \cap candidate
           counted  == closedBox \cup late
           accepted == {b \in counted : b.vote \in known \cup {Abstain}}
           rows     == {[id |-> <<a, b.vote>>, candidateId |-> b.vote,
                         votes |-> Cardinality({c \in counted : c.vote = b.vote})] : b \in accepted}
<1>1. /\ req[r] \in CountReq /\ Past /\ EnoughApprovals /\ a \in approval /\ a \in Admins
      /\ closedBox \subseteq req[r].opened /\ req[r].opened \subseteq ballot
  BY CountAtPublish DEF TallyPublish, CountReq
<1>2. /\ RowsAllowed(NewRows(r)) /\ tallyResult' = tallyResult \cup NewRows(r)
      /\ invalidVotes' = Cardinality(Damaged(r)) /\ status' = "TALLIED"
      /\ UNCHANGED <<candidate, roster, hasVoted, ballot, closedBox, approval>>
  BY DEF TallyPublish
<1>3. counted = req[r].opened /\ late \in SUBSET (ballot \ closedBox) /\ known \in SUBSET candidate
  BY <1>1
<1>4. Counted(r) = accepted
  <2>1. ASSUME NEW b \in Counted(r) PROVE b.vote = Abstain \/ b.vote \in candidate
    <3>1. b \in req[r].opened /\ b.vote \in req[r].valid \cup {Abstain}
      BY DEF Counted
    <3>2. PICK row \in NewRows(r) : row.candidateId = b.vote
      BY <3>1, RowOfVote
    <3>3. QED
      BY <1>2, <3>2 DEF RowsAllowed
  <2>2. QED
    BY <1>3, <2>1 DEF Counted
<1>5. Damaged(r) = counted \ accepted
  BY <1>3, <1>4 DEF Damaged
<1>6. NewRows(r) = rows
  <2>1. ASSUME NEW b \in Counted(r)
        PROVE  VotesFor(Counted(r), b.vote) = {c \in counted : c.vote = b.vote}
    BY <1>3, <2>1 DEF VotesFor, Counted
  <2>2. NewRows(r) = {[id |-> <<a, b.vote>>, candidateId |-> b.vote,
                       votes |-> Cardinality(VotesFor(Counted(r), b.vote))] : b \in Counted(r)}
    BY DEF NewRows
  <2>3. QED
    BY <1>4, <2>1, <2>2
<1>7. /\ tallyResult' = tallyResult \cup rows
      /\ invalidVotes' = Cardinality(counted \ accepted)
  BY <1>2, <1>5, <1>6
<1>8. Box!Publish(a)
  <2> DEFINE P(l, k) ==
        LET opened == closedBox \cup l
            taken  == {b \in opened : b.vote \in k \cup {Abstain}}
        IN /\ tallyResult' = tallyResult \cup
                {[id |-> <<a, b.vote>>, candidateId |-> b.vote,
                  votes |-> Box!Cardinality({c \in opened : c.vote = b.vote})] : b \in taken}
           /\ invalidVotes' = Box!Cardinality(opened \ taken)
  <2>1. P(late, known)
    BY <1>7, BoxCardinality
  <2>2. Box!Cardinality(approval) >= Quorum
    BY <1>1, BoxCardinality DEF EnoughApprovals
  <2>3. \E l \in SUBSET (ballot \ closedBox), k \in SUBSET candidate : P(l, k)
    <3> HIDE DEF P, late, known
    <3>1. QED
      BY <1>3, <2>1
  <2> HIDE DEF a
  <2>4. QED
    BY <1>1, <1>2, <2>2, <2>3 DEF Box!Publish, Past
<1>9. QED
  BY <1>1, <1>8 DEF Box!Next

(* Of the steps of createCheckpoint the tables show nothing.               *)
LEMMA CheckpointIsStutter ==
  ASSUME NEW r \in Requests, CheckpointStep(r) \/ Crash(r)
  PROVE  UNCHANGED Box!boxVars
<1>1. ASSUME BeginCheckpoint(r) \/ EndCheckpoint(r) \/ AutoAnchor(r) \/ Crash(r)
      PROVE  UNCHANGED Box!boxVars
  BY <1>1, BoxStutter DEF BeginCheckpoint, Begin, EndCheckpoint, AutoAnchor, Crash, EndCall,
                          chainVars, dataVars
<1>2. CASE RunCheckpoint(r)
  <2>1. UNCHANGED dataVars /\ UNCHANGED ownVars
    BY <1>2 DEF RunCheckpoint, CallStep, ReadPrev, ScanBatch, ReadRoster, ReadRows, ReadInvalid,
                Insert, InsertConflict
  <2>2. QED
    BY <2>1, BoxStutter DEF ownVars
<1>3. QED
  BY <1>1, <1>2 DEF CheckpointStep

LEMMA BoxStep ==
  ASSUME ElectionInv, OutcomeInv, [Next]_vars
  PROVE  [Box!Next]_(Box!boxVars)
<1>1. ASSUME OnlyReq PROVE UNCHANGED Box!boxVars
  BY <1>1, BoxStutter DEF OnlyReq, chainVars, dataVars
<1>2. ASSUME NEW r \in Requests, Arrival(r) PROVE [Box!Next]_(Box!boxVars)
  BY <1>1, <1>2, CloseIsClose
     DEF Arrival, CastCheck, ImportCheck, CandidatesCheck, SealCheck, OpenCounts,
         CheckpointRoute, TallyCheck
<1>3. ASSUME NEW r \in Requests, VoterStep(r) \/ SetupStep(r) PROVE [Box!Next]_(Box!boxVars)
  BY <1>1, <1>3, CastIsVote, ImportIsRegister, ReplaceIsReplace
     DEF VoterStep, SetupStep, CastConflict, ImportSealCheck
<1>4. ASSUME NEW r \in Requests, LifecycleStep(r) PROVE [Box!Next]_(Box!boxVars)
  BY <1>1, <1>4, OpenIsOpen DEF LifecycleStep, SealAlready, SealCount, OpenReadSeal, OpenMatch
<1>5. ASSUME NEW r \in Requests, TallyStep(r) PROVE [Box!Next]_(Box!boxVars)
  BY <1>1, <1>5, ApproveIsApprove, PublishIsPublish
     DEF TallyStep, IntegrityRead, TallyRefuse, TallyQuorum, TallyClaim, TallyCandidates,
         TallyScan, TallyPublishFails
<1>6. CASE Tick
  BY <1>6, BoxStutter DEF Tick, chainVars, dataVars
<1>7. CASE UNCHANGED vars
  BY <1>7, BoxStutter DEF vars, chainVars, ownVars, dataVars
<1>8. QED
  BY <1>2, <1>3, <1>4, <1>5, <1>6, <1>7, CheckpointIsStutter DEF Next, Progress

(* The election implements BallotBox: whatever is interleaved, every voter *)
(* is marked together with one ballot, a status leads only to the next     *)
(* one, and a publication is the exact count of ballots of the box among   *)
(* which are all those of the closing.                                     *)
THEOREM ElectionImplementsBox == Spec => BoxSpec
<1>1. Init => Box!Init
  <2> SUFFICES ASSUME Init PROVE Box!Init
    OBVIOUS
  <2>1. candidate # {} /\ candidate \subseteq CandidateIds
    BY InitOutcome, ElectionInitInv DEF OutcomeInv, TablesSound, ElectionInv, TypeOK
  <2>2. QED
    BY <2>1 DEF Init, ChainInit, Box!Init
<1>2. ElectionInv /\ OutcomeInv /\ [Next]_vars => [Box!Next]_(Box!boxVars)
  BY BoxStep
<1>3. QED
  BY <1>1, <1>2, ElectionAlwaysInv, OutcomeAlwaysInv, PTL DEF Spec, BoxSpec, Box!Spec
===========================================================================
