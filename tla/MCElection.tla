---------------------------- MODULE MCElection ----------------------------
(***************************************************************************)
(* Small instances of Election.                                            *)
(***************************************************************************)
EXTENDS Election, TLC

CONSTANTS v1, v2, a1, a2, n1, r1, r2 \* model values

MCVotes  == CandidateIds \cup {Abstain, Garbage}
MCRowIds == Admins \X Votes
MCSymmetry == Permutations(Requests) \cup Permutations(Admins)

AllOps == {"cast", "import", "candidates", "seal", "open", "close", "checkpoint", "tally"}

(* An election that has been prepared without incident and has just been   *)
(* opened: roster imported and sealed, checkpoints 1 and 2 written.  The   *)
(* runs about voting and counting start here.  A request that passed its   *)
(* DRAFT check earlier may still be in flight.                             *)
MCBody(seq, kind, rosterHash) ==
  [seq |-> seq, kind |-> kind, ballotCount |-> 0, merkleRoot |-> {},
   rosterHash |-> rosterHash, resultsHash |-> Null]
MCSeal == MCBody(1, "ROSTER_SEALED", <<Voters>>)
MCOpen == MCBody(2, "BALLOTS", Null)

MCLeftOver == {Idle} \cup {[pc |-> "candidates", names |-> Names] : op \in Ops \cap {"candidates"}}

MCOpenedInit ==
  /\ roster = Voters
  /\ ballot = {}
  /\ tallyResult = {}
  /\ invalidVotes = 0
  /\ checkpoint = <<[body |-> MCSeal, prevHash |-> GENESIS, hash |-> <<MCSeal>>],
                    [body |-> MCOpen, prevHash |-> <<MCSeal>>, hash |-> <<MCSeal, MCOpen>>]>>
  /\ call = [r \in Requests |-> NoCall]
  /\ status = "OPEN"
  /\ clock = "during"
  /\ candidate = {1} \X Names
  /\ hasVoted = {}
  /\ approval = {}
  /\ anchored = {2}
  /\ \E r \in Requests, local \in MCLeftOver : req = [q \in Requests |->
                                                   IF q = r THEN local ELSE Idle]
  /\ closedBox = {}

MCOpenedSpec     == MCOpenedInit /\ [][Next]_vars
MCOpenedFairSpec == MCOpenedSpec /\ \A r \in Requests : WF_vars(Progress(r))
===========================================================================
