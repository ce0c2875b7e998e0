----------------------------- MODULE BallotBox -----------------------------
(***************************************************************************)
(* What an election promises to its voters and its admins, without         *)
(* requests, checkpoints or half-done work: each operation is one step.    *)
(* Election implements it.                                                 *)
(*                                                                         *)
(* It promises no more than the code keeps.  A vote that was admitted      *)
(* while the election was open may reach the box later; the list of        *)
(* candidates may change late, which takes the names off published rows;   *)
(* and a second count may add rows to the results.                         *)
(***************************************************************************)
EXTENDS Integers, FiniteSets

CONSTANTS Voters, Admins, BallotIds, CandidateIds, Abstain, Garbage, Quorum

VARIABLES
  stage,     \* DRAFT, OPEN, CLOSED or TALLIED
  listed,    \* the candidates
  roll,      \* who may vote
  voted,     \* who has voted
  box,       \* the ballots
  closing,   \* the ballots that were in the box when it was closed
  approved,  \* who has approved the tally
  results,   \* the published rows
  invalid    \* the published number of invalid votes

boxVars == <<stage, listed, roll, voted, box, closing, approved, results, invalid>>

Choices == CandidateIds \cup {Abstain, Garbage}

(* An election in preparation, or one that has just been opened.           *)
Init ==
  /\ stage \in {"DRAFT", "OPEN"}
  /\ listed \in (SUBSET CandidateIds) \ {{}}
  /\ roll \in SUBSET Voters
  /\ voted = {} /\ box = {} /\ closing = {} /\ approved = {} /\ results = {}
  /\ invalid = 0

Register ==
  /\ roll' \in SUBSET Voters
  /\ roll \subseteq roll'
  /\ UNCHANGED <<stage, listed, voted, box, closing, approved, results, invalid>>

Open ==
  /\ stage = "DRAFT" /\ roll # {}
  /\ stage' = "OPEN"
  /\ UNCHANGED <<listed, roll, voted, box, closing, approved, results, invalid>>

VoteAgain(v, choice) ==   \* by somebody who may have voted
  /\ stage # "DRAFT"
  /\ v \in roll
  /\ voted' = voted \cup {v}
  /\ \E id \in BallotIds \ {b.id : b \in box} :
       box' = box \cup {[id |-> id, vote |-> choice]}
  /\ UNCHANGED <<stage, listed, roll, closing, approved, results, invalid>>

(* A voter is marked and a ballot drops into the box, in one step; nothing *)
(* in the ballot says whose it is.                                         *)
Vote(v, choice) ==
  /\ stage # "DRAFT"
  /\ v \in roll \ voted
  /\ voted' = voted \cup {v}
  /\ \E id \in BallotIds \ {b.id : b \in box} :
       box' = box \cup {[id |-> id, vote |-> choice]}
  /\ UNCHANGED <<stage, listed, roll, closing, approved, results, invalid>>

Close ==
  /\ stage = "OPEN"
  /\ stage' = "CLOSED"
  /\ closing' = box
  /\ UNCHANGED <<listed, roll, voted, box, approved, results, invalid>>

Approve(a) ==
  /\ stage \in {"CLOSED", "TALLIED"}
  /\ a \notin approved
  /\ approved' = approved \cup {a}
  /\ UNCHANGED <<stage, listed, roll, voted, box, closing, results, invalid>>

(* The count takes every ballot of the closing and perhaps late ones.  It  *)
(* publishes the exact number of votes for each choice it accepts, all of  *)
(* them listed, and the number of all other ballots, on behalf of somebody *)
(* who approved.                                                           *)
Publish(a) ==
  /\ stage \in {"CLOSED", "TALLIED"}
  /\ Cardinality(approved) >= Quorum
  /\ a \in approved
  /\ \E late \in SUBSET (box \ closing), known \in SUBSET listed :
       LET counted  == closing \cup late
           accepted == {b \in counted : b.vote \in known \cup {Abstain}}
       IN /\ results' = results \cup
                {[id |-> <<a, b.vote>>, candidateId |-> b.vote,
                  votes |-> Cardinality({c \in counted : c.vote = b.vote})] : b \in accepted}
          /\ invalid' = Cardinality(counted \ accepted)
  /\ stage' = "TALLIED"
  /\ UNCHANGED <<listed, roll, voted, box, closing, approved>>

(* A new list, under new ids; published rows stay, without their name.     *)
Replace(list) ==
  /\ list # {} /\ list \cap listed = {}
  /\ listed' = list
  /\ results' = {[row EXCEPT !.candidateId = IF @ \in listed THEN Abstain ELSE @] : row \in results}
  /\ UNCHANGED <<stage, roll, voted, box, closing, approved, invalid>>

Next ==
  \/ Register \/ Open \/ Close
  \/ \E v \in Voters, choice \in Choices : Vote(v, choice)
  \/ \E a \in Admins : Approve(a) \/ Publish(a)
  \/ \E list \in SUBSET CandidateIds : Replace(list)

Spec == Init /\ [][Next]_boxVars
---------------------------------------------------------------------------
(* What holds of every box, as its users rely on: as many ballots as       *)
(* voters, and no published row says more than the box does, except one    *)
(* that has lost its name.                                                 *)
Stages     == {"DRAFT", "OPEN", "CLOSED", "TALLIED"}
ResultRows == [id : Admins \X Choices, candidateId : Choices, votes : Nat]

Ballots(choice) == Cardinality({b \in box : b.vote = choice})

RowsBacked(rows) ==
  \A row \in rows : row.candidateId \in CandidateIds => row.votes <= Ballots(row.candidateId)

BoxSound ==
  /\ stage \in Stages /\ listed \subseteq CandidateIds
  /\ box \subseteq [id : BallotIds, vote : Choices] /\ closing \subseteq box
  /\ IsFiniteSet(voted) /\ IsFiniteSet(box)
  /\ Cardinality(voted) = Cardinality(box)
  /\ results \subseteq ResultRows /\ invalid \in Nat
  /\ RowsBacked(results)
===========================================================================
