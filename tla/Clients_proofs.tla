--------------------------- MODULE Clients_proofs ---------------------------
(***************************************************************************)
(* What the two pages say is true of the box, and stays true, for any      *)
(* number of tabs, voters, admins and ballots, whatever the others do.     *)
(***************************************************************************)
EXTENDS Clients, FiniteSetTheorems, TLAPS
---------------------------------------------------------------------------
(* The box                                                                 *)

(* What every step does to the box, as the pages see it.                   *)
Grows ==
  /\ BoxSound /\ BoxSound'
  /\ box \subseteq box' /\ voted \subseteq voted'

LEMMA BallotsType ==
  ASSUME IsFiniteSet(box), NEW choice
  PROVE  IsFiniteSet({b \in box : b.vote = choice}) /\ Ballots(choice) \in Nat
<1>1. {b \in box : b.vote = choice} \in SUBSET box
  OBVIOUS
<1>2. QED
  BY <1>1, FS_Subset, FS_CardinalityType DEF Ballots

LEMMA BoxGrows ==
  ASSUME Grows, NEW choice
  PROVE  /\ Ballots(choice) \in Nat /\ Ballots(choice)' \in Nat
         /\ Ballots(choice) <= Ballots(choice)'
         /\ Cardinality(box) \in Nat /\ Cardinality(box') \in Nat
         /\ Cardinality(box) <= Cardinality(box')
<1> DEFINE these == {b \in box : b.vote = choice}
           those == {b \in box' : b.vote = choice}
<1>1. IsFiniteSet(box) /\ IsFiniteSet(box')
  BY DEF Grows, BoxSound
<1>2. these \in SUBSET those /\ those \in SUBSET box' /\ box \in SUBSET box'
  BY DEF Grows
<1>3. Ballots(choice) = Cardinality(these) /\ Ballots(choice)' = Cardinality(those)
  BY DEF Ballots
<1> HIDE DEF these, those
<1>4. QED
  BY <1>1, <1>2, <1>3, FS_Subset, FS_CardinalityType

LEMMA StillBacked ==
  ASSUME Grows, NEW rows, rows \subseteq ResultRows, RowsBacked(rows)
  PROVE  RowsBacked(rows)'
<1>1. ASSUME NEW row \in rows, row.candidateId \in CandidateIds
      PROVE  row.votes <= Ballots(row.candidateId)'
  <2>1. row.votes \in Nat /\ row.votes <= Ballots(row.candidateId)
    BY <1>1 DEF RowsBacked, ResultRows
  <2>2. QED
    BY <2>1, BoxGrows
<1>2. QED
  BY <1>1 DEF RowsBacked

(* Casting marks one voter and adds one ballot, for the choice that was    *)
(* sent.                                                                   *)
LEMMA VoteAdds ==
  ASSUME BoxSound, NEW v, NEW choice \in Choices, Vote(v, choice)
  PROVE  /\ Grows
         /\ v \notin voted /\ voted' = voted \cup {v}
         /\ Ballots(choice)' = Ballots(choice) + 1
<1>1. PICK id \in BallotIds \ {b.id : b \in box} : box' = box \cup {[id |-> id, vote |-> choice]}
  BY DEF Vote
<1> DEFINE ballot == [id |-> id, vote |-> choice]
           these  == {b \in box : b.vote = choice}
<1>2. /\ ballot \notin box /\ ballot.vote = choice /\ ballot \in [id : BallotIds, vote : Choices]
      /\ box' = box \cup {ballot}
  BY <1>1
<1>3. /\ v \notin voted /\ voted' = voted \cup {v}
      /\ UNCHANGED <<stage, listed, closing, results, invalid>>
  BY DEF Vote
<1> HIDE DEF ballot
<1>4. {b \in box' : b.vote = choice} = these \cup {ballot} /\ ballot \notin these
  BY <1>2
<1>5. IsFiniteSet(box) /\ IsFiniteSet(voted) /\ IsFiniteSet(these) /\ Ballots(choice) = Cardinality(these)
  BY BallotsType DEF BoxSound, Ballots
<1>6. Ballots(choice)' = Cardinality({b \in box' : b.vote = choice})
  BY DEF Ballots
<1>7. Ballots(choice)' = Ballots(choice) + 1
  BY <1>4, <1>5, <1>6, FS_AddElement
<1>8. /\ IsFiniteSet(box') /\ IsFiniteSet(voted')
      /\ Cardinality(voted') = Cardinality(box')
  <2>1. IsFiniteSet(box') /\ Cardinality(box') = Cardinality(box) + 1
    BY <1>2, <1>5, FS_AddElement
  <2>2. IsFiniteSet(voted') /\ Cardinality(voted') = Cardinality(voted) + 1
    BY <1>3, <1>5, FS_AddElement
  <2>3. QED
    BY <2>1, <2>2 DEF BoxSound
<1>9. RowsBacked(results)'
  <2>1. ASSUME NEW row \in results, row.candidateId \in CandidateIds
        PROVE  row.votes <= Ballots(row.candidateId)'
    <3> DEFINE mine == {b \in box : b.vote = row.candidateId}
               ours == {b \in box' : b.vote = row.candidateId}
    <3>1. row.votes \in Nat /\ row.votes <= Ballots(row.candidateId)
      BY <2>1 DEF BoxSound, RowsBacked, ResultRows
    <3>2. mine \in SUBSET ours /\ IsFiniteSet(ours) /\ IsFiniteSet(mine)
      BY <1>2, <1>8, <1>5, BallotsType, FS_Subset
    <3>3. Ballots(row.candidateId) = Cardinality(mine) /\ Ballots(row.candidateId)' = Cardinality(ours)
      BY DEF Ballots
    <3> HIDE DEF mine, ours
    <3>4. QED
      BY <3>1, <3>2, <3>3, FS_Subset, FS_CardinalityType
  <2>2. QED
    BY <1>3, <2>1 DEF RowsBacked
<1>10. BoxSound'
  BY <1>2, <1>3, <1>8, <1>9 DEF BoxSound
<1>11. QED
  BY <1>2, <1>3, <1>7, <1>10 DEF Grows

(* The published rows are exact, so the box backs them.                    *)
LEMMA PublishSound ==
  ASSUME BoxSound, NEW a \in Admins, Publish(a)
  PROVE  BoxSound'
<1>1. PICK late \in SUBSET (box \ closing), known \in SUBSET listed :
        LET counted  == closing \cup late
            accepted == {b \in counted : b.vote \in known \cup {Abstain}}
        IN /\ results' = results \cup
                 {[id |-> <<a, b.vote>>, candidateId |-> b.vote,
                   votes |-> Cardinality({c \in counted : c.vote = b.vote})] : b \in accepted}
           /\ invalid' = Cardinality(counted \ accepted)
  BY DEF Publish
<1> DEFINE counted  == closing \cup late
           accepted == {b \in counted : b.vote \in known \cup {Abstain}}
           row(b)   == [id |-> <<a, b.vote>>, candidateId |-> b.vote,
                        votes |-> Cardinality({c \in counted : c.vote = b.vote})]
<1>2. /\ results' = results \cup {row(b) : b \in accepted}
      /\ invalid' = Cardinality(counted \ accepted)
  BY <1>1
<1>3. stage' = "TALLIED" /\ UNCHANGED <<listed, voted, box, closing>>
  BY DEF Publish
<1>4. counted \subseteq box /\ IsFiniteSet(box) /\ accepted \subseteq counted
  BY DEF BoxSound
<1>5. counted \ accepted \in SUBSET box
  BY <1>4
<1> HIDE DEF counted, accepted
<1>6. invalid' \in Nat
  BY <1>2, <1>4, <1>5, FS_Subset, FS_CardinalityType
<1>7. ASSUME NEW b \in accepted
      PROVE  row(b) \in ResultRows /\ row(b).candidateId = b.vote /\ row(b).votes <= Ballots(b.vote)
  <2> DEFINE here  == {c \in counted : c.vote = b.vote}
             there == {c \in box : c.vote = b.vote}
  <2>1. b.vote \in Choices
    BY <1>4 DEF BoxSound
  <2>2. here \in SUBSET there /\ IsFiniteSet(there) /\ Ballots(b.vote) = Cardinality(there)
    BY <1>4, BallotsType DEF Ballots
  <2> HIDE DEF here, there
  <2>3. Cardinality(here) \in Nat /\ Cardinality(here) <= Ballots(b.vote)
    BY <2>2, FS_Subset, FS_CardinalityType
  <2>4. row(b) = [id |-> <<a, b.vote>>, candidateId |-> b.vote, votes |-> Cardinality(here)]
    BY DEF here
  <2>5. QED
    BY <2>1, <2>3, <2>4 DEF ResultRows
<1> HIDE DEF row
<1>8. results' \subseteq ResultRows
  BY <1>2, <1>7 DEF BoxSound
<1>9. \A x \in results' : x.candidateId \in CandidateIds => x.votes <= Ballots(x.candidateId)
  BY <1>2, <1>7 DEF BoxSound, RowsBacked
<1>10. \A choice : Ballots(choice)' = Ballots(choice)
  BY <1>3 DEF Ballots
<1>11. RowsBacked(results)'
  BY <1>9, <1>10 DEF RowsBacked
<1>12. QED
  BY <1>3, <1>6, <1>8, <1>11 DEF BoxSound, Stages

(* A row that has lost its name says nothing of a candidate.               *)
LEMMA ReplaceSound ==
  ASSUME BoxSound, NEW list \in SUBSET CandidateIds, Replace(list)
  PROVE  BoxSound'
<1> DEFINE new(row) == [row EXCEPT !.candidateId = IF @ \in listed THEN Abstain ELSE @]
<1>1. results' = {new(row) : row \in results} /\ listed' = list
      /\ UNCHANGED <<stage, voted, box, closing, invalid>>
  BY DEF Replace
<1>2. ASSUME NEW row \in results
      PROVE  /\ new(row) \in ResultRows
             /\ new(row).candidateId \in CandidateIds => new(row).votes <= Ballots(new(row).candidateId)
  <2>1. row \in ResultRows /\ (row.candidateId \in CandidateIds => row.votes <= Ballots(row.candidateId))
    BY DEF BoxSound, RowsBacked
  <2>2. CASE row.candidateId \in listed
    <3>1. new(row) = [row EXCEPT !.candidateId = Abstain]
      BY <2>2
    <3>2. QED
      BY <2>1, <3>1, NamesAssumption DEF ResultRows, Choices
  <2>3. CASE row.candidateId \notin listed
    <3>1. new(row) = row
      BY <2>1, <2>3 DEF ResultRows
    <3>2. QED
      BY <2>1, <3>1
  <2>4. QED
    BY <2>2, <2>3
<1> HIDE DEF new
<1>3. results' \subseteq ResultRows
  BY <1>1, <1>2
<1>4. \A choice : Ballots(choice)' = Ballots(choice)
  BY <1>1 DEF Ballots
<1>5. RowsBacked(results)'
  BY <1>1, <1>2, <1>4 DEF RowsBacked
<1>6. QED
  BY <1>1, <1>3, <1>5 DEF BoxSound

LEMMA BoxStep ==
  ASSUME BoxSound, [Next]_boxVars
  PROVE  Grows
<1>1. ASSUME UNCHANGED <<voted, box, results, invalid>>, stage' \in Stages,
             listed' = listed, closing' \subseteq box
      PROVE  Grows
  <2>1. \A choice : Ballots(choice)' = Ballots(choice)
    BY <1>1 DEF Ballots
  <2>2. RowsBacked(results)'
    BY <1>1, <2>1 DEF RowsBacked, BoxSound
  <2>3. QED
    BY <1>1, <2>2 DEF BoxSound, Grows
<1>2. CASE Register
  BY <1>1, <1>2 DEF Register, BoxSound
<1>3. CASE Open
  BY <1>1, <1>3 DEF Open, BoxSound, Stages
<1>4. CASE Close
  BY <1>1, <1>4 DEF Close, BoxSound, Stages
<1>5. CASE \E v \in Voters, choice \in Choices : Vote(v, choice)
  BY <1>5, VoteAdds
<1>6. CASE \E a \in Admins : Approve(a)
  BY <1>1, <1>6 DEF Approve, BoxSound
<1>7. CASE \E a \in Admins : Publish(a)
  BY <1>7, PublishSound DEF Publish, Grows
<1>8. CASE \E list \in SUBSET CandidateIds : Replace(list)
  BY <1>8, ReplaceSound DEF Replace, Grows
<1>9. CASE UNCHANGED boxVars
  BY <1>1, <1>9 DEF boxVars, BoxSound
<1>10. QED
  BY <1>2, <1>3, <1>4, <1>5, <1>6, <1>7, <1>8, <1>9 DEF Next
---------------------------------------------------------------------------
(* The voters' page                                                        *)

(* Boxes that grow keep what the tabs say true.                            *)
LEMMA ClaimsKept ==
  ASSUME Grows, UNCHANGED tab,
         \A choice \in Choices : Cardinality(Claims(choice)) <= Ballots(choice)
  PROVE  \A choice \in Choices : Cardinality(Claims(choice)') <= Ballots(choice)'
<1>1. ASSUME NEW choice \in Choices
      PROVE  Cardinality(Claims(choice)') <= Ballots(choice)'
  <2>1. Claims(choice)' = Claims(choice) /\ Claims(choice) \in SUBSET Tabs
    BY DEF Claims
  <2>2. Cardinality(Claims(choice)) \in Nat
    BY <2>1, TabsAssumption, FS_Subset, FS_CardinalityType
  <2>3. QED
    BY <2>1, <2>2, BoxGrows
<1>2. QED
  BY <1>1

LEMMA VoterFrame ==
  ASSUME VoterInv, Grows, UNCHANGED <<tab, receipts>>, orphan' \subseteq orphan
  PROVE  VoterInv'
<1>1. \A choice \in Choices : Cardinality(Claims(choice)') <= Ballots(choice)'
  BY ClaimsKept DEF VoterInv
<1>2. (\A t \in Tabs : TabSound(tab[t]))'
  BY DEF VoterInv
<1>3. ReceiptsSound' /\ OneReceipt'
  BY DEF VoterInv, ReceiptsSound, OneReceipt, Grows
<1>4. QED
  BY <1>1, <1>2, <1>3 DEF VoterInv

(* A tab that makes no claim it did not make before.                       *)
LEMMA ClaimsShrink ==
  ASSUME VoterInv, BoxSound, UNCHANGED box,
         NEW t \in Tabs, NEW l \in Tab, tab' = [tab EXCEPT ![t] = l],
         l.cast \/ l.step = "done" =>
           (tab[t].cast \/ tab[t].step = "done") /\ l.picked = tab[t].picked
  PROVE  \A choice \in Choices : Cardinality(Claims(choice)') <= Ballots(choice)'
<1>1. ASSUME NEW choice \in Choices
      PROVE  Cardinality(Claims(choice)') <= Ballots(choice)'
  <2> DEFINE old == Claims(choice)
             new == Claims(choice)'
  <2>1. new \in SUBSET old /\ old \in SUBSET Tabs
    BY DEF Claims, VoterInv
  <2>2. Ballots(choice)' = Ballots(choice) /\ Ballots(choice) \in Nat
    BY BallotsType DEF Ballots, BoxSound
  <2>3. Cardinality(old) <= Ballots(choice)
    BY DEF VoterInv
  <2> HIDE DEF old, new
  <2>4. IsFiniteSet(old) /\ Cardinality(new) <= Cardinality(old)
    BY <2>1, TabsAssumption, FS_Subset
  <2>5. Cardinality(old) \in Nat /\ Cardinality(new) \in Nat
    BY <2>1, <2>4, FS_Subset, FS_CardinalityType
  <2>6. QED
    BY <2>2, <2>3, <2>4, <2>5 DEF new
<1>2. QED
  BY <1>1

LEMMA TabsSound ==
  ASSUME VoterInv, NEW t \in Tabs, NEW l \in Tab, TabSound(l), tab' = [tab EXCEPT ![t] = l]
  PROVE  tab' \in [Tabs -> Tab] /\ (\A u \in Tabs : TabSound(tab[u]))'
<1>1. tab \in [Tabs -> Tab] /\ tab' \in [Tabs -> Tab]
  BY DEF VoterInv
<1>2. ASSUME NEW u \in Tabs PROVE TabSound(tab'[u])
  BY <1>1 DEF VoterInv
<1>3. QED
  BY <1>1, <1>2 DEF TabSound

(* Everything a page does by itself.                                       *)
LEMMA TabStep ==
  ASSUME VoterInv, BoxSound, UNCHANGED <<boxVars, receipts>>, orphan' \subseteq Voters \X Choices,
         NEW t \in Tabs, NEW l \in Tab, tab' = [tab EXCEPT ![t] = l], TabSound(l),
         l.cast => tab[t].cast /\ l.sent = tab[t].sent,
         l.cast \/ l.step = "done" =>
           (tab[t].cast \/ tab[t].step = "done") /\ l.picked = tab[t].picked
  PROVE  VoterInv'
<1>1. tab' \in [Tabs -> Tab] /\ (\A u \in Tabs : TabSound(tab[u]))'
  BY TabsSound
<1>2. \A choice \in Choices : Cardinality(Claims(choice)') <= Ballots(choice)'
  BY ClaimsShrink DEF boxVars
<1>3. UNCHANGED <<receipts, voted>>
  BY DEF boxVars
<1>4. OneReceipt'
  BY <1>3 DEF VoterInv, OneReceipt
<1>5. \A u \in Tabs : tab'[u].cast => tab[u].cast /\ tab'[u].sent = tab[u].sent
  BY DEF VoterInv
<1>6. ReceiptsSound'
  BY <1>3, <1>5 DEF VoterInv, ReceiptsSound
<1>7. QED
  BY <1>1, <1>2, <1>3, <1>4, <1>6 DEF VoterInv

(* What a tab holds.                                                       *)
LEMMA TabFields ==
  ASSUME VoterInv, NEW t \in Tabs
  PROVE  /\ tab[t] \in Tab /\ TabSound(tab[t])
         /\ tab[t].step \in Steps /\ tab[t].candidates \in SUBSET CandidateIds
         /\ tab[t].methods \in BOOLEAN /\ tab[t].tx \in BOOLEAN /\ tab[t].cast \in BOOLEAN
         /\ tab[t].picked \in Choices \cup {NoPick} /\ tab[t].token \in Voters \cup {NoVoter}
         /\ tab[t].sent \in Sent
         /\ tab[t].sent # <<>> => tab[t].sent \in Voters \X Choices
BY DEF VoterInv, Tab, Sent

(* The page moves on, between its requests or with one that changes        *)
(* nothing in the box.                                                     *)
LEMMA PageMoves ==
  ASSUME VoterInv, BoxSound, NEW t \in Tabs,
         \/ LoadElection(t) \/ LoadMethods(t) \/ IdentityBegin(t) \/ RequestOtp(t)
         \/ \E v \in Voters : IdentityComplete(t, v) \/ VerifyOtp(t, v)
         \/ IdentityRefused(t)
         \/ \E choice \in Choices : setPicked(t, choice)
         \/ Chosen(t) \/ ChooseAgain(t) \/ Submit(t)
  PROVE  VoterInv'
<1>1. /\ tab[t] \in Tab /\ TabSound(tab[t]) /\ orphan \subseteq Voters \X Choices
      /\ tab[t].sent # <<>> => tab[t].step = "confirm"
  BY TabFields DEF VoterInv, TabSound
<1>2. ASSUME NEW l \in Tab, tab' = [tab EXCEPT ![t] = l], TabSound(l), OnlyTab,
             l.cast => tab[t].cast /\ l.sent = tab[t].sent,
             l.cast \/ l.step = "done" =>
               (tab[t].cast \/ tab[t].step = "done") /\ l.picked = tab[t].picked
      PROVE  VoterInv'
  BY <1>1, <1>2, TabStep DEF OnlyTab
<1>3. CASE LoadElection(t)
  <2> DEFINE l == [tab[t] EXCEPT !.step = "identify", !.candidates = listed]
  <2>1. l \in Tab /\ TabSound(l) /\ ~l.cast /\ l.step # "done"
    BY <1>1, <1>3, TabFields DEF LoadElection, At, busy, Tab, TabSound, Steps, BoxSound
  <2>2. tab' = [tab EXCEPT ![t] = l] /\ OnlyTab
    BY <1>3 DEF LoadElection
  <2>3. QED
    BY <1>2, <2>1, <2>2
<1>4. CASE LoadMethods(t)
  <2> DEFINE l == [tab[t] EXCEPT !.methods = TRUE]
  <2>1. /\ l \in Tab /\ TabSound(l) /\ l.cast = tab[t].cast /\ l.sent = tab[t].sent
        /\ l.step = tab[t].step /\ l.picked = tab[t].picked
    BY <1>1, TabFields DEF Tab, TabSound
  <2>2. tab' = [tab EXCEPT ![t] = l] /\ OnlyTab
    BY <1>4 DEF LoadMethods
  <2>3. QED
    BY <1>2, <2>1, <2>2
<1>5. CASE IdentityBegin(t)
  <2> DEFINE l == [tab[t] EXCEPT !.step = "idcheck", !.tx = TRUE]
  <2>1. l \in Tab /\ TabSound(l) /\ ~l.cast /\ l.step # "done"
    BY <1>1, <1>5, TabFields DEF IdentityBegin, At, busy, Tab, TabSound, Steps
  <2>2. tab' = [tab EXCEPT ![t] = l] /\ OnlyTab
    BY <1>5 DEF IdentityBegin
  <2>3. QED
    BY <1>2, <2>1, <2>2
<1>6. CASE RequestOtp(t)
  <2> DEFINE l == [tab[t] EXCEPT !.step = "otp"]
  <2>1. l \in Tab /\ TabSound(l) /\ ~l.cast /\ l.step # "done"
    BY <1>1, <1>6, TabFields DEF RequestOtp, At, busy, Tab, TabSound, Steps
  <2>2. tab' = [tab EXCEPT ![t] = l] /\ OnlyTab
    BY <1>6 DEF RequestOtp
  <2>3. QED
    BY <1>2, <2>1, <2>2
<1>7. CASE \E v \in Voters : IdentityComplete(t, v) \/ VerifyOtp(t, v)
  <2>1. PICK v \in Voters : IdentityComplete(t, v) \/ VerifyOtp(t, v)
    BY <1>7
  <2> DEFINE l == [tab[t] EXCEPT !.step = "ballot", !.token = v, !.tx = FALSE]
  <2>2. l \in Tab /\ TabSound(l) /\ ~l.cast /\ l.step # "done"
    BY <1>1, <2>1, TabFields DEF IdentityComplete, VerifyOtp, At, busy, Tab, TabSound, Steps
  <2>3. tab' = [tab EXCEPT ![t] = l] /\ OnlyTab
    BY <2>1 DEF IdentityComplete, VerifyOtp, Authenticated
  <2>4. QED
    BY <1>2, <2>2, <2>3
<1>8. CASE IdentityRefused(t)
  <2> DEFINE l == [tab[t] EXCEPT !.tx = FALSE]
  <2>1. l \in Tab /\ TabSound(l) /\ ~l.cast /\ l.step # "done"
    BY <1>1, <1>8, TabFields DEF IdentityRefused, At, busy, Tab, TabSound
  <2>2. tab' = [tab EXCEPT ![t] = l] /\ OnlyTab
    BY <1>8 DEF IdentityRefused
  <2>3. QED
    BY <1>2, <2>1, <2>2
<1>9. CASE \E choice \in Choices : setPicked(t, choice)
  <2>1. PICK choice \in Choices : setPicked(t, choice)
    BY <1>9
  <2> DEFINE l == [tab[t] EXCEPT !.picked = choice]
  <2>2. l \in Tab /\ TabSound(l) /\ ~l.cast /\ l.step # "done"
    BY <1>1, <2>1, TabFields DEF setPicked, Tab, TabSound
  <2>3. tab' = [tab EXCEPT ![t] = l] /\ OnlyTab
    BY <2>1 DEF setPicked
  <2>4. QED
    BY <1>2, <2>2, <2>3
<1>10. CASE Chosen(t)
  <2> DEFINE l == [tab[t] EXCEPT !.step = "confirm"]
  <2>1. l \in Tab /\ TabSound(l) /\ ~l.cast /\ l.step # "done"
    BY <1>1, <1>10, TabFields DEF Chosen, At, busy, Tab, TabSound, Steps
  <2>2. tab' = [tab EXCEPT ![t] = l] /\ OnlyTab
    BY <1>10 DEF Chosen
  <2>3. QED
    BY <1>2, <2>1, <2>2
<1>11. CASE ChooseAgain(t)
  <2> DEFINE l == [tab[t] EXCEPT !.step = "ballot"]
  <2>1. l \in Tab /\ TabSound(l) /\ ~l.cast /\ l.step # "done"
    BY <1>1, <1>11, TabFields DEF ChooseAgain, At, busy, Tab, TabSound, Steps
  <2>2. tab' = [tab EXCEPT ![t] = l] /\ OnlyTab
    BY <1>11 DEF ChooseAgain
  <2>3. QED
    BY <1>2, <2>1, <2>2
<1>12. CASE Submit(t)
  <2> DEFINE l == [tab[t] EXCEPT !.sent = <<tab[t].token, tab[t].picked>>]
  <2>1. tab[t].token \in Voters /\ tab[t].picked \in Choices /\ tab[t].step = "confirm" /\ ~tab[t].cast
    BY <1>1, <1>12, TabFields DEF Submit, At, busy, TabSound
  <2>2. l \in Tab /\ TabSound(l) /\ ~l.cast /\ l.step # "done"
    BY <1>1, <2>1, TabFields DEF Tab, TabSound, Sent
  <2>3. tab' = [tab EXCEPT ![t] = l] /\ OnlyTab
    BY <1>12 DEF Submit
  <2>4. QED
    BY <1>2, <2>2, <2>3
<1>13. QED
  BY <1>3, <1>4, <1>5, <1>6, <1>7, <1>8, <1>9, <1>10, <1>11, <1>12

(* The page stops waiting: what it sent may arrive all the same.           *)
LEMMA PageGivesUp ==
  ASSUME VoterInv, BoxSound, NEW t \in Tabs, SubmitFails(t) \/ Reload(t)
  PROVE  VoterInv'
<1>1. tab[t] \in Tab /\ TabSound(tab[t]) /\ orphan \subseteq Voters \X Choices
  BY TabFields DEF VoterInv
<1>2. Abandoned(t) \subseteq Voters \X Choices
  BY TabFields DEF Abandoned, busy
<1>3. orphan' \subseteq Voters \X Choices /\ UNCHANGED <<boxVars, receipts>>
  BY <1>1, <1>2 DEF SubmitFails, Reload, Abandon
<1>4. CASE SubmitFails(t)
  <2> DEFINE l == [tab[t] EXCEPT !.sent = <<>>, !.cast = FALSE]
  <2>1. l \in Tab /\ TabSound(l) /\ ~l.cast /\ l.step # "done"
    BY <1>1, <1>4, TabFields DEF SubmitFails, busy, Tab, TabSound, Sent
  <2>2. tab' = [tab EXCEPT ![t] = l]
    BY <1>4 DEF SubmitFails
  <2>3. QED
    BY <1>3, <2>1, <2>2, TabStep
<1>5. CASE Reload(t)
  <2>1. NewTab \in Tab /\ TabSound(NewTab) /\ ~NewTab.cast /\ NewTab.step # "done"
    BY DEF NewTab, Tab, TabSound, Sent, Steps
  <2>2. QED
    BY <1>3, <1>5, <2>1, TabStep DEF Reload
<1>6. QED
  BY <1>4, <1>5

(* The server takes the ballot: one more claim, one more ballot.           *)
LEMMA CastKeeps ==
  ASSUME VoterInv, BoxSound, NEW t \in Tabs, Cast(t)
  PROVE  VoterInv' /\ BoxSound'
<1> DEFINE v      == tab[t].sent[1]
           choice == tab[t].sent[2]
<1>1. /\ tab[t] \in Tab /\ tab[t].sent # <<>> /\ tab[t].step = "confirm" /\ tab[t].picked = choice
      /\ ~tab[t].cast /\ v \in Voters /\ choice \in Choices /\ Vote(v, choice)
  BY TabFields DEF Cast, busy, TabSound
<1>2. PICK l : l = [tab[t] EXCEPT !.cast = TRUE]
  OBVIOUS
<1>3. tab' = [tab EXCEPT ![t] = l] /\ UNCHANGED <<orphan, receipts>>
  BY <1>2 DEF Cast
<1>4. /\ l \in Tab /\ TabSound(l) /\ l.cast /\ l.step = "confirm" /\ l.picked = choice
      /\ l.sent = tab[t].sent
  BY <1>1, <1>2, TabFields DEF Tab, TabSound
<1>5. PICK w, c : w = v /\ c = choice
  OBVIOUS
<1>6. /\ Grows /\ w \notin voted /\ voted' = voted \cup {w} /\ Ballots(c)' = Ballots(c) + 1
      /\ w \in Voters /\ c \in Choices /\ l.sent[1] = w
  BY <1>1, <1>4, <1>5, VoteAdds
<1>7. tab' \in [Tabs -> Tab] /\ (\A u \in Tabs : TabSound(tab[u]))'
  BY <1>3, <1>4, TabsSound
<1>8. \A d \in Choices : Cardinality(Claims(d)') <= Ballots(d)'
  <2>1. ASSUME NEW d \in Choices PROVE Cardinality(Claims(d)') <= Ballots(d)'
    <3> DEFINE old == Claims(d)
               new == Claims(d)'
    <3>1. old \in SUBSET Tabs /\ new \in SUBSET Tabs
      BY DEF Claims
    <3>2. IsFiniteSet(old) /\ Cardinality(old) \in Nat /\ Cardinality(new) \in Nat
      BY <3>1, TabsAssumption, FS_Subset, FS_CardinalityType
    <3>3. Cardinality(old) <= Ballots(d) /\ Ballots(d) \in Nat /\ Ballots(d)' \in Nat
          /\ Ballots(d) <= Ballots(d)'
      BY <1>6, BoxGrows DEF VoterInv
    <3>4. new \subseteq old \cup {t} /\ (d # c => t \notin new)
      BY <1>1, <1>3, <1>4, <1>5 DEF Claims, VoterInv
    <3> HIDE DEF old, new
    <3>5. CASE d = c
      <4>1. IsFiniteSet(old \cup {t}) /\ Cardinality(old \cup {t}) <= Cardinality(old) + 1
        BY <3>2, FS_AddElement
      <4>2. Cardinality(old \cup {t}) \in Nat /\ Cardinality(new) <= Cardinality(old \cup {t})
        BY <3>4, <4>1, FS_Subset, FS_CardinalityType
      <4>3. QED
        BY <1>6, <3>2, <3>3, <3>5, <4>1, <4>2 DEF new
    <3>6. CASE d # c
      <4>1. Cardinality(new) <= Cardinality(old)
        BY <3>2, <3>4, <3>6, FS_Subset
      <4>2. QED
        BY <3>2, <3>3, <4>1 DEF new
    <3>7. QED
      BY <3>5, <3>6
  <2>2. QED
    BY <2>1
<1>9. receipts[w] = 0
  BY <1>6 DEF VoterInv, OneReceipt
<1>10. \A u \in Tabs : u # t => tab'[u] = tab[u]
  BY <1>3 DEF VoterInv
<1>11. tab'[t] = l
  BY <1>3 DEF VoterInv
<1>12. ReceiptsSound'
  <2>1. ASSUME NEW u \in Tabs, tab'[u].cast
        PROVE  tab'[u].sent[1] \in voted' /\ receipts'[tab'[u].sent[1]] = 0
    BY <1>3, <1>6, <1>9, <1>10, <1>11, <2>1 DEF VoterInv, ReceiptsSound
  <2>2. ASSUME NEW u \in Tabs, tab'[u].cast, u # t
        PROVE  tab'[u].sent[1] # w
    BY <1>6, <1>10, <2>2 DEF VoterInv, ReceiptsSound
  <2>3. ASSUME NEW x \in Tabs, NEW y \in Tabs, tab'[x].cast, tab'[y].cast,
               tab'[x].sent[1] = tab'[y].sent[1]
        PROVE  x = y
    BY <1>6, <1>10, <1>11, <2>2, <2>3 DEF VoterInv, ReceiptsSound
  <2>4. QED
    BY <2>1, <2>3 DEF ReceiptsSound
<1>13. OneReceipt'
  BY <1>3, <1>6 DEF VoterInv, OneReceipt
<1>14. QED
  BY <1>3, <1>6, <1>7, <1>8, <1>12, <1>13 DEF VoterInv, Grows

(* The answer arrives: the claim stays, and the voter's only receipt with  *)
(* it.                                                                     *)
LEMMA ReceiptKeeps ==
  ASSUME VoterInv, BoxSound, NEW t \in Tabs, Receipt(t)
  PROVE  VoterInv'
<1>1. /\ tab[t] \in Tab /\ tab[t].cast /\ tab[t].sent # <<>> /\ tab[t].sent[1] \in Voters
  BY TabFields DEF Receipt, TabSound
<1>2. PICK l : l = [tab[t] EXCEPT !.step = "done", !.token = NoVoter, !.sent = <<>>, !.cast = FALSE]
  OBVIOUS
<1>3. PICK v : v = tab[t].sent[1]
  OBVIOUS
<1>4. /\ tab' = [tab EXCEPT ![t] = l] /\ receipts' = [receipts EXCEPT ![v] = @ + 1]
      /\ UNCHANGED <<boxVars, orphan>>
  BY <1>2, <1>3 DEF Receipt
<1>5. l \in Tab /\ TabSound(l) /\ ~l.cast /\ l.picked = tab[t].picked
  BY <1>1, <1>2, TabFields DEF Tab, TabSound, Sent, Steps
<1>6. tab' \in [Tabs -> Tab] /\ (\A u \in Tabs : TabSound(tab[u]))'
  BY <1>4, <1>5, TabsSound
<1>7. \A choice \in Choices : Cardinality(Claims(choice)') <= Ballots(choice)'
  BY <1>1, <1>4, <1>5, ClaimsShrink DEF boxVars
<1>8. v \in Voters /\ v \in voted /\ receipts[v] = 0 /\ UNCHANGED voted
  BY <1>1, <1>3, <1>4 DEF VoterInv, ReceiptsSound, boxVars
<1>9. receipts \in [Voters -> Nat] /\ receipts' \in [Voters -> Nat]
  BY <1>4, <1>8 DEF VoterInv
<1>10. OneReceipt'
  <2>1. ASSUME NEW w \in Voters
        PROVE  receipts'[w] <= 1 /\ (receipts'[w] = 1 => w \in voted')
    BY <1>4, <1>8, <1>9 DEF VoterInv, OneReceipt
  <2>2. QED
    BY <2>1 DEF OneReceipt
<1>11. ASSUME NEW u \in Tabs, tab'[u].cast
       PROVE  u # t /\ tab'[u] = tab[u] /\ tab[u].cast /\ tab[u].sent[1] # v
  BY <1>1, <1>3, <1>4, <1>5, <1>11 DEF VoterInv, ReceiptsSound
<1>12. ReceiptsSound'
  <2>1. ASSUME NEW u \in Tabs, tab'[u].cast
        PROVE  tab'[u].sent[1] \in voted' /\ receipts'[tab'[u].sent[1]] = 0
    <3>1. tab[u].sent[1] \in Voters
      BY <1>11, <2>1, TabFields DEF TabSound
    <3>2. QED
      BY <1>4, <1>8, <1>9, <1>11, <2>1, <3>1 DEF VoterInv, ReceiptsSound
  <2>2. QED
    BY <1>11, <2>1 DEF VoterInv, ReceiptsSound
<1>13. QED
  BY <1>4, <1>6, <1>7, <1>9, <1>10, <1>12 DEF VoterInv

LEMMA VoterStep ==
  ASSUME VoterInv, BoxSound, VoterNext
  PROVE  VoterInv' /\ Grows
<1>1. ASSUME NEW t \in Tabs,
             \/ LoadElection(t) \/ LoadMethods(t) \/ IdentityBegin(t) \/ RequestOtp(t)
             \/ \E v \in Voters : IdentityComplete(t, v) \/ VerifyOtp(t, v)
             \/ IdentityRefused(t)
             \/ \E choice \in Choices : setPicked(t, choice)
             \/ Chosen(t) \/ ChooseAgain(t) \/ Submit(t)
      PROVE  VoterInv' /\ Grows
  <2>1. UNCHANGED boxVars
    BY <1>1 DEF LoadElection, LoadMethods, IdentityBegin, RequestOtp, IdentityComplete, VerifyOtp,
                Authenticated, IdentityRefused, setPicked, Chosen, ChooseAgain, Submit, OnlyTab
  <2>2. QED
    BY <1>1, <2>1, PageMoves, BoxStep
<1>2. ASSUME NEW t \in Tabs, SubmitFails(t) \/ Reload(t)
      PROVE  VoterInv' /\ Grows
  <2>1. UNCHANGED boxVars
    BY <1>2 DEF SubmitFails, Reload, Abandon
  <2>2. QED
    BY <1>2, <2>1, PageGivesUp, BoxStep
<1>3. ASSUME NEW t \in Tabs, Receipt(t)
      PROVE  VoterInv' /\ Grows
  <2>1. UNCHANGED boxVars
    BY <1>3 DEF Receipt
  <2>2. QED
    BY <1>3, <2>1, ReceiptKeeps, BoxStep
<1>4. ASSUME NEW t \in Tabs, Cast(t)
      PROVE  VoterInv' /\ Grows
  <2>1. tab[t].sent[1] \in Voters /\ tab[t].sent[2] \in Choices
    BY <1>4, TabFields DEF Cast, busy
  <2>2. QED
    BY <1>4, <2>1, CastKeeps, VoteAdds DEF Cast
<1>5. ASSUME NEW o \in orphan, OrphanCast(o)
      PROVE  VoterInv' /\ Grows
  <2>1. o[1] \in Voters /\ o[2] \in Choices
    BY DEF VoterInv
  <2>2. Grows
    BY <1>5, <2>1, VoteAdds DEF OrphanCast
  <2>3. QED
    BY <1>5, <2>2, VoterFrame DEF OrphanCast
<1>6. QED
  BY <1>1, <1>2, <1>3, <1>4, <1>5 DEF VoterNext
---------------------------------------------------------------------------
(* The admins' page                                                        *)

(* What has been read is kept in a sequence of one.                        *)
LEMMA Read ==
  ASSUME NEW S, NEW x \in S
  PROVE  <<x>> \in Maybe(S) /\ <<x>> # None /\ <<x>>[1] = x
BY DEF Maybe, None

LEMMA Unread ==
  ASSUME NEW S, NEW m \in Maybe(S), m # None
  PROVE  m[1] \in S
BY DEF Maybe

(* The request that the page waits for, by its operation.                  *)
LEMMA OwnShape ==
  ASSUME AdminInv, Waiting
  PROVE  /\ own.op = "overview" => own \in OverviewReq /\ OverviewSound(own)
         /\ own.op = "results" => own \in ResultsReq /\ (own.rows # None => RowsBacked(own.rows[1]))
         /\ own.op \notin {"overview", "results"} => own \in ActionReq
<1>1. own \in OverviewReq \cup ResultsReq \cup ActionReq
  BY DEF AdminInv, OwnSound, Waiting
<1>2. QED
  BY <1>1 DEF AdminInv, OwnSound, OverviewReq, ResultsReq, ActionReq

(* A box that grows bears out what was read from it before.                *)
LEMMA OwnKept ==
  ASSUME Grows, NEW l, OwnSound(l)
  PROVE  OwnSound(l)'
<1>1. /\ Cardinality(box) \in Nat /\ Cardinality(box') \in Nat
      /\ Cardinality(box) <= Cardinality(box')
  BY BoxGrows
<1>2. ASSUME l \in OverviewReq
      PROVE  OverviewSound(l)'
  <2>1. OverviewSound(l)
    BY <1>2 DEF OwnSound
  <2>2. l.before \in Nat /\ l.voted \in Maybe(Nat) /\ l.ballots \in Maybe(Nat)
    BY <1>2 DEF OverviewReq
  <2>3. ASSUME NEW n \in Maybe(Nat), Counted(n, l.before)
        PROVE  Counted(n, l.before)'
    BY <1>1, <2>2, <2>3, Unread DEF Counted
  <2>4. QED
    BY <1>1, <2>1, <2>2, <2>3 DEF OverviewSound
<1>3. ASSUME l \in ResultsReq, l.rows # None
      PROVE  RowsBacked(l.rows[1])'
  <2>1. l.rows \in Maybe(SUBSET ResultRows) /\ RowsBacked(l.rows[1])
    BY <1>3 DEF ResultsReq, OwnSound
  <2>2. l.rows[1] \subseteq ResultRows
    BY <1>3, <2>1, Unread
  <2>3. PICK rows : rows = l.rows[1]
    OBVIOUS
  <2>4. RowsBacked(rows)'
    BY <2>1, <2>2, <2>3, StillBacked
  <2>5. QED
    BY <2>3, <2>4
<1>4. QED
  BY <1>2, <1>3 DEF OwnSound

(* Requests as they are sent.                                              *)
LEMMA NewRequests ==
  ASSUME AdminInv
  PROVE  /\ OwnSound(None)
         /\ OwnSound(Overview)
         /\ \A op \in {"list", "create", "open", "close", "roster", "tally"} : OwnSound(Act(op))
         /\ token \in Tokens
<1>1. token \in Tokens
  BY DEF AdminInv, Tokens
<1>2. None \notin OverviewReq /\ None \notin ResultsReq
  BY DEF None, OverviewReq, ResultsReq
<1>3. Overview \in OverviewReq /\ Overview \notin ResultsReq /\ OverviewSound(Overview)
  BY <1>1 DEF Overview, OverviewReq, ResultsReq, OverviewSound, Counted, Maybe
<1>4. ASSUME NEW op \in {"list", "create", "open", "close", "roster", "tally"}
      PROVE  OwnSound(Act(op))
  BY <1>1 DEF Act, ActionReq, OverviewReq, ResultsReq, OwnSound
<1>5. QED
  BY <1>1, <1>2, <1>3, <1>4 DEF OwnSound

(* A step after which the page shows what it showed before, or nothing.    *)
LEMMA PageKept ==
  ASSUME AdminInv, Grows, last' \in Nat, token' \in {last', NoSession},
         modal' \in {"none", "open", "close"}, OwnSound(own)', ExpiredIsTrue',
         ov' \in {ov, None}, shown' \in {shown, None}
  PROVE  AdminInv'
<1>1. ov' # None => {ov'[1].voted, ov'[1].ballots, ov'[1].before, ov'[1].after} \subseteq Nat
  BY DEF AdminInv
<1>2. shown' # None => shown' = shown /\ \A c \in DOMAIN shown'[1] : shown'[1][c] \subseteq Nat
  BY DEF AdminInv
<1>3. AlarmOnlyByRace'
  BY DEF AdminInv, NumbersTrue, AlarmOnlyByRace, matched
<1>4. VotesBacked'
  <2>1. ASSUME shown' # None, NEW c \in DOMAIN shown'[1], NEW n \in shown'[1][c]
        PROVE  n <= Ballots(c)'
    <3>1. n \in Nat /\ n <= Ballots(c)
      BY <1>2, <2>1 DEF AdminInv, NumbersTrue, VotesBacked, Ballots
    <3>2. QED
      BY <3>1, BoxGrows
  <2>2. QED
    BY <2>1 DEF VotesBacked, Ballots
<1>5. QED
  BY <1>1, <1>2, <1>3, <1>4 DEF AdminInv, NumbersTrue

LEMMA AdminFrame ==
  ASSUME AdminInv, Grows, UNCHANGED adminVars
  PROVE  AdminInv'
<1>1. PICK l : l = own
  OBVIOUS
<1>2. OwnSound(l) /\ own' = l
  BY <1>1 DEF AdminInv, adminVars
<1>3. OwnSound(l)'
  BY <1>2, OwnKept
<1>4. OwnSound(own)'
  BY <1>2, <1>3
<1>5. ExpiredIsTrue'
  BY DEF AdminInv, adminVars, ExpiredIsTrue
<1>6. QED
  BY <1>4, <1>5, PageKept DEF AdminInv, adminVars

(* Logging in and out, and the sessions that end.                          *)
LEMMA SessionSteps ==
  ASSUME AdminInv, Grows,
         \/ Login \/ Enrolled \/ LoggedIn \/ Logout
         \/ \E s \in sessions : SessionEnds(s)
         \/ \E auth \in stray : StrayEnds(auth)
         \/ OwnUnauthorized
  PROVE  AdminInv'
<1>1. PICK l : l = own
  OBVIOUS
<1>2. own' = own => OwnSound(own)'
  <2>1. OwnSound(l)'
    BY <1>1, OwnKept DEF AdminInv
  <2>2. QED
    BY <1>1, <2>1
<1>3. own' = None => OwnSound(own)'
  <2>1. OwnSound(None)'
    BY OwnKept, NewRequests
  <2>2. QED
    BY <2>1
<1>4. /\ last \in Nat /\ token \in {last, NoSession} /\ modal \in {"none", "open", "close"}
      /\ (expired => last \notin sessions)
  BY DEF AdminInv, ExpiredIsTrue
<1>5. CASE Login \/ Enrolled
  <2>1. UNCHANGED <<Session, own, Page>>
    BY <1>5 DEF Login, Enrolled
  <2>2. ExpiredIsTrue'
    BY <1>4, <2>1 DEF Session, ExpiredIsTrue
  <2>3. QED
    BY <1>2, <1>4, <2>1, <2>2, PageKept DEF Session, Page
<1>6. CASE LoggedIn
  <2>1. /\ token' = last + 1 /\ last' = last + 1 /\ expired' = FALSE /\ UNCHANGED Page
        /\ own' = [op |-> "list", auth |-> last + 1, answer |-> "none"]
    BY <1>6 DEF LoggedIn
  <2>2. OwnSound(own)'
    BY <1>4, <2>1 DEF OwnSound, ActionReq, OverviewReq, ResultsReq, Tokens
  <2>3. ExpiredIsTrue'
    BY <2>1 DEF ExpiredIsTrue
  <2>4. QED
    BY <1>4, <2>1, <2>2, <2>3, PageKept DEF Page
<1>7. CASE Logout
  <2>1. token' = NoSession /\ own' = None /\ Unmount /\ UNCHANGED <<last, sessions, expired>>
    BY <1>7 DEF Logout
  <2>2. ExpiredIsTrue'
    BY <1>4, <2>1 DEF ExpiredIsTrue
  <2>3. QED
    BY <1>3, <1>4, <2>1, <2>2, PageKept DEF Unmount
<1>8. CASE \E s \in sessions : SessionEnds(s)
  <2>1. PICK s \in sessions : SessionEnds(s)
    BY <1>8
  <2>2. sessions' = sessions \ {s} /\ UNCHANGED <<token, last, expired, own, ov, shown, modal>>
    BY <2>1 DEF SessionEnds, Page
  <2>3. ExpiredIsTrue'
    BY <1>4, <2>2 DEF ExpiredIsTrue
  <2>4. QED
    BY <1>2, <1>4, <2>2, <2>3, PageKept
<1>9. ASSUME NEW auth, auth \notin sessions, ThrowsOut(auth), ThrownOut, own' = None,
             ov' = None, shown' = None, modal' = "none"
      PROVE  AdminInv'
  <2>1. last \notin sessions
    BY <1>4, <1>9 DEF ThrowsOut
  <2>2. token' = NoSession /\ UNCHANGED <<last, sessions>>
    BY <1>9 DEF ThrownOut
  <2>3. ExpiredIsTrue'
    BY <2>1, <2>2 DEF ExpiredIsTrue
  <2>4. QED
    BY <1>3, <1>4, <1>9, <2>2, <2>3, PageKept
<1>10. CASE \E auth \in stray : StrayEnds(auth)
  <2>1. PICK auth \in stray : StrayEnds(auth)
    BY <1>10
  <2>2. CASE auth \notin sessions /\ ThrowsOut(auth)
    BY <1>9, <2>1, <2>2 DEF StrayEnds
  <2>3. CASE ~(auth \notin sessions /\ ThrowsOut(auth))
    <3>1. UNCHANGED <<Session, own, Page>>
      BY <2>1, <2>3 DEF StrayEnds
    <3>2. ExpiredIsTrue'
      BY <1>4, <3>1 DEF Session, ExpiredIsTrue
    <3>3. QED
      BY <1>2, <1>4, <3>1, <3>2, PageKept DEF Session, Page
  <2>4. QED
    BY <2>2, <2>3
<1>11. CASE OwnUnauthorized
  BY <1>9, <1>11 DEF OwnUnauthorized
<1>12. QED
  BY <1>5, <1>6, <1>7, <1>8, <1>10, <1>11

(* Moving between the screens, and the buttons.                            *)
LEMMA ScreenSteps ==
  ASSUME AdminInv, Grows,
         \/ ListEnds \/ OpenDetail \/ Back \/ NewElection \/ SubmitElection \/ Created
         \/ Ask("open") \/ Ask("close") \/ Cancel \/ Confirm \/ UploadRoster \/ ApproveTally
         \/ ActionEnds \/ OwnFails
  PROVE  AdminInv'
<1>1. /\ last \in Nat /\ token \in {last, NoSession} /\ modal \in {"none", "open", "close"}
      /\ (expired => last \notin sessions)
  BY DEF AdminInv, ExpiredIsTrue
<1>2. PICK l : l = own'
  OBVIOUS
<1>3. ASSUME OwnSound(l), UNCHANGED Session, modal' \in {"none", "open", "close"},
             ov' \in {ov, None}, shown' \in {shown, None}
      PROVE  AdminInv'
  <2>1. OwnSound(l)'
    BY <1>3, OwnKept
  <2>2. OwnSound(own)'
    BY <1>2, <2>1
  <2>3. ExpiredIsTrue'
    BY <1>1, <1>3 DEF Session, ExpiredIsTrue
  <2>4. QED
    BY <1>1, <1>3, <2>2, <2>3, PageKept DEF Session
<1>4. ASSUME NEW request, OwnSound(request), Send(request)
      PROVE  AdminInv'
  BY <1>1, <1>2, <1>3, <1>4 DEF Send, Page
<1>5. OwnSound(None) /\ OwnSound(Overview) /\ OwnSound(own)
      /\ \A op \in {"list", "create", "open", "close", "roster", "tally"} : OwnSound(Act(op))
  BY NewRequests DEF AdminInv
<1>6. CASE ListEnds
  BY <1>1, <1>2, <1>3, <1>5, <1>6 DEF ListEnds, Page
<1>7. CASE OpenDetail
  BY <1>1, <1>2, <1>3, <1>5, <1>7 DEF OpenDetail, Page
<1>8. CASE Back
  BY <1>2, <1>3, <1>5, <1>8 DEF Back, Unmount
<1>9. CASE NewElection
  BY <1>2, <1>3, <1>5, <1>9 DEF NewElection, Unmount
<1>10. CASE SubmitElection
  BY <1>4, <1>5, <1>10 DEF SubmitElection
<1>11. CASE Created
  BY <1>1, <1>2, <1>3, <1>5, <1>11 DEF Created, Page
<1>12. CASE Ask("open") \/ Ask("close")
  BY <1>2, <1>3, <1>5, <1>12 DEF Ask
<1>13. CASE Cancel
  BY <1>2, <1>3, <1>5, <1>13 DEF Cancel
<1>14. CASE Confirm
  <2>1. OwnSound(Act(modal))
    BY <1>1, <1>5, <1>14 DEF Confirm
  <2>2. QED
    BY <1>2, <1>3, <1>14, <2>1 DEF Confirm
<1>15. CASE UploadRoster
  BY <1>4, <1>5, <1>15 DEF UploadRoster
<1>16. CASE ApproveTally
  BY <1>4, <1>5, <1>16 DEF ApproveTally
<1>17. CASE ActionEnds
  BY <1>4, <1>5, <1>17 DEF ActionEnds
<1>18. CASE OwnFails
  BY <1>4, <1>5, <1>18 DEF OwnFails
<1>19. QED
  BY <1>6, <1>7, <1>8, <1>9, <1>10, <1>11, <1>12, <1>13, <1>14, <1>15, <1>16, <1>17, <1>18

(* Reading the numbers, one query at a time.                               *)
LEMMA ReadSteps ==
  ASSUME AdminInv, Grows, ReadStatus \/ ReadCounts \/ ReadResults
  PROVE  AdminInv'
<1>1. /\ last \in Nat /\ token \in {last, NoSession} /\ modal \in {"none", "open", "close"}
      /\ ExpiredIsTrue
  BY DEF AdminInv
<1>2. PICK l : l = own'
  OBVIOUS
<1>3. ASSUME OwnSound(l) PROVE AdminInv'
  <2>1. OwnSound(l)'
    BY <1>3, OwnKept
  <2>2. OwnSound(own)'
    BY <1>2, <2>1
  <2>3. UNCHANGED <<token, last, sessions, expired, ov, shown, modal>>
    BY DEF ReadStatus, ReadCounts, ReadResults, Session, Page
  <2>4. ExpiredIsTrue'
    BY <1>1, <2>3 DEF ExpiredIsTrue
  <2>5. QED
    BY <1>1, <2>2, <2>3, <2>4, PageKept
<1>4. /\ stage \in Stages /\ listed \subseteq CandidateIds /\ results \in SUBSET ResultRows
      /\ invalid \in Nat /\ RowsBacked(results) /\ Cardinality(voted) = Cardinality(box)
      /\ Cardinality(box) \in Nat
  BY FS_CardinalityType DEF Grows, BoxSound
<1>5. CASE ReadStatus
  <2>1. Waiting /\ own \in OverviewReq /\ OverviewSound(own) /\ own.status = None
    BY <1>5, OwnShape DEF ReadStatus
  <2>2. own' = [own EXCEPT !.status = <<stage>>, !.before = Cardinality(box)]
    BY <1>5 DEF ReadStatus
  <2>3. own.voted = None /\ own.ballots = None
    BY <2>1 DEF OverviewSound
  <2>4. PICK m : m = <<stage>>
    OBVIOUS
  <2>5. m \in Maybe(Stages) /\ m # None
    BY <1>4, <2>4, Read
  <2>6. l \in OverviewReq /\ l \notin ResultsReq
    BY <1>2, <1>4, <2>1, <2>2, <2>4, <2>5 DEF OverviewReq, ResultsReq
  <2>7. l.status = m /\ l.before = Cardinality(box) /\ l.voted = None /\ l.ballots = None
    BY <1>2, <2>1, <2>2, <2>3, <2>4 DEF OverviewReq
  <2>8. OverviewSound(l)
    BY <1>4, <2>5, <2>7 DEF OverviewSound, Counted
  <2>9. QED
    BY <1>3, <2>6, <2>8 DEF OwnSound
<1>6. CASE ReadCounts
  <2>1. Waiting /\ own \in OverviewReq /\ OverviewSound(own) /\ own.status # None
    BY <1>6, OwnShape DEF ReadCounts
  <2>2. PICK m : m = <<Cardinality(box)>>
    OBVIOUS
  <2>3. m \in Maybe(Nat) /\ m # None /\ m[1] = Cardinality(box)
    BY <1>4, <2>2, Read
  <2>4. l = [own EXCEPT !.voted = m] \/ l = [own EXCEPT !.ballots = m]
    BY <1>2, <1>4, <1>6, <2>2 DEF ReadCounts, VotedCount
  <2>5. l \in OverviewReq /\ l \notin ResultsReq
    BY <2>1, <2>3, <2>4 DEF OverviewReq, ResultsReq
  <2>6. own.before \in Nat /\ own.before <= Cardinality(box)
    BY <2>1 DEF OverviewReq, OverviewSound
  <2>7. Counted(m, own.before)
    BY <1>4, <2>3, <2>6 DEF Counted
  <2>8. /\ l.status = own.status /\ l.before = own.before
        /\ l.voted \in {own.voted, m} /\ l.ballots \in {own.ballots, m}
    BY <2>1, <2>4 DEF OverviewReq
  <2>9. OverviewSound(l)
    BY <2>1, <2>7, <2>8 DEF OverviewSound
  <2>10. QED
    BY <1>3, <2>5, <2>9 DEF OwnSound
<1>7. CASE ReadResults
  <2>1. /\ own \in ResultsReq /\ (own.rows # None => RowsBacked(own.rows[1]))
    BY <1>7, OwnShape DEF ReadResults
  <2>2. PICK n, c, r : n = <<invalid>> /\ c = <<listed>> /\ r = <<results>>
    OBVIOUS
  <2>3. /\ n \in Maybe(Nat) /\ c \in Maybe(SUBSET CandidateIds) /\ r \in Maybe(SUBSET ResultRows)
        /\ r[1] = results
    BY <1>4, <2>2, Read
  <2>4. \/ l = [own EXCEPT !.invalid = n] \/ l = [own EXCEPT !.candidates = c]
        \/ l = [own EXCEPT !.rows = r]
    BY <1>2, <1>7, <2>2 DEF ReadResults
  <2>5. l \in ResultsReq /\ l \notin OverviewReq /\ l.rows \in {own.rows, r}
    BY <2>1, <2>3, <2>4 DEF OverviewReq, ResultsReq
  <2>6. l.rows # None => RowsBacked(l.rows[1])
    BY <1>4, <2>1, <2>3, <2>5
  <2>7. QED
    BY <1>3, <2>5, <2>6 DEF OwnSound
<1>8. QED
  BY <1>5, <1>6, <1>7

(* The overview is shown.  Both counts lie between what was in the box     *)
(* first and what is in it now: if they differ, so do these.               *)
LEMMA OverviewStep ==
  ASSUME AdminInv, Grows, OverviewShown
  PROVE  AdminInv'
<1>1. Waiting /\ own \in OverviewReq /\ OverviewSound(own) /\ own.voted # None /\ own.ballots # None
  BY OwnShape DEF OverviewShown
<1>2. /\ own.voted[1] \in Nat /\ own.ballots[1] \in Nat /\ own.before \in Nat
      /\ own.before <= own.voted[1] /\ own.voted[1] <= Cardinality(box)
      /\ own.before <= own.ballots[1] /\ own.ballots[1] <= Cardinality(box)
  BY <1>1, Unread DEF OverviewReq, OverviewSound, Counted
<1>3. PICK o : o = [status |-> own.status[1], voted |-> own.voted[1], ballots |-> own.ballots[1],
                    before |-> own.before, after |-> Cardinality(box)]
  OBVIOUS
<1>4. Cardinality(box) \in Nat
  BY FS_CardinalityType DEF Grows, BoxSound
<1>5. ov' = <<o>> /\ ov'[1] = o /\ UNCHANGED <<shown, modal, Session, boxVars>>
  BY <1>3 DEF OverviewShown
<1>6. /\ {o.voted, o.ballots, o.before, o.after} \subseteq Nat
      /\ o.voted # o.ballots => o.before < o.after
  BY <1>2, <1>3, <1>4
<1>7. AlarmOnlyByRace'
  BY <1>5, <1>6 DEF AlarmOnlyByRace, matched
<1>8. VotesBacked' /\ ExpiredIsTrue'
  BY <1>5 DEF AdminInv, NumbersTrue, VotesBacked, ExpiredIsTrue, boxVars, Session
<1>9. OwnSound(own)'
  <2>1. PICK l : l = own'
    OBVIOUS
  <2>2. OwnSound(None) /\ token \in Tokens
    BY NewRequests
  <2>3. ASSUME l = [op |-> "results", auth |-> token, invalid |-> None, candidates |-> None, rows |-> None]
        PROVE  OwnSound(l)
    <3>1. l \in ResultsReq /\ l \notin OverviewReq /\ l.rows = None
      BY <2>2, <2>3 DEF ResultsReq, OverviewReq, Maybe
    <3>2. QED
      BY <3>1 DEF OwnSound
  <2>4. OwnSound(l)
    BY <2>1, <2>2, <2>3 DEF OverviewShown
  <2>5. OwnSound(l)'
    BY <2>4, OwnKept
  <2>6. QED
    BY <2>1, <2>5
<1>10. QED
  BY <1>5, <1>6, <1>7, <1>8, <1>9 DEF AdminInv, NumbersTrue, Session

(* The results are shown: rows that the box backed when they were read.    *)
LEMMA ResultsStep ==
  ASSUME AdminInv, Grows, ResultsShown
  PROVE  AdminInv'
<1>1. /\ own \in ResultsReq /\ own.candidates # None /\ own.rows # None /\ RowsBacked(own.rows[1])
  BY OwnShape DEF ResultsShown
<1>2. PICK rows, cs : rows = own.rows[1] /\ cs = own.candidates[1]
  OBVIOUS
<1>3. rows \subseteq ResultRows /\ cs \subseteq CandidateIds /\ RowsBacked(rows)
  BY <1>1, <1>2, Unread DEF ResultsReq
<1> DEFINE votes(c) == {row.votes : row \in {x \in rows : x.candidateId = c}}
<1>4. /\ shown' = <<[c \in cs |-> votes(c)]>> /\ own' = None
      /\ UNCHANGED <<boxVars, screen, Session, stray, ov, modal>>
  BY <1>2 DEF ResultsShown
<1>5. ASSUME NEW c \in cs, NEW n \in votes(c)
      PROVE  n \in Nat /\ n <= Ballots(c)
  BY <1>3 DEF ResultRows, RowsBacked
<1>6. PICK table : table = [c \in cs |-> votes(c)]
  OBVIOUS
<1>7. /\ shown'[1] = table /\ DOMAIN table = cs
      /\ \A c \in cs : table[c] = votes(c)
  BY <1>4, <1>6
<1> HIDE DEF votes
<1>8. \A c \in DOMAIN shown'[1] : shown'[1][c] \subseteq Nat
  BY <1>5, <1>7
<1>9. VotesBacked'
  BY <1>4, <1>5, <1>7 DEF VotesBacked, Ballots, boxVars
<1>10. AlarmOnlyByRace' /\ ExpiredIsTrue'
  BY <1>4 DEF AdminInv, NumbersTrue, AlarmOnlyByRace, matched, ExpiredIsTrue, Session
<1>11. OwnSound(own)'
  <2>1. OwnSound(None)'
    BY NewRequests, OwnKept
  <2>2. QED
    BY <1>4, <2>1
<1>12. QED
  BY <1>4, <1>8, <1>9, <1>10, <1>11 DEF AdminInv, NumbersTrue, Session

(* The server carries out what the admin asked for, if it may.             *)
LEMMA ServeStep ==
  ASSUME AdminInv, BoxSound, ServeAction
  PROVE  AdminInv' /\ Grows
<1>1. Next
  BY MeAssumption DEF ServeAction, Next
<1>2. Grows
  BY <1>1, BoxStep
<1>3. Waiting /\ own.op \in {"open", "close", "roster", "tally"}
  BY DEF ServeAction, Serving
<1>4. own \in ActionReq
  BY <1>3, OwnShape
<1>5. PICK answer \in {"ok", "counting"} : Answer(answer)
  BY DEF ServeAction
<1>6. PICK l : l = own'
  OBVIOUS
<1>7. l \in ActionReq
  BY <1>4, <1>5, <1>6 DEF Answer, ActionReq
<1>8. OwnSound(l)
  BY <1>7 DEF ActionReq, OverviewReq, ResultsReq, OwnSound
<1>9. OwnSound(own)'
  <2>1. OwnSound(l)'
    BY <1>2, <1>8, OwnKept
  <2>2. QED
    BY <1>6, <2>1
<1>10. UNCHANGED <<token, last, sessions, expired, ov, shown, modal>>
  BY <1>5 DEF Answer, Session, Page
<1>11. ExpiredIsTrue'
  BY <1>10 DEF AdminInv, ExpiredIsTrue
<1>12. QED
  BY <1>2, <1>9, <1>10, <1>11, PageKept DEF AdminInv

LEMMA AdminStep ==
  ASSUME AdminInv, BoxSound, AdminNext
  PROVE  AdminInv' /\ Grows
<1>1. CASE ServeAction
  BY <1>1, ServeStep
<1>2. ASSUME UNCHANGED boxVars PROVE Grows
  BY <1>2, BoxStep
<1>3. CASE \/ Login \/ Enrolled \/ LoggedIn \/ Logout
           \/ \E s \in sessions : SessionEnds(s)
           \/ \E auth \in stray : StrayEnds(auth)
           \/ OwnUnauthorized
  <2>1. UNCHANGED boxVars
    BY <1>3 DEF Login, Enrolled, LoggedIn, Logout, SessionEnds, StrayEnds, OwnUnauthorized, ThrownOut
  <2>2. QED
    BY <1>2, <1>3, <2>1, SessionSteps
<1>4. CASE \/ ListEnds \/ OpenDetail \/ Back \/ NewElection \/ SubmitElection \/ Created
           \/ Ask("open") \/ Ask("close") \/ Cancel \/ Confirm \/ UploadRoster \/ ApproveTally
           \/ ActionEnds \/ OwnFails
  <2>1. UNCHANGED boxVars
    BY <1>4 DEF ListEnds, OpenDetail, Back, NewElection, SubmitElection, Created, Ask, Cancel, Confirm,
                UploadRoster, ApproveTally, ActionEnds, OwnFails, Send
  <2>2. QED
    BY <1>2, <1>4, <2>1, ScreenSteps
<1>5. CASE ReadStatus \/ ReadCounts \/ ReadResults \/ OverviewShown \/ ResultsShown
  <2>1. UNCHANGED boxVars
    BY <1>5 DEF ReadStatus, ReadCounts, ReadResults, OverviewShown, ResultsShown
  <2>2. QED
    BY <1>2, <1>5, <2>1, ReadSteps, OverviewStep, ResultsStep
<1>6. QED
  BY <1>1, <1>3, <1>4, <1>5 DEF AdminNext
---------------------------------------------------------------------------
(* Both pages, in front of one box                                         *)

LEMMA ClientsStart == ClientsInit => ClientsInv
<1> SUFFICES ASSUME ClientsInit PROVE ClientsInv
  OBVIOUS
<1>1. Init /\ VoterInit /\ AdminInit
  BY DEF ClientsInit
<1>2. IsFiniteSet({}) /\ Cardinality({}) = 0
  BY FS_EmptySet
<1>3. BoxSound
  <2>1. /\ stage \in Stages /\ listed \subseteq CandidateIds /\ voted = {} /\ box = {} /\ closing = {}
        /\ results = {} /\ invalid = 0
    BY <1>1 DEF Init, Stages
  <2>2. QED
    BY <1>2, <2>1 DEF BoxSound, RowsBacked
<1>4. VoterInv
  <2>1. \A t \in Tabs : tab[t] = NewTab
    BY <1>1 DEF VoterInit
  <2>2. NewTab \in Tab /\ TabSound(NewTab) /\ ~NewTab.cast /\ NewTab.step # "done"
    BY DEF NewTab, Tab, TabSound, Sent, Steps
  <2>3. tab \in [Tabs -> Tab] /\ \A t \in Tabs : TabSound(tab[t])
    BY <1>1, <2>1, <2>2 DEF VoterInit
  <2>4. ASSUME NEW choice \in Choices
        PROVE  Cardinality(Claims(choice)) <= Ballots(choice)
    <3>1. Claims(choice) = {} /\ {b \in box : b.vote = choice} = {}
      BY <1>1, <2>1, <2>2 DEF Claims, Init
    <3>2. QED
      BY <1>2, <3>1 DEF Ballots
  <2>5. ReceiptsSound /\ OneReceipt
    BY <1>1, <2>1, <2>2 DEF VoterInit, ReceiptsSound, OneReceipt
  <2>6. QED
    BY <1>1, <2>3, <2>4, <2>5 DEF VoterInv, VoterInit
<1>5. AdminInv
  <2>1. OwnSound(None)
    BY DEF None, OwnSound, OverviewReq, ResultsReq
  <2>2. QED
    BY <1>1, <2>1 DEF AdminInit, AdminInv, ExpiredIsTrue, NumbersTrue, AlarmOnlyByRace, VotesBacked
<1>6. QED
  BY <1>3, <1>4, <1>5 DEF ClientsInv

LEMMA ClientsStep == ClientsInv /\ [ClientsNext]_clientVars => ClientsInv'
<1> SUFFICES ASSUME ClientsInv, [ClientsNext]_clientVars PROVE ClientsInv'
  OBVIOUS
<1>1. BoxSound /\ VoterInv /\ AdminInv
  BY DEF ClientsInv
<1>2. ASSUME Grows, UNCHANGED voterVars PROVE VoterInv'
  BY <1>1, <1>2, VoterFrame DEF voterVars
<1>3. ASSUME Grows, UNCHANGED adminVars PROVE AdminInv'
  BY <1>1, <1>3, AdminFrame
<1>4. CASE Others \/ UNCHANGED clientVars
  <2>1. [Next]_boxVars /\ UNCHANGED <<voterVars, adminVars>>
    BY <1>4 DEF Others, clientVars
  <2>2. Grows
    BY <1>1, <2>1, BoxStep
  <2>3. QED
    BY <1>2, <1>3, <2>1, <2>2 DEF ClientsInv, Grows
<1>5. CASE VoterNext /\ UNCHANGED adminVars
  <2>1. VoterInv' /\ Grows
    BY <1>1, <1>5, VoterStep
  <2>2. QED
    BY <1>3, <1>5, <2>1 DEF ClientsInv, Grows
<1>6. CASE AdminNext /\ UNCHANGED voterVars
  <2>1. AdminInv' /\ Grows
    BY <1>1, <1>6, AdminStep
  <2>2. QED
    BY <1>2, <1>6, <2>1 DEF ClientsInv, Grows
<1>7. QED
  BY <1>4, <1>5, <1>6 DEF ClientsNext

(* The invariant of both pages and of the box, for any number of tabs,     *)
(* voters, admins, sessions and ballots.                                   *)
THEOREM ClientsAlwaysInv == ClientsSpec => []ClientsInv
BY ClientsStart, ClientsStep, PTL DEF ClientsSpec

(* As many tabs as show the final screen for a choice, so many ballots for *)
(* it are in the box: the voters' page never thanks for a ballot that is   *)
(* not there, whatever was sent twice, late or in vain.                    *)
THEOREM ThanksAreBoxed == ClientsSpec => []DoneIsBoxed
<1>1. ASSUME ClientsInv PROVE DoneIsBoxed
  <2>1. ASSUME NEW choice \in Choices
        PROVE  Cardinality(Shows(choice)) <= Cardinality({b \in box : b.vote = choice})
    <3>1. Shows(choice) \in SUBSET Claims(choice) /\ Claims(choice) \in SUBSET Tabs
      BY DEF Shows, Claims
    <3>2. IsFiniteSet(Claims(choice)) /\ Cardinality(Shows(choice)) <= Cardinality(Claims(choice))
      BY <3>1, TabsAssumption, FS_Subset
    <3>3. /\ Cardinality(Shows(choice)) \in Nat /\ Cardinality(Claims(choice)) \in Nat
          /\ Ballots(choice) \in Nat
      BY <1>1, <3>1, <3>2, FS_Subset, FS_CardinalityType, BallotsType DEF ClientsInv, BoxSound
    <3>4. Cardinality(Claims(choice)) <= Ballots(choice)
      BY <1>1 DEF ClientsInv, VoterInv
    <3>5. Cardinality(Shows(choice)) <= Ballots(choice)
      BY <3>2, <3>3, <3>4
    <3>6. QED
      BY <3>5 DEF Ballots
  <2>2. QED
    BY <2>1 DEF DoneIsBoxed
<1>2. QED
  BY <1>1, ClientsAlwaysInv, PTL

(* A voter is given one receipt at most, and only after having voted, on   *)
(* however many tabs.                                                      *)
THEOREM OneReceiptEach == ClientsSpec => []OneReceipt
<1>1. ClientsInv => OneReceipt
  BY DEF ClientsInv, VoterInv
<1>2. QED
  BY <1>1, ClientsAlwaysInv, PTL

(* The admins' page says that the session has expired only of the last one *)
(* it was given, and only when the server has ended it.                    *)
THEOREM BannerIsTrue == ClientsSpec => []ExpiredIsTrue
<1>1. ClientsInv => ExpiredIsTrue
  BY DEF ClientsInv, AdminInv
<1>2. QED
  BY <1>1, ClientsAlwaysInv, PTL

(* The numbers on the admins' page are borne out by the box: an alarm only *)
(* if votes came in while it was read, and no more votes for a candidate   *)
(* than there are ballots.                                                 *)
THEOREM PageTellsTheBox == ClientsSpec => []NumbersTrue
<1>1. ClientsInv => NumbersTrue
  BY DEF ClientsInv, AdminInv
<1>2. QED
  BY <1>1, ClientsAlwaysInv, PTL
===========================================================================
