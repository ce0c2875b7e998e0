------------------------------ MODULE Clients ------------------------------
(***************************************************************************)
(* Both pages in front of one election, among other voters and admins, who *)
(* may do whatever BallotBox allows.                                       *)
(***************************************************************************)
EXTENDS VoterClient, AdminClient

VARIABLE
  present  \* the pages that are in use

clientVars == <<boxVars, voterVars, adminVars, present>>

ClientsInit == Init /\ VoterInit /\ AdminInit /\ present \in SUBSET {"voters", "admin"}

Others == Next /\ UNCHANGED <<voterVars, adminVars>>

ClientsNext ==
  /\ \/ Others
     \/ "voters" \in present /\ VoterNext /\ UNCHANGED adminVars
     \/ "admin" \in present /\ AdminNext /\ UNCHANGED voterVars
  /\ UNCHANGED present

ClientsSpec == ClientsInit /\ [][ClientsNext]_clientVars
---------------------------------------------------------------------------
(* What holds of the box and of both pages at all times.                   *)
ClientsInv == BoxSound /\ VoterInv /\ AdminInv
===========================================================================
