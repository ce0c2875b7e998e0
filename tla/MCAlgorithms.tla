---------------------------- MODULE MCAlgorithms ----------------------------
(***************************************************************************)
(* A small instance of KeyCeremony, and beside it every tree of Merkle     *)
(* that boxes with up to MaxLeaves ballots have.                           *)
(***************************************************************************)
EXTENDS KeyCeremony, Merkle

CONSTANTS k1, k2, Abs, MaxLeaves

MCKeyText == (k1 :> <<{0, 1, 6}>>) @@ (k2 :> <<{7}>>)
MCCoeffs  == {{1, 3}, {0, 4, 6}}
MCShapes  == {<<3, 2>>, <<3, 3>>}

MCCastBallots ==
  [id : 1..MaxLeaves, castAtHour : {"hour"}, sealedVote : {"sealed"}]

MCInit == CeremonyInit /\ MerkleInit

(* Trees are looked at one after the other before the ceremony begins.     *)
MCGrow     == splits = <<>> /\ ~over /\ public = None /\ MerkleNext /\ UNCHANGED ceremonyVars
MCCeremony == boxed = <<>> /\ CeremonyNext /\ UNCHANGED boxed

MCSpec == MCInit /\ [][MCGrow \/ MCCeremony]_<<ceremonyVars, boxed>>
=============================================================================
