---------------------------- MODULE MCAnchoring ----------------------------
(* Small instances of Anchoring.                                           *)
EXTENDS Anchoring, TLC

CONSTANTS r1, r2, o1, o2 \* model values

(* Targets are compared as they are written: the last one is misspelt.     *)
MCTargets == <<"BLOCKCHAIN", "OBSERVERS", "file">>

MCSymmetry == Permutations(Requests) \cup Permutations(ANCHOR_OBSERVERS)
=============================================================================
