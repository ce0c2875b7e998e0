---------------------------- MODULE MCAdminAuth ----------------------------
(* Small instances of AdminAuth.                                           *)
EXTENDS AdminAuth, TLC

CONSTANTS r1, r2, p1, p2 \* model values

MCSymmetry == Permutations(Requests) \cup Permutations(Passwords)
=============================================================================
