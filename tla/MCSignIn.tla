------------------------------ MODULE MCSignIn ------------------------------
(* Small instances of SignIn.                                              *)
EXTENDS SignIn, TLC

CONSTANTS v1, v2, r1, r2, p \* model values

(* One person p holds the phones of both rows, and the phone of v1 may     *)
(* also be answered by somebody else.                                      *)
MCIdentities == {[phone |-> v1, owner |-> TRUE,  ci |-> p],
                 [phone |-> v2, owner |-> TRUE,  ci |-> p],
                 [phone |-> v1, owner |-> FALSE, ci |-> Null],
                 [phone |-> v2, owner |-> FALSE, ci |-> Null]}
MCSymmetry == Permutations(Requests) \cup Permutations(Voters)
=============================================================================
