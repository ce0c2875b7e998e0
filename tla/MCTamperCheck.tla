--------------------------- MODULE MCTamperCheck ---------------------------
(* A small instance of TamperCheck.                                        *)
EXTENDS TamperCheck

CONSTANTS v1, v2, forged, c1, c2, script \* model values
===========================================================================
