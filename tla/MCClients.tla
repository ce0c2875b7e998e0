------------------------------ MODULE MCClients ------------------------------
(* The voters' page in two tabs, before any tally and with a fixed list and  *)
(* roster; or the admins' page, with one voter.  Ids of ballots are taken in *)
(* turn.                                                                     *)
EXTENDS Clients, TLC

CONSTANTS t1, t2, v1, v2, c1, c2, a1  \* model values

MCSymmetry == Permutations(Tabs) \cup Permutations(Voters)

MCBounds ==
  /\ \A b \in box : b.vote # Garbage
  /\ {b.id : b \in box} = 1..Cardinality(box)
  /\ IF present = {"voters"}
       THEN listed = {c1} /\ roll = Voters /\ approved = {}
       ELSE present = {"admin"} /\ Cardinality(roll) <= 1
===========================================================================
