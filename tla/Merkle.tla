------------------------------- MODULE Merkle -------------------------------
(***************************************************************************)
(* integrity/merkle: the tree whose root a checkpoint stores, and proofs   *)
(* that a leaf is in it.  A digest is the term it is made from, with the   *)
(* prefix that keeps leaves and nodes apart.  Indices count from 0, as in  *)
(* the source; sequences here count from 1.  A while loop is a function    *)
(* from the number of turns to what the loop's variables hold after them;  *)
(* a turn after the last one changes nothing.  A turn halves the width, so *)
(* there are never more turns than leaves.                                 *)
(***************************************************************************)
EXTENDS Integers, Sequences

CONSTANT CastBallots   \* the ballots that may get into the box

ASSUME CastBallotsAssumption == \A b \in CastBallots : b.id \in Int   \* only their order matters

VARIABLE boxed   \* the box, in the order of the ids

leafHash(data) == <<"leaf", data>>
Node(l, r)     == <<"node", l, r>>
EmptyRoot      == <<"leaf">>

(* ballotLeaf: id, hour and sealed vote with separators that neither an id *)
(* nor a time contains, so three fields and no other three.                *)
ballotLeaf(b) == leafHash(<<b.id, b.castAtHour, b.sealedVote>>)

Ceil2(n) == (n + 1) \div 2

(* One level up: pairs are hashed, an odd last entry goes up as it is.     *)
LevelUpDoubled(level) ==   \* paired with itself
  [i \in 1..Ceil2(Len(level)) |->
     IF 2 * i <= Len(level) THEN Node(level[2 * i - 1], level[2 * i])
     ELSE Node(level[2 * i - 1], level[2 * i - 1])]

LevelUp(level) ==
  [i \in 1..Ceil2(Len(level)) |->
     IF 2 * i <= Len(level) THEN Node(level[2 * i - 1], level[2 * i])
     ELSE level[2 * i - 1]]

RootTurn(level) == IF Len(level) > 1 THEN LevelUp(level) ELSE level

Levels(leaves) ==
  LET level[n \in 0..Len(leaves)] == IF n = 0 THEN leaves ELSE RootTurn(level[n - 1])
  IN  level

merkleRoot(leaves) ==
  IF leaves = <<>> THEN EmptyRoot ELSE Levels(leaves)[Len(leaves)][1]
---------------------------------------------------------------------------
SiblingOf(idx) == IF idx % 2 = 0 THEN idx + 1 ELSE idx - 1

ProofTurn(s) ==
  IF Len(s.level) <= 1 THEN s
  ELSE [level |-> LevelUp(s.level), idx |-> s.idx \div 2,
        path  |-> IF SiblingOf(s.idx) < Len(s.level)
                  THEN Append(s.path, s.level[SiblingOf(s.idx) + 1]) ELSE s.path]

ProofTurns(leaves, index) ==
  LET turn[n \in 0..Len(leaves)] ==
        IF n = 0 THEN [level |-> leaves, idx |-> index, path |-> <<>>]
        ELSE ProofTurn(turn[n - 1])
  IN  turn

merkleProof(leaves, index) == ProofTurns(leaves, index)[Len(leaves)].path

(* verifyProof folds the path; a last entry of an odd level has no sibling *)
(* on it.  Entries of the path that are left over are not looked at.       *)
AloneOdd(idx, width) == idx = width - 1   \* forgets that the width must be odd
Alone(idx, width)    == idx = width - 1 /\ width % 2 = 1

(* Outside what is left to the loop: a path that is too short ends it.     *)
VerifyTurn(v, path) ==
  LET up == [v EXCEPT !.idx = v.idx \div 2, !.width = Ceil2(v.width)]
  IN  IF v.short \/ v.width <= 1 THEN v
      ELSE IF Alone(v.idx, v.width) THEN up
      ELSE IF v.p >= Len(path) THEN [v EXCEPT !.short = TRUE]
      ELSE [up EXCEPT !.p    = v.p + 1,
                      !.hash = IF v.idx % 2 = 0 THEN Node(v.hash, path[v.p + 1])
                               ELSE Node(path[v.p + 1], v.hash)]

VerifyTurns(leaf, index, total, path) ==
  LET turn[n \in 0..total] ==
        IF n = 0 THEN [hash |-> leaf, idx |-> index, width |-> total, p |-> 0, short |-> FALSE]
        ELSE VerifyTurn(turn[n - 1], path)
  IN  turn

verifyProof(leaf, index, total, path, root) ==
  LET end == VerifyTurns(leaf, index, total, path)[total]
  IN  ~end.short /\ end.hash = root
---------------------------------------------------------------------------
(* The tree of RFC 6962, whose prefixes the source takes: n leaves are     *)
(* split at the largest power of two below n.  hash[n][i] is the hash of   *)
(* the n leaves from the i-th on.  For no leaves it is the root of the     *)
(* source, which hashes the prefix.                                        *)
PowersOfTwo(n) ==
  LET power[e \in 0..n] == IF e = 0 THEN 1 ELSE 2 * power[e - 1]
  IN  power

SplitAt(n, powers) == CHOOSE k \in {powers[e] : e \in DOMAIN powers} : k < n /\ n <= 2 * k

SegmentHashes(leaves) ==
  LET powers == PowersOfTwo(Len(leaves))
      hash[n \in 1..Len(leaves)] ==
        [i \in 1..(Len(leaves) - n + 1) |->
           IF n = 1 THEN leaves[i]
           ELSE Node(hash[SplitAt(n, powers)][i],
                     hash[n - SplitAt(n, powers)][i + SplitAt(n, powers)])]
  IN  hash

TreeHash(leaves) == IF leaves = <<>> THEN EmptyRoot ELSE SegmentHashes(leaves)[Len(leaves)][1]
---------------------------------------------------------------------------
(* The box that trees are made of: a ballot has an id of its own and takes *)
(* the place its id gives it.                                              *)
MerkleInit == boxed = <<>>

Drop(b) ==
  \E k \in 1..(Len(boxed) + 1) :
    /\ \A i \in DOMAIN boxed : IF i < k THEN boxed[i].id < b.id ELSE boxed[i].id > b.id
    /\ boxed' = [i \in 1..(Len(boxed) + 1) |->
                   IF i < k THEN boxed[i] ELSE IF i = k THEN b ELSE boxed[i - 1]]

MerkleNext == \E b \in CastBallots : Drop(b)

MerkleSpec == MerkleInit /\ [][MerkleNext]_boxed
---------------------------------------------------------------------------
(* Properties                                                              *)

BoxLeaves == [i \in DOMAIN boxed |-> ballotLeaf(boxed[i])]

(* The root is the one of RFC 6962, whatever the number of leaves          *)
(* (merkleRoot).                                                           *)
RootIsTreeHash == merkleRoot(BoxLeaves) = TreeHash(BoxLeaves)

(* A proof for a leaf verifies at its index, and nothing else does with    *)
(* it: no other index, no other leaf, no inner node that is passed off as  *)
(* a leaf (merkleProof, verifyProof).                                      *)
Digests == {EmptyRoot, leafHash(<<0, "hour", "other">>)}
             \cup {BoxLeaves[i] : i \in DOMAIN BoxLeaves}
             \cup {LevelUp(BoxLeaves)[i] : i \in DOMAIN LevelUp(BoxLeaves)}

ProofPinsLeaf ==
  \A i, j \in 0..(Len(boxed) - 1), claim \in Digests :
    verifyProof(claim, j, Len(boxed), merkleProof(BoxLeaves, i), merkleRoot(BoxLeaves))
      <=> (i = j /\ claim = BoxLeaves[i + 1])
=============================================================================
