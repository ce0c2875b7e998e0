SPECIFICATION Spec
CONSTANTS
  v1 = v1
  v2 = v2
  a1 = a1
  a2 = a2
  n1 = n1
  r1 = r1
  r2 = r2
  Abstain = Abstain
  Garbage = Garbage
  Requests = {r1, r2}
  Voters = {v1, v2}
  BallotIds = {1}
  Names = {n1}
  Admins = {a1}
  Quorum = 1
  Chunk = 1
  RosterChunk = 1
  MaxGenerations = 2
  MaxSeq = 2
  Ops = {"import", "candidates", "seal", "open", "checkpoint"}
  Crashes = TRUE
  Votes <- MCVotes
  RowIds <- MCRowIds
SYMMETRY MCSymmetry
INVARIANT SealedBeforeOpen
INVARIANT ChainLinear
INVARIANT TypeOK
PROPERTY ChainSpec
CHECK_DEADLOCK FALSE
