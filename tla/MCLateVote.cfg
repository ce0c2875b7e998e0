SPECIFICATION MCOpenedSpec
CONSTANTS
  v1 = v1
  v2 = v2
  a1 = a1
  a2 = a2
  n1 = n1
  r1 = r1
  r2 = r2
  Abstain = Abstain
  Garbage = Garbage
  Requests = {r1, r2}
  Voters = {v1, v2}
  BallotIds = {1, 2}
  Names = {n1}
  Admins = {a1, a2}
  Quorum = 2
  Chunk = 1
  RosterChunk = 1
  MaxGenerations = 1
  MaxSeq = 2
  Ops = {"cast", "close"}
  Crashes = FALSE
  Votes <- MCVotes
  RowIds <- MCRowIds
SYMMETRY MCSymmetry
PROPERTY NoVoteAfterClose
CHECK_DEADLOCK FALSE
