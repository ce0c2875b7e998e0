SPECIFICATION Spec
CONSTANTS
  v1 = v1
  v2 = v2
  forged = forged
  c1 = c1
  c2 = c2
  script = script
  Requests = {script}
  Script = script
  Voters = {v1, v2, forged}
  Forged = forged
  BallotIds = {1, 2, 3}
  Votes = {c1, c2}
  RowIds = {c1, c2}
  Chunk = 1
  MaxEdits = 3
INVARIANT VerdictRight
INVARIANT OnlyPinnedPasses
