SPECIFICATION ClientsSpec
CONSTANTS
  t1 = t1
  t2 = t2
  v1 = v1
  v2 = v2
  c1 = c1
  c2 = c2
  a1 = a1
  Abstain = Abstain
  Garbage = Garbage
  NoVoter = NoVoter
  NoPick = NoPick
  NoSession = NoSession
  Me = a1
  Tabs = {t1, t2}
  Voters = {v1, v2}
  Admins = {a1}
  BallotIds = {1, 2}
  CandidateIds = {c1, c2}
  Quorum = 1
  IDENTITY_MODE = "optional"
  ELECTION_ID = FALSE
  MaxSessions = 2
CONSTRAINT MCBounds
SYMMETRY MCSymmetry
INVARIANT DoneIsBoxed
INVARIANT OneReceipt
INVARIANT ExpiredIsTrue
INVARIANT NumbersTrue
CHECK_DEADLOCK FALSE
