SPECIFICATION Spec
CONSTANTS
  r1 = r1
  r2 = r2
  o1 = o1
  o2 = o2
  Requests = {r1, r2}
  ANCHOR_TARGETS <- MCTargets
  ANCHOR_OBSERVERS = {o1, o2}
  MaxSeq = 2
  MaxTx = 2
  MaxRebuilds = 1
SYMMETRY MCSymmetry
INVARIANT RecordedIsOutside
INVARIANT VerifyNoFalseAlarm
INVARIANT RebuildExposed
INVARIANT CoversCaller
INVARIANT TargetsTried
CHECK_DEADLOCK FALSE
