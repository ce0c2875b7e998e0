SPECIFICATION MCSpec
CONSTANTS
  k1 = k1
  k2 = k2
  Abs = Abs
  Abstain = Abs
  Uuids = {"candidate a", "candidate b"}
  Keys = {k1, k2}
  KeyText <- MCKeyText
  Coeffs <- MCCoeffs
  Shapes <- MCShapes
  MaxSplits = 2
  MaxLeaves = 9
  CastBallots <- MCCastBallots
INVARIANT KeyNeverGarbled
INVARIANT QuorumRestores
INVARIANT OpensAsSealed
INVARIANT RootIsTreeHash
INVARIANT ProofPinsLeaf
CHECK_DEADLOCK FALSE
