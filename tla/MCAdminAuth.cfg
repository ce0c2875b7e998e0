SPECIFICATION Spec
CONSTANTS
  r1 = r1
  r2 = r2
  p1 = p1
  p2 = p2
  Requests = {r1, r2}
  Passwords = {p1, p2}
  MAX_LOGIN_ATTEMPTS = 2
  MaxStep = 2
  MaxSecrets = 2
SYMMETRY MCSymmetry
INVARIANT TriesBounded
INVARIANT CodeSessionsBounded
INVARIANT BothFactorsBeforeChange
CHECK_DEADLOCK FALSE
