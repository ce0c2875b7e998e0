SPECIFICATION Spec
CONSTANTS
  v1 = v1
  v2 = v2
  r1 = r1
  r2 = r2
  p = p
  Null = Null
  Voters = {v1, v2}
  Identities <- MCIdentities
  Modes = {"off", "required"}
  Requests = {r1, r2}
  MAX_OTP_ATTEMPTS = 2
  MAX_OTP_SENDS = 1
SYMMETRY MCSymmetry
INVARIANT SignInTypeOK
INVARIANT TextsBounded
INVARIANT ReceiptToVoter
INVARIANT OneRowPerPerson
CHECK_DEADLOCK FALSE
