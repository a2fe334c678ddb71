SPECIFICATION SignupSpec
CONSTANTS
  s1 = s1
  s2 = s2
  s3 = s3
  Starts <- ThreeStarts
  Verifies = {v1, v2, v3}
  Nothing = Nothing
  Business <- Shops
  MaxAttempts = 2
  Faults = {"crash", "call_fails", "undo_fails"}
SYMMETRY Alike
VIEW StillRead
CHECK_DEADLOCK FALSE
INVARIANTS DetailsMatchCode AllOrNothing ClaimCanFinish OnePhoneOneOwner
