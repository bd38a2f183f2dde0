SPECIFICATION Spec
CONSTANTS
  r1 = r1
  r2 = r2
  v1 = v1
  n1 = n1
  n2 = n2
  Runs <- OneRun
  Revokers <- OneRevoker
  Nonces <- Approvals
  NumFiles = 6
  Assignments <- Alone
INVARIANTS
  DeniedLeavesNothing
PROPERTIES
  ExecutionsEnd
CHECK_DEADLOCK FALSE
