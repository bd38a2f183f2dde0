SPECIFICATION Spec
CONSTANTS
  r1 = r1
  r2 = r2
  v1 = v1
  n1 = n1
  n2 = n2
  Runs <- TwoRuns
  Revokers <- OneRevoker
  Nonces <- Approvals
  NumFiles = 1
  Assignments <- Mixed
INVARIANTS
  SingleUse
  RevocationWins
  EffectsNeedApproval
  PreparedIsWhole
PROPERTIES
  RemovesOnlyItsOwn
CHECK_DEADLOCK FALSE
