SPECIFICATION Spec
CONSTANTS
  f = f
  g = g
  Files <- TwoFiles
  Plans <- RunnerPlans
INVARIANTS
  LateStepFails
CHECK_DEADLOCK FALSE
