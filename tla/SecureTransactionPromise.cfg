SPECIFICATION Spec
CONSTANTS
  NumComps = 2
  NumAncestors = 1
  NumDirs = 3
  Candidates = 1
  Home <- HomeClaude
  Plans <- PlansMixed
PROPERTIES
  EveryStepSpends
  ImplementsAllOrNothing
CHECK_DEADLOCK FALSE
