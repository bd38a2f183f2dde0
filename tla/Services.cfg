SPECIFICATION Spec
CONSTANTS
  Limits <- MCLimits
  Default = 3
  Cap = 2
  Callers = {c1, c2}
  Budgets <- MCBudgets
  Chunk = 2
  Sniff = 1
  Largest = 5
  Phases = 2
  InputLimit = 2
  MaxHops = 3
  MaxDepth = 2
  SkillDirs <- MCDirs
  Fold <- MCFold
  FileNames = 3
  Skills = {s1, s2}
  Trees <- MCTrees
  Shells = {c1, c2}
  Advisories <- MCAdvisories
  MaxAudits = 2
INVARIANTS
  ConversionIsFaithful
  CancelIsTold
  AclIsHonest
  CutsAreHonest
  ContainerIsHonest
  DecisionIsSafe
  GateHolds
  BaselineHolds
PROPERTIES
  SessionServes
  ConfigHolds
  WorkEnds
CHECK_DEADLOCK FALSE
