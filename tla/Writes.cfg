SPECIFICATION WritesSpec
CONSTANTS
  NumComps = 2
  NumAncestors = 1
  NumDirs = 3
  Candidates = 2
  Home <- HomeClaude
  Plans <- PlansClaude
  SkillOf = {"both"}
  HookOf = {"lint", "both"}
  MaxSyncEdits = 2
  MaxPage = 5
INVARIANTS
  SuccessIsComplete
  FailureRestores
  BackupCoversReplacement
  NothingUnreported
  PublishedInOrder
  SyncKeeps
PROPERTIES
  EarlyEditsSurvive
CHECK_DEADLOCK FALSE
