SPECIFICATION SyncSpec
CONSTANTS
  SkillOf = {"tool", "both"}
  HookOf = {"lint", "both"}
  MaxSyncEdits = 2
  MaxPage = 6
PROPERTIES
  SyncDoesNotGrow
CHECK_DEADLOCK FALSE
