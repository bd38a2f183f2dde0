\* Cursor with a hooks.json that has no handler of the managed event.
CONSTANTS
  user = user
  blob = blob
  edit = edit
  UserItem = edit
  Items <- MCItems
  Hidden <- MCHidden
  Docs <- CursorOnly
  Seconds <- MCSeconds
  Surroundings <- MCSurroundings
  MaxRuns = 2
  MaxUserSteps = 0
SPECIFICATION AgentSpec
INVARIANT RollbackRestores
CHECK_DEADLOCK FALSE
