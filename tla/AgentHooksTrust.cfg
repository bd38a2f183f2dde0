\* Codex with a hook of the user's own before ours.
CONSTANTS
  user = user
  blob = blob
  edit = edit
  UserItem = edit
  Items <- MCItems
  Hidden <- MCHidden
  Docs <- TrustDocs
  Seconds <- MCSeconds
  Surroundings <- MCSurroundings
  MaxRuns = 2
  MaxUserSteps = 1
SPECIFICATION AgentSpec
INVARIANT TrustDetected
CHECK_DEADLOCK FALSE
