\* Two installers of CI hooks; every agent with two runs and one user step;
\* two models of two providers, two commands and one edit.
CONSTANTS
  i1 = i1
  i2 = i2
  NumSlots = 2
  Candidates = 2
  Installers <- TwoInstallers
  Scenes <- SomeScenes
  user = user
  blob = blob
  edit = edit
  UserItem = edit
  Items <- MCItems
  Hidden <- MCHidden
  Docs <- MCDocs
  Seconds <- MCSeconds
  Surroundings <- MCSurroundings
  MaxRuns = 2
  MaxUserSteps = 1
  m1 = m1
  m2 = m2
  note = note
  None = None
  Models <- MCModels
  Provider <- MCProvider
  Local <- MCLocal
  Preset <- MCPreset
  Notes <- MCNotes
  Overlays <- MCOverlays
  Evidence <- MCEvidence
  MaxCommands = 2
  MaxEdits = 1
  LastSecond = 1
SPECIFICATION InstallSpec
INVARIANTS
  UserBytesSurvive
  HooksRunOrSaySo
  NeverHalfMigrated
  OthersKept
  VerdictsHold
  OnlyProven
  EditsKept
CHECK_DEADLOCK FALSE
