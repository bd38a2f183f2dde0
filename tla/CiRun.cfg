SPECIFICATION Spec
CONSTANTS
  f = f
  g = g
  Files <- TwoFiles
  Plans <- SomePlans
INVARIANTS
  AnswerIsTrue
  ReportIsWhole
PROPERTIES
  RunsEnd
CHECK_DEADLOCK FALSE
