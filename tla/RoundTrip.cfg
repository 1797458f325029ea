CONSTANTS
  NumReports = 1
  NumShots = 3
  TicksPerSecond = 2
  MaxEdits = 1
  MaxInstalls = 2
  Nil = Nil
SPECIFICATION Spec
INVARIANTS
  ReportTimesStay
  ShotsInOrder
CHECK_DEADLOCK FALSE
