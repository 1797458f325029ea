CONSTANTS
  NumReports = 1
  NumShots = 2
  TicksPerSecond = 2
  MaxEdits = 0
  MaxInstalls = 1
  Nil = Nil
SPECIFICATION Spec
INVARIANT RestoredInOrder
CHECK_DEADLOCK FALSE
