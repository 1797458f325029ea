CONSTANTS
  NumBalls = 2
  NumRows = 2
  Nil = Nil
SPECIFICATION Spec
INVARIANTS
  StoredIsLegal
  RowsShowTheDict
PROPERTIES
  StoredIsShown
  UntouchedIsKept
CHECK_DEADLOCK FALSE
