CONSTANTS
  TicksPerDay = 3
  Start = 2
  MaxTime = 7
  MaxReports = 3
  Nil = Nil
SPECIFICATION Spec
INVARIANTS
  NumbersInOrder
  SectionsAreDays
  DeletedIsSwiped
  EditedExists
CHECK_DEADLOCK FALSE
