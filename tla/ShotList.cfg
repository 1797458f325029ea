CONSTANTS
  TicksPerDay = 2
  MaxTime = 6
  MaxShots = 3
  Nil = Nil
SPECIFICATION Spec
INVARIANTS
  TargetIsShown
  ListIsCurrent
  DaysStayApart
CHECK_DEADLOCK FALSE
