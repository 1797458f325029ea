CONSTANTS
  Ball = {8, 9}
  MaxShots = 3
  MaxChanges = 1
SPECIFICATION Spec
INVARIANTS
  TypeOK
  CountersAreExact
  StreaksAreExact
CHECK_DEADLOCK FALSE
