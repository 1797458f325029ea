CONSTANTS
  r1 = r1
  r2 = r2
  s1 = s1
  Nil = Nil
  Doc <- MCDoc
  Report <- MCReport
  ReportOf <- MCReportOf
  MaxChanges = 3
  MaxKills = 1
  MaxFlips = 1
  MaxRefusals = 1
SPECIFICATION MCSpec
INVARIANTS
  RestoredIsMirrored
  RestoredHasReport
PROPERTY NothingOldIsReplaced
CHECK_DEADLOCK FALSE
