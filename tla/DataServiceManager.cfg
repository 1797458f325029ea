CONSTANTS
  r1 = r1
  s1 = s1
  s2 = s2
  Nil = Nil
  Doc <- MCDoc
  Report <- MCReport
  ReportOf <- MCReportOf
  MaxChanges = 3
  MaxKills = 1
  MaxFlips = 1
  MaxRefusals = 1
SPECIFICATION MCSpec
INVARIANTS
  TypeOK
  OneRecordPerObject
  CleanIsMirrored
  NoForgottenRecord
  NoOrphanShot
PROPERTIES
  ImplementsMirror
  Converges
CHECK_DEADLOCK FALSE
