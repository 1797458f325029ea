CONSTANTS
  r1 = r1
  s1 = s1
  s2 = s2
  Nil = Nil
  Doc <- MCDoc
  Report <- MCReport
  ReportOf <- MCReportOf
  MaxBackups = 2
  MaxKills = 1
  MaxOutages = 1
  MaxRefusals = 1
  MaxEdits = 1
SPECIFICATION MCSpec
INVARIANTS
  TypeOK
  FullIsFinal
  BackedUpOrRecorded
  RingAwaits
PROPERTIES
  OnlyFailedBackupsCrash
  BackupEnds
CHECK_DEADLOCK FALSE
