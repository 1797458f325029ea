CONSTANTS
  r1 = r1
  s1 = s1
  s2 = s2
  Nil = Nil
  Doc <- MCDoc
  Report <- MCReport
  MaxBackups = 1
  MaxKills = 0
  MaxOutages = 0
  MaxRefusals = 0
SPECIFICATION FairSpec
PROPERTY EndsReplaced
CHECK_DEADLOCK FALSE
