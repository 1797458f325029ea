CONSTANTS
  r1 = r1
  s1 = s1
  s2 = s2
  Nil = Nil
  Doc <- MCDoc
  Report <- MCReport
  MaxBackups = 1
  MaxKills = 0
  MaxOutages = 1
  MaxRefusals = 0
SPECIFICATION Spec
INVARIANT SuccessIsReplaced
CHECK_DEADLOCK FALSE
