CONSTANTS
  Nil = Nil
  MaxLinkChanges = 4
  MaxFailures = 2
SPECIFICATION FairSpec
INVARIANTS
  TypeOK
  ClosuresCatchUp
PROPERTY Settles
CHECK_DEADLOCK FALSE
