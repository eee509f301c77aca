CONSTANTS
  Proc = {p1, p2, p3}
  NoProc = NoProc
SPECIFICATION FairSpec
INVARIANTS
  TypeOK
  ExclusiveWithoutDeath
CHECK_DEADLOCK FALSE
