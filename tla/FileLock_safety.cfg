CONSTANTS
  Proc = {p1, p2, p3}
  NoProc = NoProc
SPECIFICATION FairSpec
INVARIANTS
  ExclusiveUnlessOvertaken
  NoAbandonedLock
PROPERTIES
  DeadOwnerReclaimed
CHECK_DEADLOCK FALSE
