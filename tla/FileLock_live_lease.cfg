CONSTANTS
  Proc = {p1, p2, p3}
  NoProc = NoProc
SPECIFICATION Spec
PROPERTY LiveLeaseNotReclaimed
CHECK_DEADLOCK FALSE
