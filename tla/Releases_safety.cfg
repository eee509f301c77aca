SPECIFICATION Spec
CONSTANTS
  p1 = p1
  p2 = p2
  none = none
  Commands <- MCCommands
  None = none
  Versions <- MCVersions
  Bundled = 2
  Accepts <- MCAccepts
  Channel <- MCChannel
  Configured <- Kinds
  HistoryLimit = 2
  MaxStarts = 3
SYMMETRY Interchangeable
INVARIANTS
  RollbackReturns
  SetStaysCompatible
  JobsAreCompatible
CHECK_DEADLOCK FALSE
