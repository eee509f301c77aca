CONSTANTS
  Source = Source
  Prior = Prior
  NoCase = NoCase
  NoRevision = NoRevision
  MaxInterrupts = 1
  MaxFaults = 0
  MaxEdits = 0
  SourceMayAdvance = FALSE
SPECIFICATION Spec
INVARIANT SingleTarget
CHECK_DEADLOCK FALSE
