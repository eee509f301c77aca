CONSTANTS
  Source = Source
  Prior = Prior
  NoCase = NoCase
  NoRevision = NoRevision
  MaxInterrupts = 1
  MaxFaults = 0
  MaxEdits = 0
  SourceMayAdvance = FALSE
SPECIFICATION FairSpec
PROPERTY KnownTargetCompletes
CHECK_DEADLOCK FALSE
