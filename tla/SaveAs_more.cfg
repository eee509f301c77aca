CONSTANTS
  Source = Source
  Prior = Prior
  NoCase = NoCase
  NoRevision = NoRevision
  MaxInterrupts = 2
  MaxFaults = 2
  MaxEdits = 1
  SourceMayAdvance = TRUE
SPECIFICATION FairSpec
PROPERTIES
  FrozenAtCreation
  RetryKeepsRevision
CHECK_DEADLOCK FALSE
