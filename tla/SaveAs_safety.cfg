CONSTANTS
  Source = Source
  Prior = Prior
  NoCase = NoCase
  NoRevision = NoRevision
  MaxInterrupts = 2
  MaxFaults = 2
  MaxEdits = 1
  SourceMayAdvance = TRUE
SPECIFICATION FairSpec
INVARIANTS
  TypeOK
  CreatesBound
  PathsKeepApart
  ForeignCaseIntact
  Delivered
  StatusFollowsJournal
  RoutingNotReplayed
PROPERTIES
  UninterruptedTargetCompletes
CHECK_DEADLOCK FALSE
