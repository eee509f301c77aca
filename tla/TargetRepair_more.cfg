CONSTANTS
  Other = Other
  NoRead = NoRead
  AttemptLimit = 1
  AttemptExtension = 1
  BaseLimit = 1
  RevisionExtension = 1
  MaxKills = 1
  MaxFaults = 1
  MaxEdits = 1
SPECIFICATION Spec
INVARIANTS
  CheckpointsAreValidated
  RetestHasBatch
CHECK_DEADLOCK FALSE
