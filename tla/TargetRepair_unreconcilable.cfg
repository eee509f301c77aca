CONSTANTS
  Other = Other
  NoRead = NoRead
  AttemptLimit = 1
  AttemptExtension = 1
  BaseLimit = 1
  RevisionExtension = 1
  MaxKills = 1
  MaxFaults = 0
  MaxEdits = 0
SPECIFICATION Spec
INVARIANT UnknownIsReconcilable
CHECK_DEADLOCK FALSE
