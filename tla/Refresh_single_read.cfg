CONSTANTS
  NoPlan = NoPlan
  NoRead = NoRead
  NoCommit = NoCommit
  NoRevision = NoRevision
  MaxKills = 1
  MaxFaults = 0
  MaxEdits = 0
SPECIFICATION Spec
INVARIANT UnknownAfterRepeatedReads
CHECK_DEADLOCK FALSE
