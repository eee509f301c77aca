CONSTANTS
  Other = Other
  NoRead = NoRead
  AttemptLimit = 1
  AttemptExtension = 1
  BaseLimit = 1
  RevisionExtension = 1
  MaxKills = 0
  MaxFaults = 1
  MaxEdits = 1
SPECIFICATION FairSpec
PROPERTY OutcomeSettled
CHECK_DEADLOCK FALSE
