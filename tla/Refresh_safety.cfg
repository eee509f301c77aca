CONSTANTS
  NoPlan = NoPlan
  NoRead = NoRead
  NoCommit = NoCommit
  NoRevision = NoRevision
  MaxKills = 2
  MaxFaults = 2
  MaxEdits = 1
SPECIFICATION FairSpec
INVARIANTS
  TypeOK
  ConfirmedMeansCandidate
  LeaseKeepsBaseline
  JournalAgrees
PROPERTIES
  KeepsPromise
  OutcomeSettled
CHECK_DEADLOCK FALSE
