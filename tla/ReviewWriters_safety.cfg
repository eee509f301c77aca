SPECIFICATION Spec
CONSTANTS
  Reviews = {r1, r2}
  Refreshes = {f1, f2}
  NoReview = NoReview
  NoRefresh = NoRefresh
  Free = Free
  MaxRevision = 2
  MaxKills = 1
SYMMETRY Interchangeable
INVARIANTS
  OneWriterIfChecked
  PredecessorsGiveUp
  SuccessionIsRecorded
PROPERTIES
  SupersededIsFinal
CHECK_DEADLOCK FALSE
