SPECIFICATION Spec
CONSTANTS
  Reviews = {r1, r2}
  Refreshes = {}
  NoReview = NoReview
  NoRefresh = NoRefresh
  Free = Free
  MaxRevision = 2
  MaxKills = 0
SYMMETRY Interchangeable
INVARIANTS
  OneWriterPerRevision
CHECK_DEADLOCK FALSE
