CONSTANTS
  rootOnly = rootOnly
  costly = costly
  wide = wide
  quick = quick
  k1 = k1
  k2 = k2
  Plans = {rootOnly, costly, wide}
  NoPlan = NoPlan
  Nothing = Nothing
  Keys = {k1, k2}
  Seeds <- PlanSeeds
  MaxStates = 3
  MaxActions = 2
  MaxDepth = 2
  MinStates = 3
  MinControls = 2
  MaxPairs = 2
  MaxFaults = 1
  MaxKills = 1
SPECIFICATION FairSpec
INVARIANTS
  TypeOK
  SequenceFollows
  ReportMatchesCheckpoint
  ParityMissesOneAtMost
  BudgetKept
  RepeatsOnlyCutPaths
PROPERTIES
  CheckpointsOnlyExtend
  ResumedUntilComplete
CHECK_DEADLOCK FALSE
