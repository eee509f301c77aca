CONSTANTS
  rootOnly = rootOnly
  costly = costly
  wide = wide
  quick = quick
  k1 = k1
  k2 = k2
  Plans = {rootOnly, quick}
  NoPlan = NoPlan
  Nothing = Nothing
  Keys = {k1}
  Seeds <- PlanSeeds
  MaxStates = 6
  MaxActions = 5
  MaxDepth = 3
  MinStates = 5
  MinControls = 3
  MaxPairs = 1
  MaxFaults = 1
  MaxKills = 1
SPECIFICATION FairSpec
INVARIANTS
  ParityMissesOneAtMost
  BudgetKept
  RepeatsOnlyCutPaths
PROPERTIES
  CheckpointsOnlyExtend
  ResumedUntilComplete
CHECK_DEADLOCK FALSE
