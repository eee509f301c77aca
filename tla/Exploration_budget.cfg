CONSTANTS
  rootOnly = rootOnly
  costly = costly
  wide = wide
  quick = quick
  k1 = k1
  Plans = {quick}
  NoPlan = NoPlan
  Nothing = Nothing
  Keys = {k1}
  Seeds <- PlanSeeds
  MaxStates = 6
  MaxActions = 5
  MaxDepth = 3
  MinStates = 5
  MinControls = 3
  MaxPairs = 1
  MaxFaults = 0
  MaxKills = 0
SPECIFICATION Spec
INVARIANT ParityIsComplete
CHECK_DEADLOCK FALSE
