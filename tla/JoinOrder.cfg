SPECIFICATION RegionSpec
CONSTANTS
  Nodes = {1, 2, 3, 4}
  Plans <- TwoChains
  Owners = {w1}
  Cap = 2
  Limit = 3
  Units = 1
  MaxRuns = 1
CHECK_DEADLOCK FALSE
INVARIANT JoinOrderFree
