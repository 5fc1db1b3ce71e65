SPECIFICATION WorkflowSpec
CONSTANTS
  i1 = i1
  i2 = i2
  i3 = i3
  Instances = {i1, i2, i3}
  Bindings <- SmallBindings
  Operations = {o1, o2, o3, o4, o5}
  MaxInstances = 2
  GlobalQueueCapacity = 3
  PerInstanceQueueCapacity = 2
  MaxRetained = 2
  None = None
  Nodes = {1, 2, 3}
  Plans <- ThreePlans
  Owners = {w1}
  Cap = 2
  Limit = 5
  Units = 2
  MaxRuns = 2
  PlanNodes = {1, 2, 3}
  Listings <- AllListings
  MaxEdges = 4
CHECK_DEADLOCK FALSE
INVARIANTS
  SchedulerSound
  RegionSound
  PlanOrderSound
PROPERTIES
  OutcomesKept
  IdleInstanceServed
  LoopEnds
