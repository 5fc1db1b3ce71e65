SPECIFICATION OwnersSpec
CONSTANTS
  Executions = {x1}
  MaxEntries = 2
  MaxEpoch = 1
  b1 = b1
  b2 = b2
  a1 = a1
  a2 = a2
  NoBranch = NoBranch
  Branches = {b1, b2}
  Sources = {a1, a2}
  MaxRevision = 10
  Processes = {p1, p2}
  Instances = {i1, i2}
  MaxLeases = 3
  Worlds <- ExactWorld
CHECK_DEADLOCK FALSE
INVARIANT ResumeEligible
