SPECIFICATION BoundarySpec
CONSTANTS
  ServedRuns = {w1, w2}
  MaxProviderCalls = 2
  Absent = Absent
CHECK_DEADLOCK FALSE
INVARIANT ApprovalsOwned
