\* One deployment that finishes again on a later day.
SPECIFICATION Spec
CONSTANTS
  c = c  other = other  d1 = d1  d2 = d2  d3 = d3  p1 = p1  prod = prod
  None = None
  Deployments = {d1}
  Pulls = {}
  Horizon = 4
  Calendar <- MCCalendar
  Runs <- MCRuns
  PullStates <- MCPullStates
  Environments = {prod}
  Production = {prod}
  BackfillRanges <- MCBackfillRanges
  MaxDeliveries = 2
  MaxDisturbances = 0
INVARIANTS BurstsRecalculated
SYMMETRY MCSymmetry
CHECK_DEADLOCK FALSE
