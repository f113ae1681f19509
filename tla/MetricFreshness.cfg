\* Three deployments and a pull request in any order, a backfill, one crash.
SPECIFICATION Spec
CONSTANTS
  c = c  other = other  d1 = d1  d2 = d2  d3 = d3  p1 = p1  prod = prod
  None = None
  Deployments = {d1, d2, d3}
  Pulls = {p1}
  Horizon = 4
  Calendar <- MCCalendar
  Runs <- MCRuns
  PullStates <- MCPullStates
  Environments = {prod}
  Production = {prod}
  BackfillRanges <- MCBackfillRanges
  MaxDeliveries = 3
  MaxDisturbances = 1
INVARIANTS SnapshotsCorrect AlertWindowExact
SYMMETRY MCSymmetry
CHECK_DEADLOCK FALSE
