\* Two changes and no crash: recovery collides with the waiting row.
SPECIFICATION FairSpec
CONSTANTS
  r1 = r1  r2 = r2  r3 = r3  Writer = Writer  None = None
  Rows = {r1, r2}
  Horizon = 1
  MaxAttempts = 2
  MaxWrites = 2
  MaxCrashes = 0
PROPERTY StaleClaimsRecovered
CHECK_DEADLOCK FALSE
