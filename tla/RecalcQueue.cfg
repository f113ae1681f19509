\* Three changes of two instants, one crash.
SPECIFICATION FairSpec
CONSTANTS
  r1 = r1  r2 = r2  r3 = r3  Writer = Writer  None = None
  Rows = {r1, r2, r3}
  Horizon = 2
  MaxAttempts = 2
  MaxWrites = 3
  MaxCrashes = 1
INVARIANTS TypeOK NoLostRecalculation
PROPERTIES SnapshotsCatchUp
CHECK_DEADLOCK FALSE
