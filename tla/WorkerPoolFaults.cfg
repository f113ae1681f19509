\* One job, three consumers of two processes: crashes, faults, a lost lease session.
SPECIFICATION FairSpec
CONSTANTS
  b1 = b1  b2 = b2  c1 = c1  c2 = c2  c3 = c3  j1 = j1  j2 = j2  j3 = j3  w1 = w1  r1 = r1
  None = None
  Boots = {b1, b2}
  Consumers = {c1, c2, c3}
  BootOf <- MCBootOf
  Jobs = {j1}
  Workspace <- MCWorkspace
  Repository <- MCOneRepository
  Deletions = {}
  Poison = {}
  Rank <- MCOneRank
  MaxAttempts = 2
  StaleAfter = 3
  HeartbeatEvery = 1
  MaxMissedBeats = 1
  MaxContinuations = 1
  MaxFaults = 1
  MaxLosses = 1
INVARIANTS TypeOK OneExecutor ExecutorOwnsRow NoStrandedJob AttemptAccounting DeadOnlyWhenSpent
PROPERTIES ImplementsQueue EveryJobFinishes
CHECK_DEADLOCK FALSE
