\* Two jobs of a repository and the deletion of its workspace, sessions stay open.
SPECIFICATION FairSpec
CONSTANTS
  b1 = b1  b2 = b2  c1 = c1  c2 = c2  c3 = c3  j1 = j1  j2 = j2  j3 = j3  w1 = w1  r1 = r1
  None = None
  Boots = {b1, b2}
  Consumers = {c1, c3}
  BootOf <- MCBootOfEach
  Jobs = {j1, j2, j3}
  Workspace <- MCWorkspace
  Repository <- MCRepository
  Deletions = {j3}
  Poison = {j3}
  Rank <- MCRank
  MaxAttempts = 1
  StaleAfter = 3
  HeartbeatEvery = 1
  MaxMissedBeats = 1
  MaxContinuations = 0
  MaxFaults = 0
  MaxLosses = 0
INVARIANTS ScopeExclusion GracefulStopHandsBack
PROPERTIES DeletionSparesHandlers EveryJobFinishes StopDrains
CHECK_DEADLOCK FALSE
