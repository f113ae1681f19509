\* Two rules, two evaluations, two faults, one edit.
SPECIFICATION FairSpec
CONSTANTS
  j1 = j1  j2 = j2  Snapshots = Snapshots  Risk = Risk  None = None
  Jobs = {j1, j2}
  Rules = {1, 2}
  Levels = {1}
  Comparator <- MCComparator
  Source <- MCSource
  Cooldowns = {1}
  Thresholds = {1}
  MaxAttempts = 2
  MaxTime = 2
  MaxPublications = 2
  MaxEdits = 1
  MaxFaults = 2
INVARIANTS CooldownRespected SilencedByDelivery NoLostEvaluation
PROPERTIES EvaluationsCatchUp
CHECK_DEADLOCK FALSE
