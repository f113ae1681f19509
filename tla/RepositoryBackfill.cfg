\* The modes side by side: pages of one item, a cap of three runs.
SPECIFICATION FairSpec
CONSTANTS
  None = None
  Issues = {1, 2, 3}
  Pulls = {1, 2, 3}
  Runs = {0, 1, 2, 3, 4}
  Created <- MCCreated
  PullsAtStart <- MCPulls
  CompletedAtStart <- MCCompleted
  Cutoff = 0
  Horizon = 8
  Second = 1
  PageSize = 1
  Cap = 3
  MaxWindows = 3
  MaxAttempts = 2
  MaxChanges = 2
  MaxFaults = 1
INVARIANTS NoRunOmitted WindowsCover CursorAccepted PullsImported ReviewsRefreshed IssuesReconciled
PROPERTIES BackfillEnds
CHECK_DEADLOCK FALSE
