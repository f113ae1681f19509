\* Three deliveries, one fault.
SPECIFICATION Spec
CONSTANTS
  None = None
  Draft = FALSE
  MaxEvents = 3
  MaxFaults = 1
INVARIANTS RowConverges ListsConverge MergedIsMeasured ProcessedMeansMirrored
CHECK_DEADLOCK FALSE
