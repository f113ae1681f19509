\* One review delivery and one crash.
SPECIFICATION Spec
CONSTANTS
  None = None
  Draft = FALSE
  MaxEvents = 1
  MaxFaults = 1
INVARIANTS ImportIsWhole
CHECK_DEADLOCK FALSE
