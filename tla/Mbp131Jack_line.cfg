SPECIFICATION Spec
CONSTANTS
  MaxJacks = 1
  MaxSuspends = 0
  MaxSleeps = 1
  MaxErrors = 0
  MaxResponses = 1
  QuickSwap = FALSE
  Aborts = FALSE
CHECK_DEADLOCK FALSE
INVARIANTS LineWatched
