SPECIFICATION Spec
CONSTANTS
  MaxJacks = 2
  MaxSuspends = 0
  MaxSleeps = 0
  MaxErrors = 0
  MaxResponses = 2
  QuickSwap = TRUE
  Aborts = FALSE
CHECK_DEADLOCK FALSE
INVARIANTS NoStaleJack
