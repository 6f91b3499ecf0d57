SPECIFICATION Spec
CONSTANTS
  MaxJacks = 2
  MaxSuspends = 1
  MaxSleeps = 1
  MaxErrors = 1
  MaxResponses = 1
  QuickSwap = FALSE
  Aborts = TRUE
CHECK_DEADLOCK FALSE
INVARIANTS IInv ChipAwake NoStaleJack RuntimeExclusive
