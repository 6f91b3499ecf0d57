SPECIFICATION FairSpec
CONSTANTS
  MaxJacks = 2
  MaxSuspends = 2
  MaxSleeps = 0
  MaxErrors = 0
  MaxResponses = 2
  QuickSwap = FALSE
  Aborts = FALSE
CHECK_DEADLOCK FALSE
INVARIANTS LineWatched TipSenseWatched
PROPERTIES DetectUnknown JackNoticed
