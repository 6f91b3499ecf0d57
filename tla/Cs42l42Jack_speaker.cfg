\* The speaker switch written in standby as well.
SPECIFICATION Spec
CONSTANTS
  Boards = {"dell"}
  Plugs <- PlugsOf
  MaxEvents <- Three
  Sleeps = {}
  AwakePuts = FALSE
INVARIANT ChipsOut
CHECK_DEADLOCK FALSE
