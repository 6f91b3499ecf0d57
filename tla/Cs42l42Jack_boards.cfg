\* The Dell boards and Dolphin, with the speaker switch written in use only.
SPECIFICATION Spec
CONSTANTS
  Boards = {"dell", "dolphin"}
  Plugs <- PlugsOf
  MaxEvents <- Three
  Sleeps = {"dell"}
  AwakePuts = TRUE
INVARIANTS TypeOK ChipsOut SwitchKept Told TypeKnown  PlugKnown
PROPERTY TypeNoticed
CHECK_DEADLOCK FALSE
