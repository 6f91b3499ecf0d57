SPECIFICATION Spec
CONSTANTS
  Callers = {c1, c2}
  Late = {}
  Worker = clk_work
  Pm = pm
  Boards <- MCBoards
  Light = {"mbp131"}
  Regs <- MCRegs
  Vals <- MCVals
  ClkReg = 0
  InitVerbs <- MCInitVerbs
  HwConfig <- MCHwConfig
  StandbyProbe <- MCProbe
  Transactions <- MCTransactions
  Reset <- MCReset
  Junk <- MCJunk
  Touched <- MCTouched
INVARIANTS IInv InitComplete Wired
PROPERTIES AtomicCoef PortsLast
