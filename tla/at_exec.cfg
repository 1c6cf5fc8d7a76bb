SPECIFICATION Spec
CONSTANTS
  Callers = {c1, c2}
  None = None
  Ops = {"exec"}
  LineNums = {0}
  BufSize = 4
  Faults = {"lost"}
  MaxData = 2
  MaxUrcs = 1
  MaxCmds = 2
INVARIANTS
  NoCrash
PROPERTIES
  ContractSpec
CHECK_DEADLOCK FALSE
