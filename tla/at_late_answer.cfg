SPECIFICATION Spec
CONSTANTS
  Callers = {c1, c2}
  None = None
  Ops = {"exec"}
  LineNums = {0}
  BufSize = 4
  Faults = {"late"}
  MaxData = 1
  MaxUrcs = 0
  MaxCmds = 2
INVARIANTS
  SuccessIsOwn
CHECK_DEADLOCK FALSE
