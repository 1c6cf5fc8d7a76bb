SPECIFICATION FairSpec
CONSTANTS
  Callers = {c1, c2}
  None = None
  Ops = {"exec", "wait_connect"}
  LineNums = {0}
  BufSize = 2
  Faults = {"late"}
  MaxData = 0
  MaxUrcs = 0
  MaxCmds = 2
INVARIANTS
  TypeOK
  RespOwned
  RespAllocated
PROPERTIES
  CallReturns
CHECK_DEADLOCK FALSE
