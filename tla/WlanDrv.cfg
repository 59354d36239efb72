SPECIFICATION Spec
CONSTANTS
  t1 = t1
  t2 = t2
  Apps <- MCApps
  Ops <- MCOps
  Params = {p1}
  PipeLen = 3
  BufNum <- MCBufNum
  MaxPolls = 1
  Period <- MCPeriod
  Budget = 3
  None = None
INVARIANTS SlotIntact   ViewAgrees RoamTracked
CHECK_DEADLOCK FALSE
PROPERTY CallsReturn
