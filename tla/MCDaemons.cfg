SPECIFICATION Spec
CONSTANTS
  Ingester = {p1, p2}
  Event = {e1}
  Valid = {e1}
  File = {f1, f2}
  MaxClaims = 1
  BatchSize = 1
  MaxSpoolFaults = 2
  Proc = {d1}
  Job = {1}
  Agent = {a1}
  Watchdog = {w1}
  LoopThreshold = 1
  BailOut = 1
  MaxLoops = 1
  Node = {n1, n2}
  MaxLockFaults = 2
PROPERTIES MetricsArrive LeaseReturned VerifyingEnds SweepsGoOn
CHECK_DEADLOCK FALSE
