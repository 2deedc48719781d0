SPECIFICATION Spec
CONSTANTS
  Ingester = {p1, p2}
  Event = {e1, e2, e3}
  Valid = {e1, e2}
  File = {f1, f2}
  MaxClaims = 1
  BatchSize = 1
  MaxSpoolFaults = 1
  Entry = {1, 2, 3}
  Rollup = {11, 12}
  Compactor = {c1, c2}
  Threshold = {1}
  Keep = {1, 2}
  MaxEntries = 2
  MaxTaken = 1
  MaxUsed = 1
  Test = {t1, t2, t3}
  MinRate <- Half
  Proc = {d1, d2}
  Job = {1, 2}
  Node = {n1, n2}
  MaxLockFaults = 3
  Window = {h1, h2}
  Device = {k1, k2}
  Agent = {a1}
  Watchdog = {w1}
  LoopThreshold = 2
  BailOut = 1
  MaxLoops = 2
INVARIANTS
  SpoolTypeOK NoMetricLost
  LedgerTypeOK ArchivedIsCovered
  RanIffAllowed PassedMeansCritical GuardNeverActs
  DeviceTypeOK DeviceExclusive
  SweepExclusive
  TrustTypeOK NoSilentDevice
  NoFalseLoop
PROPERTY SparesLastUsed
\* A suite ends, and a ledger may be at rest.
CHECK_DEADLOCK FALSE
