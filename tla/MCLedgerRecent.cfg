\* One call that keeps one entry, and nobody takes an entry away.
SPECIFICATION LedgerSpec
CONSTANTS
  Entry = {1, 2, 3}
  Rollup = {11}
  Compactor = {c1}
  Threshold = {1}
  Keep = {1}
  MaxEntries = 2
  MaxTaken = 0
  MaxUsed = 1
PROPERTY KeepsNewest
CHECK_DEADLOCK FALSE
