\* The thresholds of the code.
SPECIFICATION WatchdogSpec
CONSTANTS
  Agent = {a1}
  Watchdog = {w1}
  LoopThreshold = 5
  BailOut = 3
  MaxLoops = 5
INVARIANT LoopingMeansItsThreshold
