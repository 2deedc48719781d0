CONSTANTS
  MaxIterations = 2
  MaxRevisions = 3
SPECIFICATION StepsSpec
INVARIANT CyclesWithinLimit
CHECK_DEADLOCK FALSE
