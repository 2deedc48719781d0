\* Two assertions, so that one can pass beside one that is skipped.
SPECIFICATION SuiteSpec
CONSTANTS
  Test = {t1, t2}
  MinRate <- Half
INVARIANT FloorHoldsForSkipped
CHECK_DEADLOCK FALSE
