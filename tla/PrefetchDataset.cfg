CONSTANTS
  Workers = {w1, w2}
  Reader = reader
  Size = 4
  PrefetchSizes = {1, 3}
  Failing = {0, 2}
  MaxGets = 3
SPECIFICATION Spec
CHECK_DEADLOCK FALSE
INVARIANTS ReturnsRequestedUntilThrow
PROPERTIES GetReturns
