SPECIFICATION Spec
CONSTANTS
  Ranks = {r1, r2}
  N = 2
  Sizes = {1, 2, 3}
  kCoalesceCacheSize = 2
  Iterations = 2
INVARIANTS StepUsesSums
PROPERTIES IterationsEnd
