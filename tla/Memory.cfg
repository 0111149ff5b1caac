CONSTANTS
  Size = 5
  TokenCounts = {1, 2, 6}
  MaxForwards = 5
  SkipCounts <- DefaultSkips
  MaxBytes = 3
  Sizes = {1, 2, 3}
  MaxSteps = 9
  MaxGenerations = 2
  Users = {u1, u2}
  Keys = {k1, k2, k3}
  ResultSizes = {1, 2, 3}
  CacheBytes = 4
  CacheEntries = 2
  MaxClears = 2
  BlockCount = 2
  Weights = {w1, w2}
  WeightBytes = {1, 2}
  Budgets = {4, 6}
  NoBlock = NoBlock
  MaxDepth = 2
  MaxSwaps = 1
SPECIFICATION MCSpec
CHECK_DEADLOCK FALSE
INVARIANTS IdsTellAge RetainedWithinBudget ReuseRunsAreGranted OutputsAreLatest NoStaleHit WithinBudgets ForwardsAreExact
PROPERTIES ImplementsWindow
