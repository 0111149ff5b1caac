CONSTANTS
  BlockCount = 2
  Weights = {w1, w2}
  WeightBytes = {1, 2}
  Budgets = {4, 6}
  NoBlock = NoBlock
  MaxDepth = 2
  MaxSwaps = 1
SPECIFICATION ResidencySpec
CHECK_DEADLOCK FALSE
INVARIANT ReplacedWeightsAreRefused
