CONSTANTS
  VideoTokens = 2
  ActionTokens = 1
  MaxTransients = 1
  MaxForwards = 15
  MaxAborts = 1
  Periods = 2
  Total = 6
  KeySizes <- MCKeySizes
  UsePlanBuffer = TRUE
  Unset = Unset
SPECIFICATION ParitySpec
INVARIANTS NeverWraps PlanIsCurrent StockCouldTakeOver
PROPERTIES ImplementsWindow SameKeysInOrder
