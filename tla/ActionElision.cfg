CONSTANTS
  VideoTokens = 2
  ActionTokens = 1
  MaxTransients = 1
  MaxForwards = 13
  MaxAborts = 1
  Total = 6
  UsePlanBuffer = TRUE
  Unset = Unset
  Nothing = Nothing
  VideoExecStepTraced = TRUE
SPECIFICATION EngineSpec
PROPERTIES ElisionIsExact SettledInPlace SkipIsExact CommitReadsComputed
