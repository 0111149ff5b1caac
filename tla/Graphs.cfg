CONSTANTS
  VideoTokens = 2
  ActionTokens = 1
  MaxTransients = 0
  MaxForwards = 16
  MaxAborts = 1
  Periods = 2
  Total = 6
  KeySizes <- MCKeySizes
  UsePlanBuffer = TRUE
  Unset = Unset
  MaxGraphs = 3
  Certified = TRUE
  MaxMoves = 1
  Pools = {k1, k2}
  CrossKVs = {x1}
  Addresses = {a1, a2, a3, a4}
  Nowhere = Nowhere
  PromptFirst = TRUE
  Inputs = {in1, in2}
  MetaAddresses = {m1, m2, m3}
  Extents = {1, 2}
  MaxEntries = 2
  MaxObjects = 3
  Times = {t1, t2}
  OtherTimes = {o1}
  Warmup = 2
  MaxChunks = 5
  NoTime = NoTime
SPECIFICATION MCSpec
INVARIANTS GraphsAreLive KeptGraphsAreLive AnswersAreEager RepliesAreUpstreams
PROPERTIES ImplementsRing SurvivesFromThirdReset
