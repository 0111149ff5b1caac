CONSTANTS
  Times = {t1, t2}
  OtherTimes = {o1}
  Warmup = 3
  NoTime = NoTime
  MaxChunks = 5
SPECIFICATION StaticSpec
INVARIANT OnlyCheckedGraphsServe
