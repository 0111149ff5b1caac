CONSTANTS
  Backends = {b1, b2}
  Ports = {p1, p2}
  NoClient = NoClient
  Broken = Broken
  Steps = {4, 10}
  BakedSteps = 10
  NoCeiling = NoCeiling
  Runtimes = {r1, r2}
  MaxCycles = 3
  Processes = {t1, t2}
  Candidates = {"base", "wrong", "fast"}
  Baseline = "base"
  ClaimedTier <- Tiers
  Ceilings = {0, 1}
  Exact = {"base"}
  NoEntry = "none"
SPECIFICATION MCSpec
INVARIANTS NoOrphan ServedByOwnWorker ServedWithinPermission ServedAsAsked ChoicesAreSound TornOnlyByOverlap HistoryIsAnswered SeededEpisodesRepeat
PROPERTIES NoSilentReplacement OnlyTheWorkerIsAwaited
