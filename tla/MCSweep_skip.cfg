CONSTANTS
  None = None
  NoValue = NoValue
  Torn = Torn
  SqlTestik = SqlTestik
  DirTraces = DirTraces
  IntDomain <- MCIntDomain
  IntervalDomain <- MCIntervalDomain
  FloatDomain <- MCFloatDomain
  SqlBackends = {SqlTestik}
  DirBackends = {DirTraces}
  Chain <- MCChain
  MaxSeed = 2
  Bases <- MCBases
  CliRuns <- MCCliRuns
  Xs <- MCXs
  Paths <- LearningPaths
  Loaders = {"power", "reward", "fct"}
  TraceSets = {{"stats", "tcp_rtt", "learning"}, {"stats", "tcp_rtt", "web", "learning"}}
SPECIFICATION Spec
INVARIANT ChartDrawsLoadedPoints
