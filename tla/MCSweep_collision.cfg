CONSTANTS
  None = None
  NoValue = NoValue
  Torn = Torn
  SqlTestik = SqlTestik
  DirTraces = DirTraces
  IntDomain <- MCIntDomain
  IntervalDomain <- MCIntervalDomain
  FloatDomain <- MCFloatDomain
  SqlBackends = {SqlTestik}
  DirBackends = {DirTraces}
  Chain <- MCChain
  MaxSeed = 2
  Bases <- SrBases
  CliRuns <- SrCliRuns
  Xs <- SrXs
  Paths <- MCPaths
  Loaders = {"stats"}
  TraceSets = {{"stats", "tcp_rtt"}, {"stats", "tcp_rtt", "web"}}
SPECIFICATION Spec
INVARIANT LoadedDataMatches
