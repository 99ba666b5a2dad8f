CONSTANTS
  None = None
  NoValue = NoValue
  Torn = Torn
  SqlTestik = SqlTestik
  DirTraces = DirTraces
  IntDomain <- MCIntDomain
  IntervalDomain <- MCIntervalDomain
  FloatDomain <- MCFloatDomain
  SqlBackends = {SqlTestik}
  DirBackends = {DirTraces}
  Chain <- MCChain
  MaxSeed = 2
  Bases <- MCBases
  CliRuns <- MCCliRuns
  Xs <- MCXs
  Paths <- MCPaths
  Loaders = {"rtt"}
  TraceSets = {{"stats", "tcp_rtt"}, {"stats", "tcp_rtt", "web"}}
SPECIFICATION Spec
INVARIANT NoDataErrorNeverEscapes
