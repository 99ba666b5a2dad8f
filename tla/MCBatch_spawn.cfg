CONSTANTS
  SqlTestik = SqlTestik
  SqlOther = SqlOther
  DirTraces = DirTraces
  DirOther = DirOther
  None = None
  NoValue = NoValue
  Torn = Torn
  SqlBackends <- MCSqlBackends
  DirBackends <- MCDirBackends
  DefaultChain <- MCDefaultChain
  Paths <- MCPaths
  Flags <- MCFlags
  MaxSeed = 4
  Workers = 2
  MaxFaults = 1
  StartMethod = "spawn"

SPECIFICATION Spec
INVARIANT PersistedWhereConfigured
