CONSTANTS
  SqlTestik = SqlTestik
  SqlOther = SqlOther
  DirTraces = DirTraces
  DirOther = DirOther
  V1 = V1
  V2 = V2
  NoValue = NoValue
  Torn = Torn
  SqlBackends = {SqlTestik, SqlOther}
  DirBackends = {DirTraces, DirOther}
  DefaultChain <- MCDefaultChain
  TraceDbs = {SqlTestik, SqlOther}
  TraceDirs = {DirTraces, DirOther}
  Paths = {"stats"}
  MaxSeed = 2
  Vals = {V1, V2}
  MaxWrites = 3
  MaxCrashes = 0

SPECIFICATION Spec
CHECK_DEADLOCK FALSE
INVARIANT LastWriteVisible
