CONSTANTS
  None = None
  IntDomain = {0, 1}
  FloatDomain = {}
  IntervalDomain = {}
  Scen <- MCScen
  Seed = 7
  Events = {"DEQUEUE", "DROP"}
  Sizes = {1, 2}
  Delays = {1, 3}
  Summaries <- MCSummaries
  MaxRows = 3
  WebLines <- MCWebLines
  RttLines <- MCRttLines
  MaxLines = 2
SPECIFICATION Spec
CHECK_DEADLOCK FALSE
INVARIANT StatsMatchSpec
INVARIANT PowerPerFlowMatchesSpec
