CONSTANTS
  None = None
  IntDomain <- MCIntDomain
  IntervalDomain <- MCIntervalDomain
  FloatDomain <- MCFloatDomain
  Flags <- MCFlags
SPECIFICATION Spec
INVARIANT BuiltScenarioLaunches
