CONSTANTS
  Callers = {c1, c2, c3}
  FailureThreshold = 2
  HalfOpenMaxProbes = 2
  FailCap = 3
SPECIFICATION BreakerFairSpec
INVARIANTS
  StateMatchesCounters
PROPERTIES
  HalfOpenResolves
CHECK_DEADLOCK FALSE
