CONSTANTS
  Starts <- MCStarts
  DaysOfMonth <- MCDays
  LastRuns = {20}
  Horizon = 430
  MaxMissed = 3
SPECIFICATION Spec
INVARIANTS
  NextIsExpected
  CatchUpRunsLatest
CHECK_DEADLOCK FALSE
