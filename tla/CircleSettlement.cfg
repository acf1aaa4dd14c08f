CONSTANTS
  ReadFaults = {"unreachable", "unreadable", "unauthorized", "rejected", "conflict", "limited", "server", "foreign", "badhash"}
  MaxFaults = 3
SPECIFICATION CircleFairSpec
INVARIANTS
  SubmissionIsShown
  FailedNeverPaid

  
CHECK_DEADLOCK FALSE
