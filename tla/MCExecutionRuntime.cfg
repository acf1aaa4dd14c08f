CONSTANTS
  w1 = w1
  w2 = w2
  Workers = {w1, w2}
  ExecuteOutcomes <- MCExecuteOutcomes
  StatusOutcomes <- MCStatusOutcomes
  VerifyOutcomes <- MCVerifyOutcomes
  MaxClaims = 13
  MaxDisturbances = 2
SPECIFICATION FairSpec
INVARIANTS
  SubmittedAtMostOnce
  LiveClaimIsCurrent
  AuditTrail
  EvidenceMatchesHistory
PROPERTIES
  LifecycleSpec
  NeverRegresses
  Settles
CHECK_DEADLOCK FALSE
