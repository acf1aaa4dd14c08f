CONSTANTS
  w1 = w1
  Workers = {w1}
  ExecuteOutcomes <- MCExecuteOutcomes
  StatusOutcomes <- MCStatusOutcomes
  VerifyOutcomes <- MCVerifyOutcomes
  MaxClaims = 12
  MaxDisturbances = 2
SPECIFICATION Spec
INVARIANT ReferenceStaysReadable
CHECK_DEADLOCK FALSE
