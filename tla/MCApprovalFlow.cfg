CONSTANT Requests = {r1, r2}
SPECIFICATION FairSpec
INVARIANTS
  ConsumedIffExecuted
  AnswersStand
  AuditTruthful
PROPERTIES
  ExecutesOnlyConfirmed
  HandoffCompletes
