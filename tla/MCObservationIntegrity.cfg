CONSTANTS
  Workers = {w1, w2}
  Blocks <- MCBlocks
  Logs = {"", "l", "m"}
  VerifiedLogs = {"l"}
  MaxDepth = 2
  MinConfirmations = 2
  RPCAnswers <- MCAnswers
  FinalAnswer <- MCFinalAnswer
SPECIFICATION FairSpec
INVARIANTS
  VerifiedAgreesWithBaseline
PROPERTIES
  BaselineRetained
  Settles
CHECK_DEADLOCK FALSE
