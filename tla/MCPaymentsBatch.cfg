CONSTANTS
  MaxUint128 = 1000
  MaxWindow = 2
  MaxRecipients = 50
  NativeScale = 10
  MaxFeeBPS = 100
  MaxReceiptLogs = 64
  MaxTime = 2
  Amounts = {}
  Drafts <- MCBatch
  Settling <- MCBatch
  Others = {}
SPECIFICATION Spec
INVARIANT FaithfulIsVerified
CHECK_DEADLOCK FALSE
