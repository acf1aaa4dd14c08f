CONSTANTS
  MaxUint128 = 4
  MaxWindow = 2
  MaxRecipients = 2
  NativeScale = 10
  MaxFeeBPS = 5000
  MaxReceiptLogs = 8
  MaxTime = 5
  Amounts = {1, 2, 3}
  Drafts <- MCDrafts
  Settling <- MCSettling
  Others <- MCOthers
SPECIFICATION Spec
INVARIANTS
  
  
  SlippageHonoured
  
  VerifiedAsApproved
  ContractNeverFailed
  FaithfulIsVerified
CHECK_DEADLOCK FALSE
