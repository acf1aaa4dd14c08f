CONSTANTS
  Users = {u1, u2}
  Bindings = {1, 2}
  Addresses = {1, 2}
  Proofs = {1, 2, 3}
  RequestIds = {1, 2, 3}
  None = None
  External = External
  Worlds <- MCWorlds
  Transactions = {t1}
  Sessions = {1, 2, 3}
  Grants = {1, 2}
  Tokens = {1, 2}
  Checks = {x1}
  TransactionLifetime = 2
  PendingLifetime = 2
  SessionLifetime = 3
  CodeLifetime = 1
  TokenLifetime = 2
  ChallengeLifetime = 1
  ChallengeLimit = 2
  MaxTime = 2
SPECIFICATION Spec
SYMMETRY Symmetry
INVARIANTS
  AuthorityRestsOnProof
  AdmittedStood
  ConsentIsSpentOnce
  LogoutReachesTokens
  ViewOffersOnlyGrantable
CHECK_DEADLOCK FALSE
