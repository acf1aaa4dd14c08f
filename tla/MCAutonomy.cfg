CONSTANTS
  Workers = {w1, w2}
  Instants = {1, 2}
  MaxVersion = 2
  MaxFence = 4
  Worlds <- MCWorlds
SPECIFICATION FairSpec
INVARIANTS
  OneClaimPerVersion
  CurrentClaimStands
  EligibleStood

  
CHECK_DEADLOCK FALSE
