CONSTANTS
  GrantOccurrences = {o1, o2, o3}
  Amounts = {1, 2}
  Times = {0, 1, 2, 3}
  Window = 2
  Cap = 4
  WindowCap = 3
SPECIFICATION SpendSpec
INVARIANTS
  CapsHold
PROPERTIES
  KeepsBudget
