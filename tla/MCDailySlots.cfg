SPECIFICATION Spec
CONSTANTS
  NoAudit = NoAudit
  Workers = {w1}
  Sweeps = {s1}
  Limits <- MCTwoLimits
  MaxSlots = 2
  MaxDay = 2
  MaxAudits = 3
INVARIANTS
  TypeOK
  MovesKeepTheirSlot
  CapHolds
PROPERTIES
  BudgetSpec
