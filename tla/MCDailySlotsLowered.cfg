SPECIFICATION Spec
CONSTANTS
  NoAudit = NoAudit
  Workers = {w1}
  Sweeps = {s1}
  Limits <- MCTwoLimits
  MaxSlots = 2
  MaxDay = 1
  MaxAudits = 3
PROPERTIES
  LoweredLimitBites
