SPECIFICATION Spec
CONSTANTS
  NoToken = NoToken
  NoFingerprint = NoFingerprint
  NoLead = NoLead
  Pass = Pass
  Leads = {l1}
  Operators = {o1}
  Hooks = {h1}
  MaxTouch = 2
  MaxClaims = 2
SYMMETRY Symmetry
INVARIANTS
  StopLeavesNoWatch
