SPECIFICATION Spec
CONSTANTS
  NoToken = NoToken
  NoFingerprint = NoFingerprint
  NoAudit = NoAudit
  NoPass = NoPass
  NoLead = NoLead
  Passes = {p1, p2}
  Leads = {l1, l2}
  Setups <- MCOneFault
SYMMETRY Symmetry
INVARIANTS
  UncertainKeepsSlot
