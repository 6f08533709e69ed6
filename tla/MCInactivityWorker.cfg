SPECIFICATION Spec
CONSTANTS
  NoToken = NoToken
  NoFingerprint = NoFingerprint
  NoAudit = NoAudit
  NoPass = NoPass
  NoLead = NoLead
  Passes = {p1, p2}
  Leads = {l1, l2}
  Setups <- MCSetups
SYMMETRY Symmetry
INVARIANTS
  TypeOK
  OnePatchInFlight
  UncertainStopsTesting
  ConfirmedKeepsSlot
  UncertainKeepsSlotUnfailing
  MovedIsReal
  AuditsTellTruth
PROPERTIES
  RequeuedWithoutSlot
