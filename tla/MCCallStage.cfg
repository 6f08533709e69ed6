SPECIFICATION Spec
CONSTANTS
  Nobody = Nobody
  c1 = c1
  c2 = c2
  c3 = c3
  d1 = d1
  d2 = d2
  Calls = {c1, c2, c3}
  Deals = {d1, d2}
  Runs = {r1, r2}
  DealOf <- MCDealOf
  EndedAt <- MCEndedAt
  RequiredFor <- MCRequiredFor
  FirstSlot = 2
  LastSlot = 2
  Proposals = {"takenInWork"}
  Stages = {"newLead", "takenInWork"}
  Handled = {d1}
  Early = {c1}
  Autofill = TRUE
SYMMETRY Symmetry
INVARIANTS
  TypeOK
  EveryMoveHoldsASlot
  LedgerTellsTheTruth
  SettledUnlessCrashed
PROPERTIES
  MovesForward
CHECK_DEADLOCK FALSE
