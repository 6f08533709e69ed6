SPECIFICATION Spec
CONSTANTS
  Nobody = Nobody
  c1 = c1
  c2 = c2
  c3 = c3
  d1 = d1
  d2 = d2
  Calls = {c1}
  Deals = {d1}
  Runs = {r1}
  DealOf <- MCDealOf
  EndedAt <- MCEndedAt
  RequiredFor <- MCRequiredFor
  FirstSlot = 1
  LastSlot = 1
  Proposals = {"takenInWork"}
  Stages = {"newLead"}
  Handled = {d1}
  Early = {}
  Autofill = TRUE
INVARIANTS
  FixedValueIsNotTheModels
CHECK_DEADLOCK FALSE
