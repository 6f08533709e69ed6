CONSTANTS
  d1 = d1
  d2 = d2
  h = h
  m = m
  Deliveries = {d1, d2}
  History = h
  Manual = {m}
  Attempts <- MCAttempts
  Setups <- MCSetups
SPECIFICATION Spec
INVARIANTS
  TypeOK
  ProcessedIsWhole
  NothingIsStranded
PROPERTIES
  EveryCallIsFiled
CHECK_DEADLOCK FALSE
