SPECIFICATION Spec
CONSTANTS
  NoToken = NoToken
  NoRow = NoRow
  Passes = {p1, p2}
  Lease = 2
  Cooldown = 1
  MaxDelay = 1
  MaxNow = 5
SYMMETRY Symmetry
INVARIANTS
  TypeOK
  OneLeader
PROPERTIES
  CooldownKept
CHECK_DEADLOCK FALSE
