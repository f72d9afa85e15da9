CONSTANTS
  NbEntry = 3
  MaxSent = 5
  MaxEarly = 1
  MaxFails = 2
  MaxRetries = 1
  MaxSeeks = 2
SPECIFICATION Spec
INVARIANTS
  ThreeNeighbours
  OnlyHolesKill
CHECK_DEADLOCK FALSE
