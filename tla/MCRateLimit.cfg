SPECIFICATION Spec
CONSTANTS
  Peers = {p1, p2, p3}
  Limit = 2
  Window = 3
  Tracked = 2
  FirstTime = 1
  MaxTime = 7
  MaxRate = 3
SYMMETRY Symmetry
INVARIANTS RefusedOnlyOnBurst BurstBound
CHECK_DEADLOCK FALSE
