CONSTANTS
  Clients = {i1}
  Nonces = {n1, n2, n3}
  Capacity = 3
  Unit = 2
  Refill = 2
  MaxEntries = 2
  Skews = {1, 2}
  MaxTime = 2
  MaxLaunches = 2
SPECIFICATION Spec
INVARIANTS TypeOK RateBound ReplayCaught StoreInOrder
SYMMETRY Symmetry
CHECK_DEADLOCK FALSE
