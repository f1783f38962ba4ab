CONSTANTS
  Codes = {a}
  Clients = {u, v}
  Cycles = {k1, k2}
  MaxMatches = 1
  MaxAttempts = 1
  MaxRegistrations = 2
  Restarts = TRUE
SPECIFICATION FairSpec
INVARIANTS TypeOK SingleUse AttemptLimit DeliveredIsReceived
PROPERTIES AcceptedFresh ExpiredGoes
CHECK_DEADLOCK FALSE
