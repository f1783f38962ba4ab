CONSTANTS
  Codes = {a}
  Clients = {u, v}
  Cycles = {k1}
  MaxMatches = 1
  MaxAttempts = 1
  MaxRegistrations = 1
  Restarts = FALSE
SPECIFICATION AnsweringSpec
PROPERTIES RetryPending
CHECK_DEADLOCK FALSE
