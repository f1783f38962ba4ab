CONSTANTS
  Requests = {r1}
  Commands = {k1, k2}
  FirstCred = cred0
  FirstCode = code0
  None = none
SPECIFICATION Spec
INVARIANTS RevokedIsGone
CHECK_DEADLOCK FALSE
