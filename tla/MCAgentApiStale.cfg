CONSTANTS
  Requests = {r1, r2}
  Commands = {k1}
  FirstCred = cred0
  FirstCode = code0
  None = none
SPECIFICATION Spec
PROPERTIES ServedByCurrent
CHECK_DEADLOCK FALSE
