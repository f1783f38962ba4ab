CONSTANTS
  Requests = {r1, r2}
  Commands = {k1, k2}
  FirstCred = cred0
  FirstCode = code0
  None = none
SPECIFICATION Spec
INVARIANTS TypeOK PairedOrPairing SingleUse RevokedIsRefused
SYMMETRY Symmetry
CHECK_DEADLOCK FALSE
