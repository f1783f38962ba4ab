CONSTANTS
  Cmds = {c1, c2}
  MaxSockets = 2
SPECIFICATION Spec
INVARIANTS OwnData
CHECK_DEADLOCK FALSE
