CONSTANTS
  Cmds = {c1, c2, c3}
  MaxSockets = 3
SPECIFICATION FairSpec
INVARIANTS TypeOK Serialized OwnVerdict AtMostOnce HeadTimed
PROPERTIES ClosedForGood Settles ImplementsService
CHECK_DEADLOCK FALSE
