CONSTANTS
  None = None
  a1 = a1
  a2 = a2
  u1 = u1
  x1 = x1
  x2 = x2
  Agents = {a1, a2}
  Users = {}
  Uids = {}
  MaxRequests = 3
  MaxGen = 1
  AuditMax = 1
  Projections = {"status"}
  Sites <- MCAdded
SPECIFICATION Spec
CHECK_DEADLOCK FALSE
INVARIANT SnapshotOfItsNode
