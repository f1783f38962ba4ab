CONSTANTS
  None = None
  a1 = a1
  a2 = a2
  u1 = u1
  x1 = x1
  x2 = x2
  Agents = {a1, a2}
  Users = {u1}
  Uids = {x1, x2}
  MaxRequests = 2
  MaxGen = 2
  AuditMax = 1
  Projections = {"status", "channels"}
  Sites <- MCSites
SPECIFICATION Spec
INVARIANT TypeOK
INVARIANT FailedPairRestores
INVARIANT PairedAgrees
INVARIANT CredentialsOwned
INVARIANT DeletedUnlessNamed
INVARIANT VerifiedByProof
INVARIANT RevokedForGood
INVARIANT AnswerAccepted
INVARIANT AuditIsRecent
CHECK_DEADLOCK FALSE
