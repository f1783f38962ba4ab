CONSTANTS
  Jobs = {1, 2}
  NumFiles = 3
  Dirs = {3}
  Included = {1, 2}
  Lists = {{1, 2}, {1}}
  Nested = {2}
  c1 = c1
  c2 = c2
  c3 = c3
  pkg = pkg
  other = other
  Contents = {c2, c3}
  Size <- MCSize
  Package = pkg
  Foreign = other
  Absent = absent
  Torn = torn
  None = none
  MaxWrites = 1
  Releases <- MCReleases
  Mispacked <- MCMispacked
  MaxSources = 2
  Running0 <- MCRunning
  Version0 <- MCVersion
SPECIFICATION Spec
INVARIANT TypeOK
INVARIANT QuietBackupSound
INVARIANT RestoreExact
INVARIANT RestoreAccounts
INVARIANT MarkerMeansInstalled
INVARIANT UpdateKeepsOrReplaces
CHECK_DEADLOCK FALSE
