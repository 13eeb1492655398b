SPECIFICATION FilesSpec
CONSTANTS
  u1 = u1
  u2 = u2
  old = old
  Users <- MCUsers
  Paths <- MCPaths
  Requests <- MCRequests
  Old = old
  Tree0 <- MCTree
  TempName <- MCTempName
  Limit = 1
  Local = TRUE
  NoData = NoData
INVARIANT NoLostUpdate
