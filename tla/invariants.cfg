CONSTANTS
  id1 = id1
  id2 = id2
  u1 = u1
  u2 = u2
  old = old
  None = None
  NoData = NoData
  Users <- MCUsers
  Paths <- MCPaths
  Requests <- MCRequests
  Old = old
  Tree0 <- MCTree
  TempName <- MCTempName
  Limit = 1
  Local = FALSE
  Ids = {"t1"}
  Shells = {s1, s2}
  Sockets = {c1}
  MaxOutput = 2
  ChanCap = 1
  ReplayLimit = 1
SPECIFICATION MCSpec
INVARIANTS ToolsPaired NothingSaidIsLost StreamedAsWhole
  WritesAreWhole CalledAtMostOnce ShellOutputInOrder
SYMMETRY Symmetry
CHECK_DEADLOCK FALSE
