CONSTANTS
  None = None
  Keys = {"k1"}
  Sockets = {c1, c2}
  MaxOutput = 1
  ChanCap = 1
SPECIFICATION FairSpec
INVARIANTS OpenShellIsFound
PROPERTIES ShellSocketsEnd
CHECK_DEADLOCK FALSE
