CONSTANTS
  c1 = c1
  c2 = c2
  Admins = {c1, c2}
  Requests = {c1, c2}
  Clients = {c1, c2}
  None = None
  First = First
  Wishes = {"ensure", "force", "shell", "local", "save", "on", "off"}
  Asks = {"chat", "resume", "save"}
  ListLimit = 2
  MaxSecrets = 4
  MaxEdits = 4
  Providers = {"p", "q"}
  Models = {"m", "n"}
  MaxRequests = 2
  Hosts = {1, 2}
  Faults = {"store", "restart", "fetch", "script", "upgrade", "publish", "disable", "allow", "leave", "shot", "delete", "fail"}
  MaxFaults = 1
  ContinuationLimit = 1
  LongerIds = 1
  MaxChunks = 2
  MaxSaves = 1
  MaxPieces = 2
  SubCap = 1
SPECIFICATION MCSpec
INVARIANTS RunningIsTrue ReadyIsEarned ReplyHasNoGaps OneRunExecutes ReplyIsKept TurnsAreBilled PricedAsItself
PROPERTIES ReadyIsCurrent AccessIsGranted WatchersAreLetGo
CHECK_DEADLOCK FALSE
