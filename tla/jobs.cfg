CONSTANTS
  s1 = s1
  s2 = s2
  None = None
  Ids = {"j1"}
  Starters <- TwoStarters
  Streams <- ConsoleStreams
  Clients = {s1}
  JobId <- OneJobId
  MaxLines = 2
  ChanCap = 1
  ReplayLimit = 1
  ScanLimit = 1
  Faults = {"startError", "leave"}
  Execs = {x1}
  MaxPrints = 2
  OutputLimit = 1
SPECIFICATION MCSpec
INVARIANTS NoSendOnClosed LiveJobIsFound NothingMissed EndIsLast
INVARIANTS OutputOnce FallbackIsClean
PROPERTIES StreamsEnd ExecAnswered
CHECK_DEADLOCK FALSE
