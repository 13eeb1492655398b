CONSTANTS
  c1 = c1
  Admins = {}
  Requests = {c1}
  Clients = {c1}
  None = None
  Asks = {"chat"}
  Faults = {"shot"}
  MaxFaults = 1
  MaxPieces = 1
  SubCap = 1
SPECIFICATION FairSpec
PROPERTIES RunsEnd
CHECK_DEADLOCK FALSE
