CONSTANTS
  r1 = r1
  r2 = r2
  k1 = k1
  k2 = k2
  m1 = m1
  m2 = m2
  m3 = m3
  p1 = p1
  p2 = p2
  None = None
  Keys <- MCKeys
  Models <- MCModels
  Allowed <- MCAllowed
  Requests <- OneRequest
  Asks <- PlainAsk
  Catalogs <- OneCatalog
  Unbuilt <- FirstUnbuilt
  Answers = {"ok", "missing", "retryable", "rejected"}
  Faults = {}
  MaxTime = 0
SPECIFICATION Spec
INVARIANTS AlwaysRecorded
CHECK_DEADLOCK FALSE
