CONSTANTS
  r1 = r1
  r2 = r2
  k1 = k1
  k2 = k2
  m1 = m1
  m2 = m2
  m3 = m3
  p1 = p1
  p2 = p2
  None = None
  Keys <- MCKeys
  Models <- MCModels
  Allowed <- MCAllowed
  Requests <- TwoRequests
  Asks <- AllAsks
  Catalogs <- TwoCatalogs
  Unbuilt <- LastUnbuilt
  Answers = {"ok", "missing", "retryable", "rejected"}
  Faults = {"leave", "interrupt", "disable"}
  MaxTime = 1
SPECIFICATION MCSpec
INVARIANTS ChainHonoursPreferences EveryEndAccounted BilledAsServed CacheServesOwn
PROPERTIES NoFailoverAfterReply BooksSpec Returns
CHECK_DEADLOCK FALSE
