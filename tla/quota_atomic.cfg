CONSTANTS
  r1 = r1
  r2 = r2
  dup = dup
  k1 = k1
  FreshId = FreshId
  NoRequest = NoRequest
  Keys <- MCKeys
  Requests <- TwoRequests
  IDs <- TwoIDs
  Policies <- BothPolicies
  Calls <- BothCalls
  Outcomes <- MCOutcomes
  Amounts = {0, 1, 2, 3}
  MaxTime = 1
  MinuteLen = 1
  StaleAge = 0
  DayLen = 1
  MonthLen = 2
  Faults = {"abort", "ambiguous", "abandon", "settleError", "insertError", "crash"}
SPECIFICATION MCSpec
INVARIANTS ConcurrencyBound WindowsExact OnlyUnseenOverdraws
PROPERTIES SettledOnce AtomicSpec Answered BilledInTheEnd
CHECK_DEADLOCK FALSE
