CONSTANTS
  r1 = r1
  r2 = r2
  dup = dup
  k1 = k1
  FreshId = FreshId
  NoRequest = NoRequest
  Keys <- MCKeys
  Requests <- TwoRequests
  IDs <- TwoRequests
  Policies <- BudgetPolicies
  Calls <- BudgetCalls
  Outcomes <- MCOutcomes
  Amounts = {0, 1, 2, 3}
  MaxTime = 0
  MinuteLen = 1
  StaleAge = 0
  DayLen = 1
  MonthLen = 1
  Faults = {}
SPECIFICATION MCSpec
INVARIANTS NeverOverdrawn
CHECK_DEADLOCK FALSE
