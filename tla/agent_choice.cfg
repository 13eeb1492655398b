CONSTANTS
  c1 = c1
  c2 = c2
  Admins = {}
  Requests = {c1, c2}
  None = None
  First = First
  Wishes = {"off", "force"}
  Faults = {}
  MaxFaults = 0
SPECIFICATION ASpec
PROPERTIES ChoiceIsKept
CHECK_DEADLOCK FALSE
