SPECIFICATION Spec
CONSTANTS
  Newest = 2
  Requests = 2
  Incompatible = {}
  Budgets <- NoFaults
INVARIANTS
  ActivityKeepsWaiting
CHECK_DEADLOCK FALSE
