SPECIFICATION FairSpec
CONSTANTS
  Newest = 2
  Requests = 2
  Incompatible = {}
  Budgets <- Scenarios
INVARIANTS
  ReservationHasOwner
  BusyStateIsOwned
PROPERTIES
  
  
  UpdateSettles
CHECK_DEADLOCK FALSE
