SPECIFICATION FairSpec
CONSTANTS
  Size = 2
  Ends <- Ends2
  Inflight = 2
  MaxAttempts = 8
  Budgets <- LiveScenarios
PROPERTIES
  
  EventuallySettled
CHECK_DEADLOCK FALSE
