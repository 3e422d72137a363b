SPECIFICATION Spec
CONSTANTS
  Size = 3
  Ends <- Ends13
  Inflight = 2
  MaxAttempts = 2
  Budgets <- Scenarios
INVARIANTS
  TypeOK
  FramesContinueStage
  OutgoingNeverAhead
  
  DurableIsOnDisk
  IdleGateSafe
  CompletedImpliesPublished
  PublishedIsOffered
PROPERTIES
  PublishedStays
  ImplementsDelivery
CHECK_DEADLOCK FALSE
