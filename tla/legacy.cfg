SPECIFICATION FairSpec
CONSTANTS
  None = None
  Transfer = {t1, t2}
  Worker = {w1}
  Chunks = 2
  QueueSize = 1
  MaxRetries = 2
  MaxSends = 2
  Scenarios <- Faults
INVARIANTS JobsAreHeld ConfirmedIsStored DeletedStaysAway
PROPERTIES JobsSettle
CHECK_DEADLOCK FALSE
