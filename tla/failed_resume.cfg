SPECIFICATION Spec
CONSTANTS
  Size = 2
  Ends <- Ends2
  Inflight = 2
  MaxAttempts = 4
  Budgets <- LateScenario
INVARIANTS
  FailedJournalResumes
CHECK_DEADLOCK FALSE
