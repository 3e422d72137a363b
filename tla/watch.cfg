SPECIFICATION FairSpec
CONSTANTS
  c1 = c1
  c2 = c2
  Content = {c1, c2}
  Capacity = 1
  MaxTokens = 2
  MaxAttempts = 2
  None = None
  Scenarios <- Desktops
INVARIANTS CopiesAreNotHidden NoEcho
 
CHECK_DEADLOCK FALSE
