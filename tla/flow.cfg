SPECIFICATION FairSpec
CONSTANTS
  t1 = t1
  t2 = t2
  t3 = t3
  p1 = p1
  p2 = p2
  Transfers = {t1, t2, t3}
  Peers = {p1, p2}
  PeerOf <- PeerMap
  Sizes <- FileSizes
  ChunkSize = 2
  MaxTransfers = 2
  MaxPerPeer = 1
  MaxChunks = 2
  MaxBytes = 3
  AckChunks = 2
  AckBytes = 3
  Budgets <- Scenarios
INVARIANTS
  TypeOK
  AccountingExact
  LimitsHold
  NoLostWakeup
  AcksAreLegal
  ReleasedIsReceived
PROPERTIES
  NothingStarves
CHECK_DEADLOCK FALSE
