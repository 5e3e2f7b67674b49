SPECIFICATION Spec
CONSTANTS
  RingSize = 5
  FileSize = 3
  PerSector = 3
  MaxOverlay = 3
  MaxSeq = 4
  MaxLogs = 2
  Transactions <- MCTransactions
  Requests <- MCRequests
INVARIANTS
  TypeOK
  OpenPresentsCommitted
  ReadsThroughOverlay
CHECK_DEADLOCK FALSE
