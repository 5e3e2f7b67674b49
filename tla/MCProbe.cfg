SPECIFICATION Spec
CONSTANTS
  RingSize = 3
  FileSize = 1
  PerSector = 3
  MaxOverlay = 1
  MaxSeq = 3
  MaxLogs = 1
  Transactions <- OneTransaction
  Requests = {}
INVARIANTS
  ProbeAgreesWithOpen
CHECK_DEADLOCK FALSE
