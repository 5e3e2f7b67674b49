SPECIFICATION FairSpec
CONSTANTS
  Size = 7
  ChunkRatio = 2
  Last = 2
  Chains <- MCChains
  Requests <- MCRequests
INVARIANTS TypeOK NestedCalls DeliveredIsContent
PROPERTIES FailsClosed ReadsReturn
