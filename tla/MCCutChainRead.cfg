SPECIFICATION Spec
CONSTANTS
  Size = 7
  ChunkRatio = 2
  Last = 1
  Chains <- MCCutChains
  Requests <- MCCutRequests
PROPERTIES ImplementsDevice
