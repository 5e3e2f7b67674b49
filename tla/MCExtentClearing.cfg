SPECIFICATION Spec
CONSTANTS
  Size = 7
  ChunkRatio = 2
  Last = 2
  Chains <- MCChains
  Ranges <- MCRanges
  Chunks = {3, 7}
  Buffers = {2, 3}
INVARIANT ChangedClearingIsExact
