SPECIFICATION Spec
CONSTANTS
  Size = 7
  ChunkRatio = 2
  Last = 2
  Chains <- MCAllChains
  Ranges <- MCRanges
  Chunks = {3, 7}
  Buffers = {2, 3}
INVARIANTS TypeOK MapAgreesWithRead MapTilesRange ChunkingInvisible ChangedDataIsExact OneChildClearingIsExact
