SPECIFICATION Spec
CONSTANTS
  FooterSize = 2
  MaxBAT = 4
  ChunkSectors = 4
  MinBlock = 2
  MaxBlock = 8
  SectorSizes = {1, 2}
  DefaultSector = 1
  MaxItem = 8
  MaxEntries = 8
  BlocksAt = 8
  MaxCells = 3
  Fresh <- MCFresh
INVARIANTS
  TypeOK
  OpensAsWritten
  OneCopyIsEnough
  SaysWhenRecovered
  NothingRequiredIgnored
  StructuresApart
  ProbeSeesTheSameDisk
CHECK_DEADLOCK FALSE
