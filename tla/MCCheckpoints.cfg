SPECIFICATION Spec
CONSTANTS
  PathOrder <- MCPathOrder
  ImageNames = {"a", "b", "c"}
  Dirs <- MCDirs
  ExtraDirs <- MCExtraDirs
  Libraries <- Sound
  MaxFiles = 4
  MaxEvents = 2
  MaxPath = 4
  FirstNew = 4
INVARIANTS TypeOK LineageIsTrue LineageIsWhole NothingLeftOut OpenAgreesWithTree
PROPERTY LineageReturns
CHECK_DEADLOCK FALSE
