SPECIFICATION Spec
CONSTANTS
  PathOrder <- MCPathOrder
  ImageNames = {"a", "b", "c"}
  Dirs <- MCDirs
  ExtraDirs <- MCExtraDirs
  Libraries <- Circular
  MaxFiles = 4
  MaxEvents = 1
  MaxPath = 4
  FirstNew = 4
PROPERTY LineageReturns
CHECK_DEADLOCK FALSE
