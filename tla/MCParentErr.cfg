SPECIFICATION Spec
CONSTANTS
  Images = {f1, f2, f3}
  f1 = f1
  f2 = f2
  f3 = f3
  g1 = g1
  g2 = g2
  NoId = NoId
  Nobody = Nobody
  Libraries <- MCSiblings
  OptionSets <- AllOptions
  MaxChainDepth = 2
  Slots = 3
  ByHand = "missing"
INVARIANTS ParentErrExplains
CHECK_DEADLOCK FALSE
