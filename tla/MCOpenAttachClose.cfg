SPECIFICATION Spec
CONSTANTS
  Images = {f1, f2, f3}
  f1 = f1
  f2 = f2
  f3 = f3
  g1 = g1
  g2 = g2
  NoId = NoId
  Nobody = Nobody
  Libraries <- MCTwoChildren
  OptionSets <- IdentityChecked
  MaxChainDepth = 2
  Slots = 4
  ByHand = "missing"
INVARIANTS HandlesFollowUse ClosedAtMostOnce
SYMMETRY ChildSymmetry
CHECK_DEADLOCK FALSE
