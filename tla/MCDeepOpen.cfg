SPECIFICATION FairSpec
CONSTANTS
  Images = {f1, f2, f3}
  f1 = f1
  f2 = f2
  f3 = f3
  g1 = g1
  g2 = g2
  NoId = NoId
  Nobody = Nobody
  Libraries <- MCLibraries
  OptionSets <- AllOptions
  MaxChainDepth = 3
  Slots = 3
  ByHand = "none"
INVARIANTS TypeOK CompleteMeansWhole NoFileTwice ParentErrExplains HandlesFollowUse
PROPERTIES OpenReturns
CHECK_DEADLOCK FALSE
