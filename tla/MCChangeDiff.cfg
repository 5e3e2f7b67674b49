\* Three operations of the guest around a checkpoint, compared in every case.
SPECIFICATION Spec
CONSTANTS
  Size = 12
  Grain = 2
  MaxJournal = 3
  MaxOps = 3
  Layouts <- MCLayouts
  Slots = {1, 2, 3}
  Names = {1, 2}
  Cases <- MCCases
INVARIANTS TypeOK RangesCoverWrites ClassifiedTruly NothingSilent
CHECK_DEADLOCK FALSE
