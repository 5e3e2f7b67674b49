\* What the journal recorded between the two states.
SPECIFICATION Spec
CONSTANTS
  Size = 12
  Grain = 2
  MaxJournal = 3
  MaxOps = 2
  Layouts <- MCLayouts
  Slots = {1, 2, 3}
  Names = {1, 2}
  Cases <- MCCases
INVARIANT EvidenceInWindow
CHECK_DEADLOCK FALSE
