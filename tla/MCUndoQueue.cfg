CONSTANTS
  MaxUndoSteps = 2
  LeastUndoSteps = 4
  MaxEdits = 7
SPECIFICATION UndoSpec
INVARIANTS
  PresentRecorded
PROPERTY ImplementsEditHistory
