SPECIFICATION Spec
CONSTANTS
  Workers = {w1, w2}
  NoOwner = NoOwner
  Free = Free
  Lost = Lost
  N = 2
  Sleeps = {2}
  Undoable = {1}
  Optional = {}
  HasOnFailure = TRUE
  StepAttempts = 2
  UndoAttempts = 2
  JobAttempts = 2
  MaxStalled = 1
  Budget <- OneCancel
  MaxKinds = 1
SYMMETRY Symmetry
CHECK_DEADLOCK FALSE
PROPERTIES CancelledStays
