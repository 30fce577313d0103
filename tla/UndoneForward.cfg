SPECIFICATION Spec
CONSTANTS
  Workers = {w1, w2}
  NoOwner = NoOwner
  Free = Free
  Lost = Lost
  N = 2
  Sleeps = {}
  Undoable = {1}
  Optional = {}
  HasOnFailure = FALSE
  StepAttempts = 1
  UndoAttempts = 2
  JobAttempts = 1
  MaxStalled = 1
  Budget <- OneThrow
  MaxKinds = 1
SYMMETRY Symmetry
CHECK_DEADLOCK FALSE
PROPERTIES NoForwardAfterUndo
