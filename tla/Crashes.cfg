SPECIFICATION CheckSpec
CONSTANTS
  Workers = {w1, w2}
  NoOwner = NoOwner
  Free = Free
  Lost = Lost
  N = 4
  Sleeps = {3}
  Undoable = {1, 2}
  Optional = {}
  HasOnFailure = TRUE
  StepAttempts = 1
  UndoAttempts = 2
  JobAttempts = 2
  MaxStalled = 1
  Budget <- CrashBudget
  MaxKinds = 3
SYMMETRY Symmetry
CHECK_DEADLOCK FALSE
INVARIANTS TypeOK OnFailureLast JobFollowsRun AttemptsBounded
PROPERTIES SettledStepsStay ReverseOrder NoForwardAfterUndo NoEarlyWake KeepsPromise OrphanForCause
