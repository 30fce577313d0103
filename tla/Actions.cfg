SPECIFICATION FairActionsSpec
CONSTANTS
  Workers = {w1}
  NoOwner = NoOwner
  Free = Free
  Lost = Lost
  N = 2
  Sleeps = {}
  Undoable = {1}
  Optional = {}
  HasOnFailure = FALSE
  StepAttempts = 1
  UndoAttempts = 1
  JobAttempts = 1
  MaxStalled = 0
  Budget <- OneCrash
  MaxKinds = 1
  Callers = {c1}
  Events = {"resume", "retry", "retryCompensation", "cancel", "delete", "death", "prune"}
  Allowance = 2
CHECK_DEADLOCK FALSE
INVARIANTS ActionsTypeOK StatusTellsUndo
PROPERTIES DoneStays ResumeHeals
