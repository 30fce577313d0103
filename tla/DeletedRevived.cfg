SPECIFICATION ActionsSpec
CONSTANTS
  Workers = {w1}
  NoOwner = NoOwner
  Free = Free
  Lost = Lost
  N = 2
  Sleeps = {}
  Undoable = {1}
  Optional = {}
  HasOnFailure = FALSE
  StepAttempts = 2
  UndoAttempts = 1
  JobAttempts = 1
  MaxStalled = 0
  Budget <- NoFaults
  MaxKinds = 0
  Callers = {c1}
  Events = {"delete"}
  Allowance = 1
CHECK_DEADLOCK FALSE
PROPERTIES DeletedStays
