SPECIFICATION FairSpec
CONSTANTS
  Workers = {w1, w2}
  NoOwner = NoOwner
  Free = Free
  Lost = Lost
  N = 2
  Sleeps = {2}
  Undoable = {1}
  Optional = {1}
  HasOnFailure = FALSE
  StepAttempts = 2
  UndoAttempts = 1
  JobAttempts = 2
  MaxStalled = 1
  Budget <- EndBudget
  MaxKinds = 3
CHECK_DEADLOCK FALSE
INVARIANTS OneTickAtATime ShowsWhatItWaitsFor StaleIsIdle
PROPERTIES SettledStepsStay FinishedStays Settles GivesUpForCause
