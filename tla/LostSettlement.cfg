SPECIFICATION FairSpec
CONSTANTS
  Workers = {w1, w2}
  NoOwner = NoOwner
  Free = Free
  Lost = Lost
  N = 2
  Sleeps = {2}
  Undoable = {1}
  Optional = {}
  HasOnFailure = TRUE
  StepAttempts = 2
  UndoAttempts = 1
  JobAttempts = 2
  MaxStalled = 0
  Budget <- OneCrash
  MaxKinds = 1
CHECK_DEADLOCK FALSE
PROPERTIES StallDeathSettles
