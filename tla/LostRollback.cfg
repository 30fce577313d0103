SPECIFICATION Spec
CONSTANTS
  Branches = {"a", "b"}
  MaxLength = 2
  Shapes <- GappedShape
  Options <- StepOptions
  Fallback <- WorkerOptions
  Naps <- NapTimes
  Asks <- Polling
  Polls = 1
  Slots = {1, 2}
  Crashes = 0
CHECK_DEADLOCK FALSE
INVARIANTS RollbacksComplete
