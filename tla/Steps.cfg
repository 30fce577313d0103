SPECIFICATION FairSpec
CONSTANTS
  Branches = {"a", "b"}
  MaxLength = 2
  Shapes <- TrackedShapes
  Options <- StepOptions
  Fallback <- WorkerOptions
  Naps <- NapTimes
  Asks <- Polling
  Polls = 2
  Slots = {1, 2}
  Crashes = 1
CHECK_DEADLOCK FALSE
INVARIANTS TypeOK BodyAlone RollbacksComplete AttemptsKept WaitsWithinCap
PROPERTIES QuietAfterTick UnlimitedPolls NearestWait Ends
