SPECIFICATION FairSpec
CONSTANTS
  Ids = {a, b}
  Passes = {p1}
  Batch = 1
  MaxRounds = 2
  Lives = 1
  Outcomes = {"failed"}
  Retried = {b}
  BulkCalls = FALSE
  Window = 0
  Unreadable = FALSE
  Aborts = 1
PROPERTIES Reclaimed
