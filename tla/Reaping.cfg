SPECIFICATION Spec
CONSTANTS
  Ids = {a, b}
  Passes = {p1, p2}
  Batch = 1
  MaxRounds = 2
  Lives = 1
  Outcomes = {"completed", "failed", "compensation_failed"}
  Retried = {}
  BulkCalls = TRUE
  Window = 1
  Unreadable = FALSE
  Aborts = 1
SYMMETRY Symmetry
INVARIANTS TypeOK Indexed Ranked
PROPERTIES OnlyOrphansTouched CreatedOnce
