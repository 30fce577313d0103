SPECIFICATION FairSpec
CONSTANTS
  RuleIds = {r1}
  Timers = {t1, t2}
  Queues = {"orders"}
  Inputs <- SomeRules
  Worlds <- SmallWorlds
  Budget <- SmallBudget
INVARIANT TypeOK
PROPERTIES PostedOnce ToldFirst LastWord
