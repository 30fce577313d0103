------------------------------ MODULE MCAlerts ------------------------------
(***************************************************************************)
(* An instance of Alerts for TLC: a rule on a count of one queue, one on   *)
(* stuck runs, and a world that is well or not.                            *)
(***************************************************************************)
EXTENDS Alerts, TLC

Idle == [waiting |-> 0, active |-> 0, delayed |-> 0, children |-> 0, failed |-> 0, workers |-> 1]
Abandoned == [Idle EXCEPT !.waiting = 1, !.delayed = 1, !.workers = 0]

SmallWorlds ==
  {[queues |-> [q \in Queues |-> Idle], stuck |-> 0],
   [queues |-> [q \in Queues |-> Abandoned], stuck |-> 2]}

Rule(metric, queue, operator, threshold) ==
  [metric |-> metric, queue |-> queue, operator |-> operator,
   threshold |-> threshold, enabled |-> TRUE]

SomeRules == {Rule("no_workers", "*", "gte", 2), Rule("stuck", "*", "gt", 1)}

SmallBudget == [k \in Kinds |-> IF k = "edit" THEN 3 ELSE 1]

Symmetry == Permutations(Timers)
=============================================================================
