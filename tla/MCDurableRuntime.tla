-------------------------- MODULE MCDurableRuntime --------------------------
(***************************************************************************)
(* Instances of DurableRuntime for TLC: a processor of a few steps and     *)
(* small fault budgets.                                                    *)
(***************************************************************************)
EXTENDS DerivedViews, TLC

Symmetry == Permutations(Workers)

NoFaults == [f \in Faults |-> 0]

(* Faults the run is expected to survive, and what is done to it from      *)
(* outside: a cancel, a promotion, a retry of its failed job.              *)
EndBudget ==
  [NoFaults EXCEPT !.crash = 1, !.jobLapse = 1, !.transient = 1, !.fatal = 1,
                   !.cancel = 1, !.early = 1, !.retry = 1]

(* One thing going wrong, for what the documentation says of it.           *)
OneCancel == [NoFaults EXCEPT !.cancel = 1]
OneThrow == [NoFaults EXCEPT !.transient = 1]
OneCrash == [NoFaults EXCEPT !.crash = 1]
=============================================================================
