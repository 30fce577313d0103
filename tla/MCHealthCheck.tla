--------------------------- MODULE MCHealthCheck ---------------------------
(***************************************************************************)
(* An instance of HealthCheck for TLC: a processor of a few steps, and a   *)
(* small fault budget.                                                     *)
(***************************************************************************)
EXTENDS HealthCheck, TLC

Symmetry == Permutations(Workers)

NoFaults == [f \in Faults |-> 0]

(* Crashes with re-delivery and stall death, promotion, manual retries.    *)
CrashBudget == [NoFaults EXCEPT !.crash = 2, !.early = 1, !.retry = 1]
=============================================================================
