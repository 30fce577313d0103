----------------------------- MODULE HealthCheck -----------------------------
(***************************************************************************)
(* The cockpit's health check looks for orphans (health-inspector.ts): it  *)
(* reads the summaries of all live runs, and then, one run after another,  *)
(* what became of the job of each that was yielded.  The run goes on       *)
(* between the two reads.                                                  *)
(*                                                                         *)
(* The job is fetched and its state read in one step: a job that goes in   *)
(* between is as unhealthy as one that was gone.                           *)
(***************************************************************************)
EXTENDS DerivedViews

VARIABLE looking    \* the run was yielded in its summary, its job is looked at next

checkVars == <<vars, looking>>

CheckInit == Init /\ looking = FALSE

(* activeSummaries.                                                        *)
ReadSummary ==
  /\ ~looking /\ inst.status = "yielded"
  /\ looking' = TRUE
  /\ UNCHANGED vars

(* carrierState, and the report it leads to.                               *)
ReadCarrier ==
  /\ looking
  /\ looking' = FALSE
  /\ UNCHANGED vars

(* Faulty: a job that is being worked on is not counted as alive.          *)
ParkedStates == {"delayed", "waiting"}

(* A yielded run is healthy while its job is alive.                        *)
HealthyStates == {"delayed", "waiting", "active"}

ReportsOrphan == looking /\ ~looking' /\ job.state \notin HealthyStates

CheckNext ==
  \/ Next /\ UNCHANGED looking
  \/ ReadSummary \/ ReadCarrier

CheckSpec == CheckInit /\ [][CheckNext]_checkVars

---------------------------------------------------------------------------
(* Correctness.                                                            *)

(* health-inspector.ts:116-119, README.md:256 of the cockpit: a run is     *)
(* reported an orphan when its job is gone, or failed of a stall without a *)
(* settlement.  The two reads let through a run that was parked at the     *)
(* first and is at its end by the second, and nothing else: never one that *)
(* is still under way.                                                     *)
OrphanForCause ==
  [][ReportsOrphan =>
       \/ job.state = "gone"
       \/ job.state = "failed" /\ job.stalls >= MaxStalled
       \/ inst.status \in Terminal]_checkVars

=============================================================================
