---------------------------- MODULE DerivedViews ----------------------------
(***************************************************************************)
(* What dashboards are told of a run: the derived status, the step it is   *)
(* parked on, whether it is stuck and how far it got (inspect/derive.ts    *)
(* and summarize.ts), over the records of DurableRuntime.  A record's      *)
(* `wake` is "none" when no nextRunAt is stored.                           *)
(*                                                                         *)
(* The three reads of a summary (instance, steps, lock) are taken at one   *)
(* moment here.                                                            *)
(***************************************************************************)
EXTENDS DurableRuntime

Recorded == {k \in Keys : step[k].status # "none"}

(* The one recorded last, if any: getSteps sorts by seq.                   *)
Latest(S) == {k \in S : \A j \in S : step[j].seq <= step[k].seq}

Running == {k \in Recorded : step[k].status = "running"}
LatestRunningStep == Latest(Running)
LastFailedMainStep == Latest({k \in Recorded : k[1] = "main" /\ step[k].status = "failed"})

(* Faulty: the type of the record is not looked at.                        *)
AnyInFlight == {k \in Running : step[k].wake # "none"}

InFlightRetries == {k \in Running : ~IsSleep(k) /\ step[k].wake # "none"}
Asleep == {k \in Recorded : IsSleep(k) /\ step[k].wake # "none"}

View(status, current) == [status |-> status, current |-> current]

(* What a yielded run is parked on.                                        *)
DeriveParked ==
  CASE InFlightRetries # {} -> View("retrying", Latest(InFlightRetries))
    [] InFlightRetries = {} /\ Asleep # {} -> View("sleeping", Latest(Asleep))
    [] OTHER -> View("waiting", LatestRunningStep)

DeriveView ==
  CASE inst.status \in {"completed", "cancelled"} -> View(inst.status, {})
    [] inst.status \in {"failed", "compensation_failed"} ->
         View(inst.status, LastFailedMainStep)
    [] inst.status = "running" -> View("running", LatestRunningStep)
    [] inst.status = "compensating" ->
         View("compensating",
              IF Running # {} THEN LatestRunningStep ELSE LastFailedMainStep)
    [] inst.status = "yielded" -> DeriveParked
    [] OTHER -> View("absent", {})

(* classifyLocalStuck, when the times it looks at lie far enough back.     *)
ClassifyLocalStuck ==
  CASE inst.status = "running" -> {"running_stale"}
    [] /\ inst.status = "yielded" /\ DeriveView.status \in {"retrying", "sleeping"}
       /\ \A k \in DeriveView.current : step[k].wake = "due" -> {"resume_missed"}
    [] OTHER -> {}

(* Faulty: the lock is not looked at.                                      *)
StuckLocked == ClassifyLocalStuck

(* summarizeInstances: a run whose lock is held is not stale.              *)
Stuck == IF lock # Free THEN ClassifyLocalStuck \ {"running_stale"} ELSE ClassifyLocalStuck

---------------------------------------------------------------------------
(* Correctness.                                                            *)

(* derive.ts:31-34: while the job is delayed for a step, the run is shown  *)
(* parked on that very step, with its time, and never as due already.      *)
ShowsWhatItWaitsFor ==
  /\ inst.status = "yielded"
  /\ job.state = "delayed" /\ job.until # Soon
  /\ step[job.until].wake = "pending"
  => /\ DeriveView.status = IF IsSleep(job.until) THEN "sleeping" ELSE "retrying"
     /\ DeriveView.current = {job.until}
     /\ Stuck = {}

(* summarize.ts:46-48: a run is called stale only when no worker is in the *)
(* middle of a tick of it, however long the step's body takes.             *)
StaleIsIdle ==
  Stuck = {"running_stale"} => \A w \in Workers : pc[w] \notin Locked

=============================================================================
