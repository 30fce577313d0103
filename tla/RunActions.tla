----------------------------- MODULE RunActions -----------------------------
(***************************************************************************)
(* What an application or a dashboard does to a run through its handle     *)
(* (run.ts): resume, retry, retryCompensation, cancel and delete, against  *)
(* the ticks of DurableRuntime and against each other.                     *)
(*                                                                         *)
(* A call takes one step per store or BullMQ call it makes, so what it has *)
(* read may be old when it acts.  A call that is refused changes nothing   *)
(* and is not a step.  Fields that carry no control (the error, the        *)
(* failure report, the action's log line) are not kept.                    *)
(***************************************************************************)
EXTENDS DurableRuntime

CONSTANTS
  Callers,      \* calls that may be under way at the same time
  Events,       \* the operations that are used and the faults that strike
  Allowance     \* how many of them there are in all, not counting resumes

Ops == {"resume", "retry", "retryCompensation", "cancel", "delete"}

(* The process of a caller may die, and BullMQ's retention or job.remove() *)
(* may take the job away.                                                  *)
ASSUME AllowanceAssumption ==
  Events \subseteq Ops \cup {"death", "prune"} /\ Allowance \in Nat

VARIABLES
  call,     \* where each call is and what it has read
  left,     \* events left
  forgotten \* whether the state was ever deleted; no action looks at it

actionVars == <<call, left, forgotten>>
allVars == <<vars, actionVars>>

(* `failed` is the set of step records the call means to reset, `seen` the *)
(* job state it acts on.                                                   *)
CallStates ==
  [op: Ops,
   at: {"none", "steps", "reset", "mark", "carrier", "state", "revive",
        "cancel", "remove", "forget", "done", "thrown"},
   failed: SUBSET Keys,
   seen: JobStates \cup {"unknown"}]

NoCall == [op |-> "resume", at |-> "none", failed |-> {}, seen |-> "unknown"]

ActionsTypeOK ==
  /\ TypeOK
  /\ call \in [Callers -> CallStates]
  /\ left \in Nat
  /\ forgotten \in BOOLEAN

ActionsInit ==
  /\ Init
  /\ call = [c \in Callers |-> NoCall]
  /\ left = Allowance
  /\ forgotten = FALSE

Enter(c, rec) == call' = [call EXCEPT ![c] = rec]
At(c, place) == Enter(c, [call[c] EXCEPT !.at = place])

Take(what) ==
  /\ what \in Events
  /\ IF what = "resume" THEN UNCHANGED left ELSE left > 0 /\ left' = left - 1

---------------------------------------------------------------------------
(* The statuses each operation accepts; any other makes it throw.          *)
Accepts(op) ==
  CASE op = "resume" -> Live
    [] op = "retry" -> {"failed"}
    [] op = "retryCompensation" -> {"compensation_failed"}
    [] op = "cancel" -> Live \cup {"failed", "compensation_failed"}
    [] op = "delete" -> Live \cup Terminal

FirstCall(op) ==
  CASE op = "resume" -> "carrier"
    [] op \in {"retry", "retryCompensation"} -> "steps"
    [] op = "cancel" -> "cancel"
    [] op = "delete" -> "remove"

(* requireExistingInstance and the status test on what it read.            *)
Call(c, op) ==
  /\ call[c].at \in {"none", "done", "thrown"}
  /\ inst.status \in Accepts(op)
  /\ Take(op)
  /\ Enter(c, [NoCall EXCEPT !.op = op, !.at = FirstCall(op)])
  /\ UNCHANGED <<vars, forgotten>>

(* Faulty: completed records are taken with the failed ones.               *)
ResetsSettled(op) ==
  {k \in Keys : /\ step[k].status \in {"completed", "failed"}
                /\ op = "retryCompensation" => k[1] # "main"}

(* The failed records an operation resets.                                 *)
Resets(op) ==
  {k \in Keys : /\ step[k].status = "failed"
                /\ op = "retryCompensation" => k[1] # "main"}

ReadSteps(c) ==
  /\ call[c].at = "steps"
  /\ Enter(c, [call[c] EXCEPT !.at = "reset", !.failed = Resets(call[c].op)])
  /\ UNCHANGED <<vars, left, forgotten>>

(* removeSteps; the clearing of the instance's failure fields follows.     *)
ResetSteps(c) ==
  /\ call[c].at = "reset"
  /\ step' = [k \in Keys |-> IF k \in call[c].failed THEN NoStep ELSE step[k]]
  /\ At(c, "mark")
  /\ UNCHANGED <<inst, lock, job, pc, loc, removing, faults, left, forgotten>>

Reentered(op) == IF op = "retry" THEN "running" ELSE "compensating"

(* updateInstance puts the run back where it goes on from.                 *)
Reopen(c) ==
  /\ call[c].at = "mark"
  /\ inst' = UpdateStatus(inst, Reentered(call[c].op))
  /\ At(c, "carrier")
  /\ UNCHANGED <<step, lock, job, pc, loc, removing, faults, left, forgotten>>

---------------------------------------------------------------------------
(* reviveJob.                                                              *)

FindCarrier(c) ==
  /\ call[c].at = "carrier"
  /\ Enter(c, IF job.state = "gone"
              THEN [call[c] EXCEPT !.at = "revive", !.seen = "gone"]
              ELSE [call[c] EXCEPT !.at = "state"])
  /\ UNCHANGED <<vars, left, forgotten>>

(* A job that went away since it was fetched has an unknown state.         *)
ReadJobState(c) ==
  /\ call[c].at = "state"
  /\ Enter(c, [call[c] EXCEPT !.at = "revive",
                              !.seen = IF job.state = "gone" THEN "unknown" ELSE job.state])
  /\ UNCHANGED <<vars, left, forgotten>>

NewJob == [state |-> "waiting", owner |-> NoOwner, made |-> 0, stalls |-> 0, until |-> Soon]

(* Faulty: a failed job is taken for one that will run without help.       *)
ReviveUnlessFailed(c) ==
  LET seen == call[c].seen
  IN /\ call[c].at = "revive"
     /\ \/ /\ seen \in {"delayed", "completed"}
           /\ \/ /\ job.state = seen
                 /\ job' = Requeued(job)
                 /\ At(c, "done")
              \/ /\ job.state # seen
                 /\ At(c, "thrown")
                 /\ UNCHANGED job
        \/ /\ seen = "gone"
           /\ job' = IF job.state = "gone" THEN NewJob ELSE job
           /\ At(c, "done")
        \/ /\ seen \in {"waiting", "active", "unknown", "failed"}
           /\ At(c, "done")
           /\ UNCHANGED job
     /\ UNCHANGED <<inst, step, lock, pc, loc, removing, faults, left, forgotten>>

(* Promote, retry or add the job again, by the state it had.  promote and  *)
(* retry throw when the job has moved on; adding an id that exists again   *)
(* does nothing; a job in any other state will run without help.           *)
ReviveJob(c) ==
  LET seen == call[c].seen
  IN /\ call[c].at = "revive"
     /\ \/ /\ seen \in {"delayed", "failed", "completed"}
           /\ \/ /\ job.state = seen
                 /\ job' = Requeued(job)
                 /\ At(c, "done")
              \/ /\ job.state # seen
                 /\ At(c, "thrown")
                 /\ UNCHANGED job
        \/ /\ seen = "gone"
           /\ job' = IF job.state = "gone" THEN NewJob ELSE job
           /\ At(c, "done")
        \/ /\ seen \in {"waiting", "active", "unknown"}
           /\ At(c, "done")
           /\ UNCHANGED job
     /\ UNCHANGED <<inst, step, lock, pc, loc, removing, faults, left, forgotten>>

---------------------------------------------------------------------------
(* cancel() and delete().                                                  *)

MarkCancelled(c) ==
  /\ call[c].at = "cancel"
  /\ inst' = IF Exists(inst) THEN Finish(inst, "cancelled") ELSE inst
  /\ At(c, "remove")
  /\ UNCHANGED <<step, lock, job, pc, loc, removing, faults, left, forgotten>>

(* removeCarrierJobs: a job that a worker has locked stays, and nobody is  *)
(* told.                                                                   *)
RemoveJob(c) ==
  /\ call[c].at = "remove"
  /\ job' = IF job.state = "active" /\ job.owner # NoOwner THEN job ELSE Gone(job)
  /\ At(c, IF call[c].op = "delete" THEN "forget" ELSE "done")
  /\ UNCHANGED <<store, pc, loc, removing, faults, left, forgotten>>

(* removeInstances.                                                        *)
ForgetRun(c) ==
  /\ call[c].at = "forget"
  /\ inst' = NoInstance
  /\ step' = [k \in Keys |-> NoStep]
  /\ forgotten' = TRUE
  /\ At(c, "done")
  /\ UNCHANGED <<lock, job, pc, loc, removing, faults, left>>

---------------------------------------------------------------------------
(* The caller dies between two calls; the job goes behind the run's back.  *)

CallerDies(c) ==
  /\ call[c].at \notin {"none", "done", "thrown"}
  /\ Take("death")
  /\ Enter(c, NoCall)
  /\ UNCHANGED <<vars, forgotten>>

JobPruned ==
  /\ job.state \in {"waiting", "delayed", "completed", "failed"}
  /\ Take("prune")
  /\ job' = Gone(job)
  /\ UNCHANGED <<store, pc, loc, removing, faults, call, forgotten>>

CallStep(c) ==
  \/ ReadSteps(c) \/ ResetSteps(c) \/ Reopen(c)
  \/ FindCarrier(c) \/ ReadJobState(c) \/ ReviveJob(c)
  \/ MarkCancelled(c) \/ RemoveJob(c) \/ ForgetRun(c)

ActionsNext ==
  \/ Next /\ UNCHANGED actionVars
  \/ \E c \in Callers :
       \/ \E op \in Ops : Call(c, op)
       \/ CallStep(c) \/ CallerDies(c)
  \/ JobPruned

(* A call goes on unless its process dies, and somebody resumes a run that *)
(* stays live, again and again.                                            *)
ActionsFairness ==
  /\ Fairness
  /\ \A c \in Callers : WF_allVars(CallStep(c)) /\ SF_allVars(Call(c, "resume"))

ActionsSpec == ActionsInit /\ [][ActionsNext]_allVars
FairActionsSpec == ActionsSpec /\ ActionsFairness

---------------------------------------------------------------------------
(* Correctness.                                                            *)

(* README.md:429-431, run.ts:206-209: a retry or a retried compensation    *)
(* goes on from the failure point.  Whatever is called, one call after the *)
(* other, and wherever a caller or a worker dies, a completed step or      *)
(* rollback keeps its record until the run is deleted, so its body never   *)
(* runs again.                                                             *)
DoneStays ==
  [][\A k \in Keys : step[k].status = "completed" =>
       \/ step'[k] = step[k]
       \/ \E c \in Callers : call[c].at = "forget" /\ call'[c].at = "done"]_allVars

(* `failed` says that every completed undoable step was undone, and        *)
(* `compensation_failed` that some was not.                                *)
TellsUndo ==
  /\ inst.status = "failed" =>
       \A i \in Undoable : step[Main(i)].status = "completed"
                             => step[Undo(i)].status = "completed"
  /\ inst.status = "compensation_failed" =>
       \E i \in Undoable : /\ step[Main(i)].status = "completed"
                          /\ step[Undo(i)].status # "completed"

(* The status of a failed run tells the truth about its rollbacks, however *)
(* often it was retried.  A run that comes back after its state was        *)
(* deleted is another matter (DeletedStays): it may find a record that the *)
(* tick it was deleted under has left.                                     *)
StatusTellsUndo == ~forgotten => TellsUndo

(* run.ts:278: a deleted run does not come back to life by itself.         *)
DeletedStays ==
  [][forgotten /\ inst.status = "absent" => inst'.status = "absent"]_allVars

(* Resuming brings every stuck run to an end: one whose job died without a *)
(* settlement, was pruned, or was left behind by a retry that stopped      *)
(* half-way.                                                               *)
ResumeHeals == <>[](inst.status \in Terminal \cup {"absent"})

=============================================================================
