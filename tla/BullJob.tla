------------------------------ MODULE BullJob ------------------------------
(***************************************************************************)
(* The BullMQ job that carries a run, as the code under src/ relies on it. *)
(* BullMQ itself is not part of the repository, so every operator here is  *)
(* an assumption about it:                                                 *)
(*  - a delivery makes the job active under the worker's token (`owner`);  *)
(*  - moveToDelayed, completion and failure apply only for the owner;      *)
(*  - an active job whose owner is gone is found by the stall check, which *)
(*    re-queues it up to a limit and fails it after that;                  *)
(*  - a locked job cannot be removed.                                      *)
(***************************************************************************)
EXTENDS Naturals

CONSTANTS Workers, NoOwner

ASSUME OwnerAssumption == NoOwner \notin Workers

JobStates == {"waiting", "active", "delayed", "completed", "failed", "gone"}

(* `made` is attemptsMade and `stalls` the stalled counter.  `until` says  *)
(* what a delayed job waits for: the wake time of the step with that       *)
(* storage key, or a short delay of its own (Soon: lock contention, job    *)
(* backoff).                                                               *)
Soon == <<"soon", 0>>

Jobs(Untils) ==
  [state: JobStates, owner: Workers \cup {NoOwner},
   made: Nat, stalls: Nat, until: Untils]

Claimed(job, w) == job.state = "active" /\ job.owner = w
Abandoned(job) == job.state = "active" /\ job.owner = NoOwner

Owned(job, w) == [job EXCEPT !.state = "active", !.owner = w]
Disowned(job) == [job EXCEPT !.owner = NoOwner]
Requeued(job) == [job EXCEPT !.state = "waiting"]
StalledAgain(job) == [job EXCEPT !.state = "waiting", !.stalls = @ + 1]

Delayed(job, u) == [job EXCEPT !.state = "delayed", !.owner = NoOwner, !.until = u]
Completed(job) == [job EXCEPT !.state = "completed", !.owner = NoOwner]
Failed(job) ==
  [job EXCEPT !.state = "failed", !.owner = NoOwner, !.made = @ + 1]
Rescheduled(job) ==
  [job EXCEPT !.state = "delayed", !.owner = NoOwner, !.made = @ + 1, !.until = Soon]
Gone(job) == [job EXCEPT !.state = "gone"]

=============================================================================
