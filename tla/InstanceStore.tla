--------------------------- MODULE InstanceStore ---------------------------
(***************************************************************************)
(* What one durable instance keeps in the state store, and the effect of   *)
(* each store call on it.  A Lua script of redis-store.ts is one atomic    *)
(* operator here; memory-store.ts implements the same contract.            *)
(*                                                                         *)
(* An instance record joins the instance hash with the two index entries   *)
(* the scripts move together with it: `active` (member of the active set)  *)
(* and `done` (the done buckets holding the id).  The index can outlive    *)
(* the hash, so a missing hash is a status value, not a missing record.    *)
(***************************************************************************)
EXTENDS Naturals

Terminal == {"completed", "failed", "cancelled", "compensation_failed"}
Live == {"running", "yielded", "compensating"}

Instances ==
  [status: Live \cup Terminal \cup {"absent"},
   active: BOOLEAN,
   done: SUBSET Terminal,
   stepSeq: Nat]

NoInstance ==
  [status |-> "absent", active |-> FALSE, done |-> {}, stepSeq |-> 0]

Exists(inst) == inst.status # "absent"

(* Faulty: a failed run is taken for one that may go on.                   *)
BeginTickAnew(inst) ==
  CASE ~Exists(inst) ->
         [status |-> "running", active |-> TRUE, done |-> {}, stepSeq |-> 0]
    [] inst.status \in {"completed", "cancelled"} -> inst
    [] OTHER ->
         [inst EXCEPT !.status = IF @ = "compensating" THEN @ ELSE "running",
                      !.active = TRUE]

(* BEGIN_TICK_SCRIPT.  A created instance joins the active set and leaves  *)
(* every done bucket of an earlier run under the same id; a finished one   *)
(* comes back untouched; otherwise the tick makes it running, unless it is *)
(* already compensating.                                                   *)
BeginTick(inst) ==
  CASE ~Exists(inst) ->
         [status |-> "running", active |-> TRUE, done |-> {}, stepSeq |-> 0]
    [] inst.status \in Terminal -> inst
    [] OTHER ->
         [inst EXCEPT !.status = IF @ = "compensating" THEN @ ELSE "running",
                      !.active = TRUE]

(* UPDATE_SCRIPT with a status in the patch.  It takes no lock token and   *)
(* does not look at the status it replaces; the index moves only on a real *)
(* change of status.                                                       *)
UpdateStatus(inst, new) ==
  CASE ~Exists(inst) \/ inst.status = new -> inst
    [] Exists(inst) /\ inst.status # new /\ new \in Terminal ->
         [inst EXCEPT !.status = new, !.active = FALSE, !.done = @ \cup {new}]
    [] OTHER ->
         [inst EXCEPT !.status = new, !.active = TRUE, !.done = {}]

(* The condition under which TERMINAL_SCRIPT with a lock token applies:    *)
(* the instance exists, and its lock is free or held by that token.        *)
MayFinish(inst, lockFree, lockOurs) ==
  Exists(inst) /\ (lockFree \/ lockOurs)

(* What TERMINAL_SCRIPT does once it applies.  Neither the status it       *)
(* replaces nor the other done buckets are looked at.                      *)
Finish(inst, new) ==
  [inst EXCEPT !.status = new, !.active = FALSE, !.done = @ \cup {new}]

---------------------------------------------------------------------------
(* Step records.  `wake` is the record's nextRunAt as the code tests it:   *)
(* no time stored, a time still ahead, or a time that has passed.          *)

StepRecords ==
  [status: {"none", "running", "completed", "failed"},
   attempts: Nat,
   wake: {"none", "pending", "due"},
   seq: Nat]

NoStep == [status |-> "none", attempts |-> 0, wake |-> "none", seq |-> 0]

(* Faulty: only a completed record answers for its step.                   *)
BeginStepAnew(inst, rec) ==
  CASE ~Exists(inst) -> "missing"
    [] inst.status = "cancelled" -> "cancelled"
    [] Exists(inst) /\ inst.status # "cancelled" /\ rec.status \in {"completed", "running"}
         -> "existing"
    [] OTHER -> "created"

(* The four answers of BEGIN_STEP_SCRIPT.  Of the terminal statuses only   *)
(* `cancelled` turns a step away.                                          *)
BeginStep(inst, rec) ==
  CASE ~Exists(inst) -> "missing"
    [] inst.status = "cancelled" -> "cancelled"
    [] Exists(inst) /\ inst.status # "cancelled" /\ rec.status # "none" -> "existing"
    [] OTHER -> "created"

(* The record BEGIN_STEP_SCRIPT writes for a new step; it also bumps the   *)
(* instance's stepSeq, whose new value is the step's place in call order.  *)
AllocSeq(inst) == [inst EXCEPT !.stepSeq = @ + 1]

NewStep(inst, wake) ==
  [status |-> "running", attempts |-> 1, wake |-> wake, seq |-> inst.stepSeq + 1]

=============================================================================
