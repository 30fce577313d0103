--------------------------- MODULE DurableRuntime ---------------------------
(***************************************************************************)
(* One durable run: its state in the store, the BullMQ job that carries    *)
(* it, and the worker processes that drive ticks of it.                    *)
(*                                                                         *)
(* A worker takes one step per store or job call of execution/runtime.ts   *)
(* and execution/step-executor.ts, so every await of that code is a point  *)
(* where another worker, a crash, a cancel or the clock may act.           *)
(*                                                                         *)
(* The processor is a sequence of steps 1..N.  Those in Sleeps are         *)
(* ctx.sleep calls, those in Undoable carry an onRollback, and the failure *)
(* of one in Optional is caught by the processor.  A thrown error that is  *)
(* no step failure ("glue" code) may end the processor between two steps.  *)
(* onFailure, when there is one, runs one durable step of its own.         *)
(***************************************************************************)
EXTENDS InstanceStore, BullJob, FiniteSets

CONSTANTS
  N, Sleeps, Undoable, Optional,   \* the shape of the processor
  HasOnFailure,                    \* whether an onFailure handler is registered
  StepAttempts, UndoAttempts,      \* retry.attempts of steps and of onRollback
  JobAttempts, MaxStalled,         \* BullMQ's attempts and maxStalledCount
  Free, Lost,                      \* lock values: unheld; held by a dead worker's token
  Budget,                          \* how often each kind of fault may strike
  MaxKinds                         \* how many kinds may strike in one behaviour

(* A worker dies; a job is promoted before its time, or retried after it   *)
(* failed; the instance lock or the job lock lapses under a live worker;   *)
(* the processor throws between two steps, transiently or for good; the    *)
(* run is cancelled from outside.                                          *)
Faults == {"crash", "early", "retry", "lockLapse", "jobLapse",
           "transient", "fatal", "cancel"}

ASSUME ProcessorAssumption ==
  /\ N \in Nat \ {0}
  /\ Sleeps \subseteq 1..N
  /\ Undoable \subseteq (1..N) \ Sleeps
  /\ Optional \subseteq (1..N) \ Sleeps
  /\ HasOnFailure \in BOOLEAN

ASSUME BudgetAssumption ==
  /\ StepAttempts \in Nat \ {0} /\ UndoAttempts \in Nat \ {0}
  /\ JobAttempts \in Nat \ {0} /\ MaxStalled \in Nat
  /\ Budget \in [Faults -> Nat] /\ MaxKinds \in Nat

ASSUME TokenAssumption == Free # Lost /\ Free \notin Workers /\ Lost \notin Workers

---------------------------------------------------------------------------
(* Storage keys: a step's phase and its place in the processor.            *)
Main(i) == <<"main", i>>
Undo(i) == <<"compensation", i>>
OnFailure == <<"failure", 0>>

Keys == ({"main"} \X (1..N)) \cup ({"compensation"} \X Undoable) \cup {OnFailure}

MaxAttempts(k) == IF k[1] = "compensation" THEN UndoAttempts ELSE StepAttempts

VARIABLES
  inst,     \* the instance record in the store
  step,     \* the step records in the store, by storage key
  lock,     \* the token in the instance lock
  job,      \* the BullMQ job
  pc,       \* where each worker is
  loc,      \* what each worker's tick holds in memory
  removing, \* an external cancel has marked the state, not yet removed the job
  faults    \* faults left to strike

store == <<inst, step, lock>>
vars == <<inst, step, lock, job, pc, loc, removing, faults>>

(* A tick's memory.  `attempt` is the jobAttempt the tick was delivered    *)
(* with, `rec` the executor's copy of the record of the step it is at,     *)
(* `regs` the rollbacks registered so far, `todo` those not yet run,       *)
(* `undoFailed` whether the report has a failed one, `result` the fate of  *)
(* the last attempt and `out` the tick's outcome.                          *)
Locals ==
  [mode: {"normal", "settle"}, attempt: Nat, entered: BOOLEAN,
   key: Keys, rec: StepRecords,
   regs: SUBSET Undoable, todo: SUBSET Undoable, undoFailed: BOOLEAN,
   result: {"none", "ok", "again", "failed"},
   out: {"none", "yield", "contended", "suspended",
         "completed", "failed", "cancelled", "retriable"}]

Tick(mode, attempt) ==
  [mode |-> mode, attempt |-> attempt, entered |-> FALSE,
   key |-> Main(1), rec |-> NoStep, regs |-> {}, todo |-> {},
   undoFailed |-> FALSE, result |-> "none", out |-> "none"]

Idle == Tick("normal", 0)

(* Places a worker can be at: outside a tick, inside the section that      *)
(* holds the instance lock, and after its release.                         *)
Locked == {"begin", "step", "claim", "body", "save", "wake", "awake", "yielded",
           "retriable", "cancelling", "enter", "mark", "settle", "complete", "failfast", "release"}
Places == {"idle", "orphan", "acquire", "park", "return"} \cup Locked

TypeOK ==
  /\ inst \in Instances
  /\ step \in [Keys -> StepRecords]
  /\ lock \in Workers \cup {Free, Lost}
  /\ job \in Jobs(Keys \cup {Soon})
  /\ pc \in [Workers -> Places]
  /\ loc \in [Workers -> Locals]
  /\ removing \in BOOLEAN
  /\ faults \in [Faults -> Nat]

Init ==
  /\ inst = NoInstance
  /\ step = [k \in Keys |-> NoStep]
  /\ lock = Free
  /\ job = [state |-> "waiting", owner |-> NoOwner, made |-> 0, stalls |-> 0, until |-> Soon]
  /\ pc = [w \in Workers |-> "idle"]
  /\ loc = [w \in Workers |-> Idle]
  /\ removing = FALSE
  /\ faults = Budget

Strike(f) ==
  /\ faults[f] > 0
  /\ Cardinality({g \in Faults : faults[g] < Budget[g]} \cup {f}) <= MaxKinds
  /\ faults' = [faults EXCEPT ![f] = @ - 1]

Go(w, place, mem) ==
  /\ pc' = [pc EXCEPT ![w] = place]
  /\ loc' = [loc EXCEPT ![w] = mem]

---------------------------------------------------------------------------
(* How a tick goes on after a step, a rollback or a failure.  Each of      *)
(* these is in-memory work between two store calls.                        *)

(* Faulty: the sort compares the other way.                                *)
FirstCalled(S) ==
  {i \in S : \A j \in S : step[Main(j)].seq >= step[Main(i)].seq}

(* The registered rollback that is latest in call order.                   *)
LastCalled(S) ==
  {i \in S : \A j \in S : step[Main(j)].seq <= step[Main(i)].seq}

(* runRollbacks: the next registered rollback in reverse call order, then  *)
(* onFailure, then the terminal transition.                                *)
Compensate(w, mem) ==
  \/ \E i \in LastCalled(mem.todo) :
       Go(w, "step", [mem EXCEPT !.key = Undo(i)])
  \/ /\ mem.todo = {} /\ HasOnFailure
     /\ Go(w, "step", [mem EXCEPT !.key = OnFailure])
  \/ /\ mem.todo = {} /\ ~HasOnFailure
     /\ Go(w, "settle", mem)

(* Faulty: a resumed sequence skips the rollbacks it finds begun.          *)
StartUnbegunOnly(w) ==
  Compensate(w, [loc[w] EXCEPT
    !.todo = {i \in loc[w].regs : step[Undo(i)].status = "none"}])

StartCompensation(w) == Compensate(w, [loc[w] EXCEPT !.todo = loc[w].regs])

(* The step is settled and the code after it runs.                         *)
Advance(w, mem) ==
  LET phase == mem.key[1]
      i == mem.key[2]
  IN \/ /\ phase = "main" /\ i < N
        /\ Go(w, "step", [mem EXCEPT !.key = Main(i + 1)])
     \/ /\ phase = "main" /\ i = N
        /\ Go(w, IF mem.entered THEN "enter" ELSE "complete", mem)
     \/ /\ phase = "compensation"
        /\ Compensate(w, [mem EXCEPT !.todo = @ \ {i}])
     \/ /\ phase = "failure"
        /\ Go(w, "settle", mem)

(* Faulty: every main step counts as having a rollback.                    *)
RegisterAll(mem) ==
  IF mem.key[1] = "main" THEN [mem EXCEPT !.regs = @ \cup {mem.key[2]}] ELSE mem

(* A completed step of the main phase registers its rollback.              *)
Register(mem) ==
  IF mem.key[1] = "main" /\ mem.key[2] \in Undoable
  THEN [mem EXCEPT !.regs = @ \cup {mem.key[2]}]
  ELSE mem

(* Faulty: the last job attempt is given up before it is made.             *)
ClassifyEarly(w, mem, retriable) ==
  LET viaJob == retriable /\ mem.mode = "normal" /\ mem.attempt + 1 < JobAttempts
      bare == mem.regs = {} /\ ~HasOnFailure
  IN \/ mem.entered /\ Go(w, "enter", mem)
     \/ ~mem.entered /\ viaJob /\ Go(w, "retriable", mem)
     \/ ~mem.entered /\ ~viaJob /\ bare /\ Go(w, "failfast", mem)
     \/ ~mem.entered /\ ~viaJob /\ ~bare /\ Go(w, "enter", mem)

(* execute()'s catch block for an error that is neither a yield nor a      *)
(* cancellation: resume a compensation, hand the error to the job's own    *)
(* retries, fail at once, or start the failure sequence.                   *)
Classify(w, mem, retriable) ==
  LET viaJob == retriable /\ mem.mode = "normal" /\ mem.attempt < JobAttempts
      bare == mem.regs = {} /\ ~HasOnFailure
  IN \/ mem.entered /\ Go(w, "enter", mem)
     \/ ~mem.entered /\ viaJob /\ Go(w, "retriable", mem)
     \/ ~mem.entered /\ ~viaJob /\ bare /\ Go(w, "failfast", mem)
     \/ ~mem.entered /\ ~viaJob /\ ~bare /\ Go(w, "enter", mem)

(* Faulty: a failed rollback is left out of the report.                    *)
StepFailedUnreported(w, mem) ==
  LET phase == mem.key[1]
      i == mem.key[2]
  IN \/ phase = "main" /\ i \in Optional /\ Advance(w, mem)
     \/ phase = "main" /\ i \notin Optional /\ Classify(w, mem, FALSE)
     \/ phase = "compensation" /\ Compensate(w, [mem EXCEPT !.todo = @ \ {i}])
     \/ phase = "failure" /\ Go(w, "settle", mem)

(* Faulty: an error of onFailure leaves the tick without a settlement.     *)
StepFailedUncaught(w, mem) ==
  LET phase == mem.key[1]
      i == mem.key[2]
  IN \/ phase = "main" /\ i \in Optional /\ Advance(w, mem)
     \/ phase = "main" /\ i \notin Optional /\ Classify(w, mem, FALSE)
     \/ /\ phase = "compensation"
        /\ Compensate(w, [mem EXCEPT !.todo = @ \ {i}, !.undoFailed = TRUE])
     \/ phase = "failure" /\ Go(w, "release", [mem EXCEPT !.out = "failed"])

(* The step at `key` is settled as failed and its error is rethrown.       *)
StepFailed(w, mem) ==
  LET phase == mem.key[1]
      i == mem.key[2]
  IN \/ phase = "main" /\ i \in Optional /\ Advance(w, mem)
     \/ phase = "main" /\ i \notin Optional /\ Classify(w, mem, FALSE)
     \/ /\ phase = "compensation"
        /\ Compensate(w, [mem EXCEPT !.todo = @ \ {i}, !.undoFailed = TRUE])
     \/ phase = "failure" /\ Go(w, "settle", mem)

(* A yield unwinds the tick.  execute() marks the instance yielded, the    *)
(* failure sequence leaves it compensating.                                *)
Yield(w, mem) ==
  Go(w, IF mem.key[1] = "main" THEN "yielded" ELSE "release",
     [mem EXCEPT !.out = "yield"])

---------------------------------------------------------------------------
(* run(): lock, begin the tick, and the outcome.                           *)

Deliver(w) ==
  /\ pc[w] = "idle" /\ job.state = "waiting"
  /\ job' = Owned(job, w)
  /\ Go(w, "acquire", Tick("normal", job.made + 1))
  /\ UNCHANGED <<store, removing, faults>>

(* Faulty: the lock is set without NX.                                     *)
AcquireAnyway(w) ==
  /\ pc[w] = "acquire"
  /\ lock' = w
  /\ Go(w, "begin", loc[w])
  /\ UNCHANGED <<inst, step, job, removing, faults>>

Acquire(w) ==
  /\ pc[w] = "acquire" /\ lock = Free
  /\ lock' = w
  /\ Go(w, "begin", loc[w])
  /\ UNCHANGED <<inst, step, job, removing, faults>>

Contended(w) ==
  /\ pc[w] = "acquire" /\ lock # Free
  /\ Go(w, "park", [loc[w] EXCEPT !.out = "contended"])
  /\ UNCHANGED <<store, job, removing, faults>>

(* initInstance, and the early return that replays a finished outcome.     *)
Begin(w) ==
  /\ pc[w] = "begin"
  /\ inst' = BeginTick(inst)
  /\ LET status == BeginTick(inst).status
     IN \/ /\ status \notin Terminal
           /\ Go(w, "step", [loc[w] EXCEPT !.entered = (status = "compensating")])
        \/ /\ status \in Terminal
           /\ Go(w, "release",
                 [loc[w] EXCEPT !.out = IF status = "compensation_failed"
                                        THEN "failed" ELSE status])
  /\ UNCHANGED <<step, lock, job, removing, faults>>

(* Faulty: a tick that yields keeps the lock.                              *)
ReleaseUnlessYield(w) ==
  /\ pc[w] = "release"
  /\ lock' = IF lock = w /\ loc[w].out # "yield" THEN Free ELSE lock
  /\ Go(w, IF loc[w].out = "yield" THEN "park" ELSE "return", loc[w])
  /\ UNCHANGED <<inst, step, job, removing, faults>>

Release(w) ==
  /\ pc[w] = "release"
  /\ lock' = IF lock = w THEN Free ELSE lock
  /\ Go(w, IF loc[w].out = "yield" THEN "park" ELSE "return", loc[w])
  /\ UNCHANGED <<inst, step, job, removing, faults>>

(* suspend(): moveToDelayed under the delivery's token, its error          *)
(* swallowed.  A settle tick has no token, and its job is not active.      *)
Park(w) ==
  /\ pc[w] = "park"
  /\ job' = IF Claimed(job, w)
            THEN Delayed(job, IF loc[w].out = "yield" THEN loc[w].key ELSE Soon)
            ELSE job
  /\ Go(w, "idle", Idle)
  /\ UNCHANGED <<store, removing, faults>>

(* runOutcomeToReturn, and what the BullMQ worker does with it.  A job     *)
(* that was reported suspended without having been moved stays active with *)
(* nobody working on it.                                                   *)
Return(w) ==
  /\ pc[w] = "return"
  /\ job' = IF ~Claimed(job, w) THEN job
            ELSE CASE loc[w].out = "completed" -> Completed(job)
                   [] loc[w].out \in {"failed", "cancelled"} -> Failed(job)
                   [] loc[w].out = "retriable" -> Rescheduled(job)
                   [] OTHER -> Disowned(job)
  /\ Go(w, "idle", Idle)
  /\ UNCHANGED <<store, removing, faults>>

(* settleOrphanedFailure, for a job that died without a settlement.  The   *)
(* error of a stall death forbids a retry, so the attempts test of the     *)
(* listener never turns it away.                                           *)
Orphan(w) ==
  /\ pc[w] = "orphan"
  /\ \/ inst.status \in Terminal \cup {"absent"} /\ Go(w, "idle", Idle)
     \/ inst.status \in Live /\ Go(w, "acquire", loc[w])
  /\ UNCHANGED <<store, job, removing, faults>>

---------------------------------------------------------------------------
(* ctx.step and ctx.sleep.                                                 *)

ReplayOnly(w) == loc[w].mode = "settle" /\ loc[w].key[1] = "main"
IsSleep(k) == k[1] = "main" /\ k[2] \in Sleeps

(* A settlement tick's forward phase never writes: it replays what is      *)
(* settled and stops at the first record that is not.                      *)
ReplaySettled(w) ==
  LET mem == loc[w]
      rec == step[mem.key]
  IN /\ pc[w] = "step" /\ ReplayOnly(w)
     /\ \/ rec.status = "completed" /\ Advance(w, Register(mem))
        \/ rec.status = "failed" /\ ~IsSleep(mem.key) /\ StepFailed(w, mem)
        \/ /\ rec.status \in {"none", "running"}
           /\ Go(w, "enter", mem)
     /\ UNCHANGED <<store, job, removing, faults>>

Entering(w, answer) ==
  pc[w] = "step" /\ ~ReplayOnly(w) /\ BeginStep(inst, step[loc[w].key]) = answer

Refused(w) ==
  /\ Entering(w, "missing") \/ Entering(w, "cancelled")
  /\ Go(w, "cancelling", loc[w])
  /\ UNCHANGED <<store, job, removing, faults>>

FreshStep(w) ==
  LET k == loc[w].key
      rec == NewStep(inst, "none")
  IN /\ Entering(w, "created") /\ ~IsSleep(k)
     /\ inst' = AllocSeq(inst)
     /\ step' = [step EXCEPT ![k] = rec]
     /\ Go(w, "body", [loc[w] EXCEPT !.rec = rec])
     /\ UNCHANGED <<lock, job, removing, faults>>

(* A new sleep is stored with its wake time; one that has nothing to wait  *)
(* for completes inline.                                                   *)
FreshSleep(w) ==
  LET k == loc[w].key
  IN /\ Entering(w, "created") /\ IsSleep(k)
     /\ inst' = AllocSeq(inst)
     /\ \/ /\ step' = [step EXCEPT ![k] = NewStep(inst, "pending")]
           /\ Yield(w, loc[w])
        \/ /\ step' = [step EXCEPT ![k] = NewStep(inst, "due")]
           /\ Go(w, "wake", loc[w])
     /\ UNCHANGED <<lock, job, removing, faults>>

(* Faulty: the time is honoured for a sleep, not for the next attempt.     *)
MustWaitAsleep(k, rec) == rec.wake = "pending" /\ IsSleep(k)

(* A running record whose nextRunAt is still ahead.                        *)
MustWait(k, rec) == rec.wake = "pending"
Resumable(k, rec) == rec.status = "running" /\ ~MustWait(k, rec)

(* beginStep answers with a record: replay it, honour its wake time, or    *)
(* take the next attempt.  A settlement tick waits in-process.             *)
ExistingStep(w) ==
  LET mem == loc[w]
      rec == step[mem.key]
  IN /\ Entering(w, "existing")
     /\ \/ rec.status = "completed" /\ Advance(w, Register(mem))
        \/ rec.status = "failed" /\ StepFailed(w, mem)
        \/ /\ rec.status = "running" /\ MustWait(mem.key, rec) /\ mem.mode = "normal"
           /\ Yield(w, mem)
        \/ /\ Resumable(mem.key, rec) /\ ~IsSleep(mem.key)
           /\ Go(w, "claim", [mem EXCEPT !.rec = [rec EXCEPT !.attempts = @ + 1,
                                                             !.wake = "none"]])
        \/ Resumable(mem.key, rec) /\ IsSleep(mem.key) /\ Go(w, "wake", mem)
     /\ UNCHANGED <<store, job, removing, faults>>

(* updateStep on the record of an elapsed sleep: it is read, and left      *)
(* alone if it is gone.                                                    *)
ReadSleep(w) ==
  LET rec == step[loc[w].key]
  IN /\ pc[w] = "wake"
     /\ \/ rec.status = "none" /\ Advance(w, loc[w])
        \/ rec.status # "none" /\ Go(w, "awake", [loc[w] EXCEPT !.rec = rec])
     /\ UNCHANGED <<store, job, removing, faults>>

(* Then what was read is written back as completed.                        *)
WakeUp(w) ==
  /\ pc[w] = "awake"
  /\ step' = [step EXCEPT ![loc[w].key] = [loc[w].rec EXCEPT !.status = "completed"]]
  /\ Advance(w, loc[w])
  /\ UNCHANGED <<inst, lock, job, removing, faults>>

(* saveRunning for an attempt after the first.                             *)
ClaimAttempt(w) ==
  /\ pc[w] = "claim"
  /\ step' = [step EXCEPT ![loc[w].key] = loc[w].rec]
  /\ Go(w, "body", loc[w])
  /\ UNCHANGED <<inst, lock, job, removing, faults>>

(* Faulty: one attempt too many.                                           *)
RunBodyOnceMore(w) ==
  /\ pc[w] = "body"
  /\ \E result \in {"ok", "failed"} \cup
         (IF loc[w].rec.attempts <= MaxAttempts(loc[w].key) THEN {"again"} ELSE {}) :
       Go(w, "save", [loc[w] EXCEPT !.result = result])
  /\ UNCHANGED <<store, job, removing, faults>>

(* The body runs.  An error is retried while attempts remain, unless the   *)
(* body says it must not be.                                               *)
RunBody(w) ==
  /\ pc[w] = "body"
  /\ \E result \in {"ok", "failed"} \cup
         (IF loc[w].rec.attempts < MaxAttempts(loc[w].key) THEN {"again"} ELSE {}) :
       Go(w, "save", [loc[w] EXCEPT !.result = result])
  /\ UNCHANGED <<store, job, removing, faults>>

Saved(w, status, wake) ==
  step' = [step EXCEPT ![loc[w].key] =
             [loc[w].rec EXCEPT !.status = status, !.wake = wake]]

SaveResult(w) ==
  LET mem == [loc[w] EXCEPT !.result = "none"]
  IN /\ pc[w] = "save" /\ loc[w].result = "ok"
     /\ Saved(w, "completed", "none")
     /\ Advance(w, Register(mem))
     /\ UNCHANGED <<inst, lock, job, removing, faults>>

(* recordRetryAndYield, or recordRetryForSettlement and its loop.          *)
SaveRetry(w) ==
  LET mem == [loc[w] EXCEPT !.result = "none"]
  IN /\ pc[w] = "save" /\ loc[w].result = "again"
     /\ \/ /\ mem.mode = "normal"
           /\ Saved(w, "running", "pending")
           /\ Yield(w, mem)
        \/ /\ mem.mode = "settle"
           /\ Saved(w, "running", "none")
           /\ Go(w, "claim", [mem EXCEPT !.rec.attempts = @ + 1])
     /\ UNCHANGED <<inst, lock, job, removing, faults>>

SaveFailure(w) ==
  LET mem == [loc[w] EXCEPT !.result = "none"]
  IN /\ pc[w] = "save" /\ loc[w].result = "failed"
     /\ Saved(w, "failed", "none")
     /\ StepFailed(w, mem)
     /\ UNCHANGED <<inst, lock, job, removing, faults>>

(* The processor throws between two steps, or after the last one: a        *)
(* transient error, or one that BullMQ must not retry.                     *)
GlueError(w) ==
  /\ pc[w] \in {"step", "complete"} /\ loc[w].key[1] = "main"
  /\ \/ Strike("transient") /\ Classify(w, loc[w], TRUE)
     \/ Strike("fatal") /\ Classify(w, loc[w], FALSE)
  /\ UNCHANGED <<store, job, removing>>

---------------------------------------------------------------------------
(* execute() and the failure sequence: the status writes.                  *)

(* updateInstance{yielded}, on a yield or before a job-level retry.        *)
MarkYielded(w) ==
  /\ pc[w] \in {"yielded", "retriable"}
  /\ inst' = UpdateStatus(inst, "yielded")
  /\ Go(w, "release",
        [loc[w] EXCEPT !.out = IF pc[w] = "yielded" THEN "yield" ELSE "retriable"])
  /\ UNCHANGED <<step, lock, job, removing, faults>>

(* runFailureSequence reads the instance, and marks it compensating unless *)
(* it already is.                                                          *)
EnterFailure(w) ==
  /\ pc[w] = "enter"
  /\ \/ inst.status = "compensating" /\ StartCompensation(w)
     \/ inst.status # "compensating" /\ Go(w, "mark", loc[w])
  /\ UNCHANGED <<store, job, removing, faults>>

MarkCompensating(w) ==
  /\ pc[w] = "mark"
  /\ inst' = UpdateStatus(inst, "compensating")
  /\ StartCompensation(w)
  /\ UNCHANGED <<step, lock, job, removing, faults>>

(* A token-fenced terminal transition at one of the four places that make  *)
(* one, and the outcome the tick reports when it applied or did not.       *)
TerminalAt(w, place, status, applied, refused) ==
  LET mayFinish == MayFinish(inst, lock = Free, lock = w)
  IN /\ pc[w] = place
     /\ inst' = IF mayFinish THEN Finish(inst, status) ELSE inst
     /\ Go(w, "release",
           [loc[w] EXCEPT !.out = IF mayFinish THEN applied ELSE refused])
     /\ UNCHANGED <<step, lock, job, removing, faults>>

CompleteRun(w) == TerminalAt(w, "complete", "completed", "completed", "suspended")

SettleTerminal(w) ==
  TerminalAt(w, "settle",
             IF loc[w].undoFailed THEN "compensation_failed" ELSE "failed",
             "failed", "suspended")

FailFast(w) == TerminalAt(w, "failfast", "failed", "failed", "failed")

CancelRun(w) == TerminalAt(w, "cancelling", "cancelled", "cancelled", "cancelled")

---------------------------------------------------------------------------
(* Everything around the workers: time, BullMQ, faults, the application.   *)

(* A worker process dies: its memory is gone, its tokens are held by       *)
(* nobody.                                                                 *)
Crash(w) ==
  /\ pc[w] # "idle"
  /\ Strike("crash")
  /\ Go(w, "idle", Idle)
  /\ lock' = IF lock = w THEN Lost ELSE lock
  /\ job' = IF Claimed(job, w) THEN Disowned(job) ELSE job
  /\ UNCHANGED <<inst, step, removing>>

(* The 30s TTL ends a dead worker's lock.  A live worker renews its lock,  *)
(* best effort: a lapse is a fault, after which it works on as a zombie.   *)
LockExpires ==
  /\ lock # Free
  /\ lock' = Free
  /\ \/ lock = Lost /\ UNCHANGED faults
     \/ lock \in Workers /\ Strike("lockLapse")
  /\ UNCHANGED <<inst, step, job, pc, loc, removing>>

JobLockLapses ==
  /\ job.state = "active" /\ job.owner # NoOwner
  /\ Strike("jobLapse")
  /\ job' = Disowned(job)
  /\ UNCHANGED <<store, pc, loc, removing>>

StallRecover ==
  /\ Abandoned(job) /\ job.stalls < MaxStalled
  /\ job' = StalledAgain(job)
  /\ UNCHANGED <<store, pc, loc, removing, faults>>

(* Past the limit the job fails without a delivery, and the `failed`       *)
(* listener of some worker hears of it.                                    *)
StallDeath(w) ==
  /\ pc[w] = "idle"
  /\ Abandoned(job) /\ job.stalls >= MaxStalled
  /\ job' = Failed(job)
  /\ Go(w, "orphan", Tick("settle", job.made + 2))
  /\ UNCHANGED <<store, removing, faults>>

WakeTimeReached(k) ==
  /\ step[k].wake = "pending"
  /\ step' = [step EXCEPT ![k].wake = "due"]
  /\ UNCHANGED <<inst, lock, job, pc, loc, removing, faults>>

(* A job's delay was counted from after its step's wake time was stored,   *)
(* so it never ends before that time.                                      *)
DelayOver ==
  /\ job.state = "delayed"
  /\ job.until # Soon => step[job.until].wake # "pending"
  /\ job' = Requeued(job)
  /\ UNCHANGED <<store, pc, loc, removing, faults>>

Promote ==
  /\ job.state = "delayed"
  /\ Strike("early")
  /\ job' = Requeued(job)
  /\ UNCHANGED <<store, pc, loc, removing>>

(* job.retry() on a failed job, from BullMQ or a dashboard.                *)
RetryJob ==
  /\ job.state = "failed"
  /\ Strike("retry")
  /\ job' = Requeued(job)
  /\ UNCHANGED <<store, pc, loc, removing>>

(* DurableQueue.cancel: an unfenced terminal transition if there is state, *)
(* then an attempt to remove the job.                                      *)
ExternalCancel ==
  /\ Strike("cancel")
  /\ inst' = IF Exists(inst) THEN Finish(inst, "cancelled") ELSE inst
  /\ removing' = TRUE
  /\ UNCHANGED <<step, lock, job, pc, loc>>

RemoveCarrier ==
  /\ removing
  /\ removing' = FALSE
  /\ \/ job.state = "active" /\ UNCHANGED job
     \/ ~(job.state = "active" /\ job.owner # NoOwner) /\ job' = Gone(job)
  /\ UNCHANGED <<store, pc, loc, faults>>

---------------------------------------------------------------------------
Work(w) ==
  \/ Acquire(w) \/ Contended(w) \/ Begin(w) \/ Release(w) \/ Park(w) \/ Return(w)
  \/ Orphan(w) \/ ReplaySettled(w) \/ Refused(w) \/ FreshStep(w) \/ FreshSleep(w)
  \/ ExistingStep(w) \/ ReadSleep(w) \/ WakeUp(w) \/ ClaimAttempt(w)
  \/ RunBody(w) \/ SaveResult(w) \/ SaveRetry(w) \/ SaveFailure(w)
  \/ MarkYielded(w) \/ EnterFailure(w) \/ MarkCompensating(w)
  \/ CompleteRun(w) \/ SettleTerminal(w) \/ FailFast(w) \/ CancelRun(w)

Next ==
  \/ \E w \in Workers : Work(w) \/ Deliver(w) \/ StallDeath(w) \/ GlueError(w) \/ Crash(w)
  \/ \E k \in Keys : WakeTimeReached(k)
  \/ LockExpires \/ JobLockLapses \/ StallRecover \/ DelayOver \/ Promote \/ RetryJob
  \/ ExternalCancel \/ RemoveCarrier

(* A worker's code goes on unless the process dies, delivery and the stall *)
(* check go on while a worker is up, and time passes.                      *)
Fairness ==
  /\ \A w \in Workers : WF_vars(Work(w)) /\ WF_vars(Deliver(w)) /\ WF_vars(StallDeath(w))
  /\ \A k \in Keys : WF_vars(WakeTimeReached(k))
  /\ WF_vars(lock = Lost /\ LockExpires)
  /\ WF_vars(StallRecover) /\ WF_vars(DelayOver) /\ WF_vars(RemoveCarrier)

Spec == Init /\ [][Next]_vars
FairSpec == Spec /\ Fairness

---------------------------------------------------------------------------
(* Why one lock keeps the step records safe.                               *)

(* Without a lapse the lock is held by the one tick inside it.             *)
SoleTick ==
  /\ faults["lockLapse"] = 0
  /\ \A w \in Workers : pc[w] \in Locked => lock = w

(* A tick that means to write a step record writes over a running one, and *)
(* a settled record waits for nothing.  What is written back of a sleep is *)
(* what is there.                                                          *)
Claims ==
  /\ \A w \in Workers :
       /\ pc[w] \in {"claim", "body", "save", "wake", "awake"} =>
            step[loc[w].key].status = "running"
       /\ pc[w] \in {"claim", "body", "save"} => loc[w].rec.status = "running"
       /\ pc[w] \in {"wake", "awake"} => step[loc[w].key].wake # "pending"
       /\ pc[w] = "awake" => loc[w].rec = step[loc[w].key]
  /\ \A k \in Keys : step[k].status \in {"completed", "failed"} => step[k].wake # "pending"

---------------------------------------------------------------------------
(* Correctness.                                                            *)

CompletedAfter(i) ==
  {j \in Undoable : /\ step[Main(j)].status = "completed"
                    /\ step[Main(j)].seq > step[Main(i)].seq}

Runs(w, k) == pc[w] = "body" /\ pc'[w] = "save" /\ loc[w].key = k

(* One tick of a run at a time: run() takes the instance lock before its   *)
(* first read and gives it up after its last write, also when a stalled    *)
(* job is delivered again, or settled, while the dead tick's lock is still *)
(* there.  Either of the instance lock and the job lock is enough.         *)
OneTickAtATime ==
  \A v, w \in Workers : pc[v] \in Locked /\ pc[w] \in Locked => v = w

(* A settled step is settled for good: no replay, retry, takeover or       *)
(* settlement tick writes over a completed or failed record.               *)
SettledStepsStay ==
  [][\A k \in Keys :
       step[k].status \in {"completed", "failed"} => step'[k] = step[k]]_vars

(* A finished run stays as it finished, whatever delivers its job again or *)
(* still works on it, unless it is cancelled from outside.                 *)
FinishedStays ==
  [][inst.status \in Terminal /\ faults["cancel"] = Budget["cancel"] =>
       inst' = inst \/ faults'["cancel"] < faults["cancel"]]_vars

(* What README.md:426 says of a cancelled run: anything that happens to it *)
(* is a no-op.                                                             *)
CancelledStays == [][inst.status = "cancelled" => inst'.status = "cancelled"]_vars

(* Rollbacks run newest first: a rollback body runs only for a completed   *)
(* step, and only when the rollbacks of every step called after it are     *)
(* settled, across the ticks that yields and crashes split the sequence    *)
(* into.                                                                   *)
ReverseOrder ==
  [][\A w \in Workers : \A i \in Undoable : Runs(w, Undo(i)) =>
       /\ step[Main(i)].status = "completed"
       /\ \A j \in CompletedAfter(i) :
            step[Undo(j)].status \in {"completed", "failed"}]_vars

(* No forward step body runs once a rollback has been started.             *)
NoForwardAfterUndo ==
  [][\A w \in Workers : \A i \in 1..N : Runs(w, Main(i)) =>
       \A j \in Undoable : step[Undo(j)].status = "none"]_vars

(* onFailure starts after the last rollback, and a failed run has been     *)
(* through it.                                                             *)
OnFailureLast ==
  HasOnFailure =>
    /\ step[OnFailure].status # "none" =>
         \A i \in Undoable : step[Main(i)].status = "completed"
                               => step[Undo(i)].status \in {"completed", "failed"}
    /\ inst.status \in {"failed", "compensation_failed"} =>
         step[OnFailure].status \in {"completed", "failed"}

(* A step's retry budget is spent by attempts that failed, and exceeded    *)
(* only by attempts a crash cut short: yields, early deliveries, replays   *)
(* and settlement loops take nothing from it.                              *)
AttemptsBounded ==
  \A k \in Keys : step[k].attempts <= MaxAttempts(k) + Budget["crash"] - faults["crash"]

(* A stored wake time is only ever overtaken by the clock: no early        *)
(* delivery, takeover or replay runs an attempt or ends a sleep before it. *)
NoEarlyWake ==
  [][\A k \in Keys : step[k].wake = "pending" =>
       step'[k] \in {step[k], [step[k] EXCEPT !.wake = "due"]}]_vars

(* A job that completed carries a run that completed, and one that failed  *)
(* without a stall death carries a run that is settled: the state is       *)
(* always written before BullMQ hears of the outcome.                      *)
JobFollowsRun ==
  /\ job.state = "completed" => inst.status = "completed"
  /\ job.state = "failed" /\ job.stalls < MaxStalled => inst.status \in Terminal

(* The two budgets stay apart: the run gives up only for a step that used  *)
(* up its own retries, on the last job attempt, or with the job dead.      *)
(* An error that forbids a retry is the fourth cause.                      *)
GivesUpForCause ==
  [][inst.status \in {"running", "yielded"}
       /\ inst'.status \in {"compensating", "failed", "compensation_failed"} =>
       \/ \E i \in (1..N) \ Optional : step[Main(i)].status = "failed"
       \/ job.made + 1 >= JobAttempts
       \/ job.state = "failed"
       \/ faults["fatal"] < Budget["fatal"]]_vars

(* What a run shows of itself: how far it is, the steps it has completed,  *)
(* and what became of each rollback.                                       *)
RunPhase ==
  CASE inst.status = "absent" -> "new"
    [] inst.status \in {"running", "yielded"} -> "forward"
    [] inst.status = "compensating" -> "undoing"
    [] OTHER -> inst.status

StepsDone == {i \in 1..N : step[Main(i)].status = "completed"}

UndoFate ==
  [i \in Undoable |->
     CASE step[Undo(i)].status = "completed" -> "yes"
       [] step[Undo(i)].status = "failed" -> "lost"
       [] OTHER -> "no"]

(* The run is what RunLifecycle promises.                                  *)
Lifecycle == INSTANCE RunLifecycle WITH
  Handled <- HasOnFailure, phase <- RunPhase, done <- StepsDone, undo <- UndoFate

KeepsPromise == Lifecycle!RunSpec

(* Every time the job is left behind by its worker, it may be delivered    *)
(* once more.                                                              *)
StallsToSpare ==
  Budget["crash"] - faults["crash"] + Budget["jobLapse"] - faults["jobLapse"] <= MaxStalled

(* README.md:587-588: however often a stalled job comes back, it ends and  *)
(* nobody is left working or holding the lock; and the run ends before it, *)
(* unless the job dies of a stall (StallDeathSettles) or the run is        *)
(* cancelled: then the worker lets go, whatever became of the run.         *)
Settles ==
  <>[](/\ faults["cancel"] = Budget["cancel"] =>
            /\ job.state \in {"completed", "failed"}
            /\ StallsToSpare => inst.status \in Terminal
       /\ lock = Free
       /\ \A w \in Workers : pc[w] = "idle")

(* What README.md:587 says of stall death: a run whose job died of it is   *)
(* still settled.                                                          *)
StallDeathSettles ==
  job.state = "failed" /\ inst.status \in Live ~> inst.status \in Terminal

=============================================================================
