# A formal model of bullmq-durable

bullmq-durable runs a multi-step job as a *durable run* on BullMQ: the processor
is replayed from the top on every delivery of the job, its finished steps answer
from checkpoints, and when it fails for good the completed steps are rolled back
newest first. This directory holds TLA+ modules of that mechanism, the TLC runs
that check them and TLAPS proofs about them. Paths below are relative to
`packages/bullmq-durable/` unless they say otherwise.

## The system

| Component | State it keeps | Operations | Modelled |
|---|---|---|---|
| Durable runtime, `src/execution/runtime.ts` | per tick: the lock token, whether it entered compensating, the rollbacks registered by the replay | `run`, `runLocked`, `execute`, the failure sequence, the terminal transition, `suspend` | `DurableRuntime` |
| Step executor, `src/execution/step-executor.ts`, `suspension.ts`, `phase.ts`, and context, `context.ts` | the active phase, the steps in flight, the pending resume | begin or replay a step, run an attempt, save, retry, fail, sleep, replay for a settlement, wait for what is in flight | `DurableRuntime` (one step after another, all phases); `ConcurrentSteps` (concurrent branches, main phase) |
| Redis store, `src/store/redis-store.ts` | instance hash, step records, instance lock with a 30s TTL, status index (active set, one bucket per terminal status) | begin tick, update, terminal transition, begin step, save step, lock; listing, removal | `InstanceStore`; order of the index, listing and removal in `StateReaper` |
| Memory store, `src/store/memory-store.ts` | the same records in maps, no index | the same calls | no, see *Not modelled* |
| Worker, `src/worker.ts` | its BullMQ worker | handle a delivery, settle a job that died without its processor, translate outcomes | `DurableRuntime` |
| BullMQ (not in the repository) | the job: state, token, attemptsMade, stalled counter, delay | deliver, move to delayed, finish, stall check, retry, remove | `BullJob`, external |
| Run handle, `src/run.ts` | none | resume, retry, retryCompensation, cancel, delete, revive the job | `RunActions`; `retry` against the reaper in `StateReaper` |
| Queue, `src/queue.ts` | none | add, cancel, clean, drain, reconcile, listings with their self-heal | `StateReaper`; `cancel` also in `DurableRuntime` |
| Reaper, `src/reaper.ts` | last pass, running flag | reap terminal state whose job is gone, cancel orphans | `StateReaper` |
| Retry and durations, `src/utils/retry.ts`, `duration.ts` | none | resolve options, compute a backoff, parse a duration, read `retryLater`'s arguments | `RetryMath`, run by `ConcurrentSteps` |
| Derived views, `src/inspect/` | none | derived status, current step, local stuck kinds | `DerivedViews` |
| Cockpit health check, `packages/bullmq-cockpit/src/server/inspectors/health-inspector.ts` | the summaries it has read | read the summaries, then each yielded run's job; report orphans | `HealthCheck` |
| Cockpit alerts, `packages/bullmq-cockpit/src/server/inspectors/alerts-inspector.ts` | rules, their last state, the running flag | save, toggle and remove a rule; evaluate; tick; schedule | `Alerts` |
| The rest of the cockpit, NestJS glue, legacy 0.1.x envelopes, logging, serialisation | none of the run's | wiring, reading, formatting | no, see *Not modelled* |

The components meet in three places. The store is shared by all workers, and
each of its calls is one atomic Lua script or one Redis command. The BullMQ job
tells a worker to run a tick, and is told the tick's outcome after the store was.
And the processor itself calls back into the step executor. Between any two of
these calls another worker, the clock, a crash, an operator or a reaper may act.
What is hard:

* a worker dies anywhere, and the stall check re-delivers or kills its job;
* BullMQ's lock on the job and the runtime's lock on the instance lapse
  separately, so a tick may go on as a zombie next to its successor;
* a tick ends by unwinding (yield), writing a status, releasing a lock and moving
  the job, in four calls;
* two retry budgets (the step's and the job's) meet in one `catch` block;
* compensation is itself made of durable steps that yield, crash and resume;
* a job that died of a stall is settled by a tick that has no job to delay;
* the first error of a `Promise.all` unwinds the processor while its siblings go on;
* a dashboard resets records, writes a status and revives a job in separate calls;
* state is deleted when its job is found gone, but the finding is old by the time
  of the deletion, jobs are removed behind the queue's back, and passes overlap.

What makes each part correct: a settled step stays settled and a finished run
stays finished; one tick of a run at a time; rollbacks newest first, complete,
after the last forward step and before `onFailure`; no early wake and no wait over
the cap; retry budgets kept; the job's state follows the run's; every run ends, or
is ended by resuming it; the index holds exactly what is stored; state is collected
when its job is gone and never before; a dashboard tells the truth; an alert is
posted once and its last word is what is so. The `hazards` of `PROJECT.json` list
each hazard at its line with the properties that cover it, or the reason none does.

## Modules

* `InstanceStore` – the records of one run in the store, and one operator per
  script: `BeginTick`, `UpdateStatus`, `MayFinish`/`Finish`, `BeginStep`,
  `NewStep`. An instance record is the hash joined with its index entries
  (`active`, `done`), which the scripts move together. A wake time is data the
  properties tell apart only as absent, pending or due, so it is stored that way.
* `BullJob` – the job as the code uses it. External: nothing of it is in the
  repository, and each operator is an assumption about BullMQ 5.
* `DurableRuntime` – one run, its job and `Workers`. `pc[w]` is the store or job
  call worker `w` makes next, `loc[w]` what its tick holds in memory. One action
  per call; the in-memory work up to the next call (`Advance`, `Register`,
  `Classify`, `Compensate`, `StepFailed`) belongs to the action before it.
* `RunLifecycle` – what a run promises, with no workers, locks, jobs or crashes:
  steps complete in order, then the run completes, or gives up once, undoes
  newest first and fails. `DurableRuntime` is shown to implement it.
* `RunActions` – extends `DurableRuntime` with calls of the run handle. `call[c]`
  is the store or BullMQ call that caller makes next with what it read before.
* `DerivedViews` – what a dashboard derives from the runtime's records.
* `HealthCheck` – extends `DerivedViews` with the two reads of the cockpit's orphan
  check, between which the run goes on. `looking` is that the run was yielded in its
  summary and its job is looked at next.
* `RetryMath` – durations, retry options, backoff: pure operators, no recursion.
* `ConcurrentSteps` – a run whose processor is `Promise.all` over branches of steps
  and sleeps. `frag[s, b]` is where branch `b` of the tick in slot `s` is; a slot
  outlives its tick when a branch does. It uses `RetryMath` for attempts and waits.
* `StateReaper` – several runs of one queue, the index of their statuses with the
  order of its scores (`before`, a relation), passes of the reaper, bulk calls and listings. `pass[p]` is
  the store or BullMQ call pass `p` makes next with what it read before; `job[id]`
  is what BullMQ has of the id; ticks are cut down to their effect on the instance
  hash and the index.
* `Alerts` – rules, what was last posted about each, ticks of the notifier, users.
* `MCDurableRuntime` (also of `DerivedViews`), `MCHealthCheck`, `MCRunActions`,
  `MCConcurrentSteps`, `MCStateReaper`, `MCAlerts` – budgets, small inputs and
  symmetry sets of the runs.
* `DurableRuntimeProofs`, `FinishProofs`, `LifecycleProofs`, `RunActionsProofs`,
  `RunViewsProofs`, `ConcurrentStepsProofs`, `StateReaperProofs`, `AlertsProofs` –
  the theorems.

| Action of `DurableRuntime` | Code |
|---|---|
| `Deliver` | BullMQ hands the job to `handleJob` (worker.ts:90) |
| `Acquire`, `Contended`, `Release`, `Park` | `run` and `suspend` (runtime.ts:181-222) |
| `Begin` | `initInstance` and the replay of a finished outcome (runtime.ts:230-257) |
| `FreshStep`, `FreshSleep`, `ExistingStep`, `Refused` | `beginOrReplayWritableStep`, `sleepFor` |
| `ReadSleep`, `WakeUp` | `updateStep` on an elapsed sleep: a read, which ends it if the record is gone, and a write of what was read (redis-store.ts:468-472) |
| `ClaimAttempt`, `RunBody`, `SaveResult`, `SaveRetry`, `SaveFailure` | `saveRunning`, `runStepAttemptLoop`, `handleStepError`, `recordRetry…`, `failStep` |
| `ReplaySettled` | the read-only replay of a settlement tick |
| `GlueError` | code of the processor throws between two steps |
| `MarkYielded` | `updateInstance{yielded}` for a yield and for a job-level retry |
| `EnterFailure`, `MarkCompensating` | `runFailureSequence` reads, then writes the status |
| `CompleteRun`, `SettleTerminal`, `FailFast`, `CancelRun` | the four token-fenced terminal transitions |
| `Return` | `runOutcomeToReturn` and what BullMQ does with it |
| `StallDeath`, `Orphan` | the `failed` event and `settleOrphanedFailure` |
| `ExternalCancel`, `RemoveCarrier` | `DurableQueue.cancel` in its two steps |
| `Crash`, `LockExpires`, `JobLockLapses`, `StallRecover`, `DelayOver`, `Promote`, `RetryJob`, `WakeTimeReached` | the environment |

| Action of `HealthCheck` | Code (health-inspector.ts) |
|---|---|
| `ReadSummary` | `activeSummaries`, and the run is among the yielded ones (95-120) |
| `ReadCarrier` | `carrierState`, and the report of a job that is not healthy (121-148) |

| Action of `RunActions` | Code (run.ts) |
|---|---|
| `Call` | `requireExistingInstance` and the status test of each operation (187-283) |
| `ReadSteps`, `ResetSteps`, `Reopen` | `retry` and `retryCompensation`: `getSteps`, `removeSteps`, `updateInstance` (211-260) |
| `FindCarrier`, `ReadJobState`, `ReviveJob` | `reviveJob`: get the job, its state, then promote, retry or add it (285-342) |
| `MarkCancelled`, `RemoveJob`, `ForgetRun` | `cancel` and `delete`: `cancelInstance`, `removeCarrierJobs`, `removeInstances` (264-283, 344-367) |
| `CallerDies`, `JobPruned` | the environment |

| Action of `ConcurrentSteps` | Code |
|---|---|
| `BeginNew`, `BeginExisting` | `beginOrReplayWritableStep`, `sleepFor` |
| `Claim`, `RunBody`, `SaveResult`, `SaveError` | `saveRunning`, the body, `saveCompleted`, `handleStepError` with `MayRetry`, `NextDelay` |
| `Elapse` | what is left of a sleep is waited for by yielding; it is over |
| `Finish` | `awaitQuiescence` (context.ts:114-127), then `execute` (runtime.ts:259-330) |
| `Deliver`, `Suspend`, `DelayOver` | the tick's start, `suspend()` with the shortest pending resume (suspension.ts), BullMQ's delay |
| `GapOver`, `TimePasses`, `Crash` | what a branch awaits of its own, the clock, the process |

| Action of `StateReaper` | Code |
|---|---|
| `Add`, `Cancel`, `Clean`, `Drain` | the methods of `DurableQueue` (queue.ts:179-409); `Clean` and `Drain` go on as a full pass |
| `List`, `Load`, `Heal` | `listRuns`, `listRunsPage` (queue.ts): the index, the hashes, then the removal of entries without one |
| `Begin`, `Suspend`, `End`, `Stop` | what a tick does to the hash and the index: `initInstance`, the `yielded` write, a terminal transition, a checkpoint that finds the run cancelled |
| `RetryRead`, `RetryMark`, `Revive` | `DurableRun.retry` and `reviveJob` (run.ts:211-322) |
| `Start` | `kick()`, `pass()`: worker start, reads, terminal outcomes, `reconcile()` |
| `ListActive`, `LookForJobs`, `ReadOrphan`, `CancelOrphan` | `reconcileActive` (reaper.ts:117-145) |
| `ListOldest`, `CheckOldest`, `Remove` | `reapTerminal` (reaper.ts:88-110), up to `MaxRounds` batches of a bucket |
| `Abort` | the process dies, or a store call throws |
| `Leave`, `RemoveJob`, `BecomeQuiet` | BullMQ's retention, a removal behind the queue's back, time |

| Action of `Alerts` | Code (alerts-inspector.ts) |
|---|---|
| `Fire` | `startAlertScheduler`: the interval, unless the flag is up (392-398) |
| `ReadQueues`, `ReadStuck` | `evaluate`: rules, queue summaries and, if a rule needs it, the stuck report |
| `LoadStates`, `Notify`, `SaveState`, `EndTick` | `tick`: the last state, a post on a transition, then the save (225-256) |
| `SaveRule`, `ToggleRead`, `ToggleWrite`, `RemoveRule`, `RemoveState` | the edits of rules, in their Redis calls |
| `CutShort`, `WorldChanges` | a call that throws or a restart; the queues |

In `DurableRuntime` the processor is a sequence of `N` steps; the constants say
which are sleeps, which have an `onRollback` and which have their failure caught. A
step's body succeeds, fails for good or asks for a retry, nondeterministically.
`onFailure` runs one durable step. Operators whose comment starts with *Faulty* are
plausible wrong versions of the one that follows; no specification uses them, the
mutants of `PROJECT.json` do.

### Where the model merges or leaves out

* `ExternalCancel` merges the queue's read of the instance with its
  `cancelInstance`: the script tests existence itself, so the read adds nothing.
* A settlement tick waits for a backoff in-process. It is a worker whose
  `ExistingStep` is disabled until the wake time is due.
* BullMQ reports a stall death with an unrecoverable error, so the attempts test
  of `settleOrphanedFailure` never turns it away and is not a branch of `Orphan`.
* `RunActions` folds `requireExistingInstance` and the status test, which are on one
  read, into the start of the call, and the clearing of the failure fields, which
  carry no control, into `ResetSteps`.
* `ConcurrentSteps` has one process and one tick at a time: what `DurableRuntime`
  says of workers and locks is not repeated. After a failure a branch that is still
  alive is no longer followed, since its keys are those of another phase by then.
* `RetryMath` counts attempts and fractions in tenths and jitter in percent. Values
  that are not finite numbers are left out: `resolveRetry` lets a backoff delay of
  `NaN` through to `computeBackoff` (retry.ts:101).
* `StateReaper` lets a pass start at any time: the throttle and the `running` flag
  only make passes rarer. The `now` of the grace test is taken at the read of the
  instance. `removeInstances` is one step: its pipeline is not atomic, but it
  deletes the hash before the index entries of the same id and needs no reads.
* `StateReaper` adds an id only while nothing is stored for it. README.md:425 takes
  that for granted ("state was reclaimed with the job"); an id used sooner replays
  the old outcome, and a pass that judged the old job can delete the new run.
* `StateReaper` leaves out `wipeQueue`, the legacy global index and carriers, forced
  removal of a locked job, and lapses of a worker's locks. A run is retried once at
  most.
* `DerivedViews` takes the reads of a summary (instance, steps, lock) at one moment.
  `HealthCheck` reads the job later, but fetches it and reads its state in one step: a
  job removed in between is as unhealthy as a missing one.
* `Alerts` has one channel and one cockpit, and every rule posts to it: one without
  channels, or whose channel was removed, posts nothing and records the transition all
  the same (alerts-inspector.ts:263-267). The answer of a post is not looked at, as in
  the code.
* `DurableRuntime` cuts off retries that a body asks for with `retryLater` at the step's
  attempts; that they go on without a limit is in `ConcurrentSteps`.
* `RetryMath` takes the durations in retry options as parsed. One that does not parse
  throws inside `handleStepError` (retry.ts:43-52, 70-72), which leaves the record
  running and ends the tick with an error that is none of the step's: not modelled.
* `GlueError` is thrown before a step or at the processor's end, before `completed` is
  written.
* No module has errors of single store calls of a worker (a call succeeds, or the
  process that makes it dies; see *Not modelled*), the metadata written beside a status, or payloads.

## Runs

Every fault is drawn from a budget, a bound per kind, so that state spaces are
finite and a run's faults are readable from its configuration. `Workers` are two
in the runs about workers: a run has one job, so the third party to any race is a
crash, a cancel or time, each of which is an action of its own. `MaxKinds` bounds how
many of the kinds in a budget strike in one run: `ends` takes all combinations of three
of its seven. Deadlock is checked
in the runs of `StateReaper` and `Alerts`, where something can always happen. The
other systems do stop: a finished run with a finished job has nothing left to do.

| Run | Instance | Properties | Result |
|---|---|---|---|
| `crashes` | 4 steps: two undoable, one plain, one sleep; `onFailure`; 2 attempts of a rollback, 2 of the job; 2 crashes, one re-delivery after a stall, one early promotion, one manual retry; health checks at any time | `TypeOK OnFailureLast JobFollowsRun AttemptsBounded SettledStepsStay ReverseOrder NoForwardAfterUndo NoEarlyWake KeepsPromise OrphanForCause` | holds, 1.42M states up to symmetry |
| `ends` | 2 steps: the first optional and undoable, with 2 attempts, and a sleep; 2 attempts of the job, 1 stalled re-delivery; at most three of 1 crash, 1 lapse of the job lock, 1 transient error, 1 fatal error, 1 cancel, 1 early promotion, 1 manual retry; fairness | `OneTickAtATime ShowsWhatItWaitsFor StaleIsIdle SettledStepsStay FinishedStays Settles GivesUpForCause` | holds, 717k states |
| `actions` | 1 worker, 2 steps, the first undoable; 1 caller, 2 operations or faults besides resuming, delete among them, 1 crash, no stalled re-delivery; fairness | `ActionsTypeOK StatusTellsUndo DoneStays ResumeHeals` | holds, 467k states |
| `steps` | branches of two steps and of one, or of a step and a sleep, 3 processors; own, shared and missing retry options, jitter over 100 %, a ceiling; 2 polls, 2 ticks alive, 1 crash; fairness | `TypeOK BodyAlone RollbacksComplete AttemptsKept WaitsWithinCap QuietAfterTick UnlimitedPolls NearestWait Ends` | holds, 223k states |
| `reaping` | 2 ids used once, 2 passes, batch of 1, 2 rounds, listings of 1 run, 1 dying pass; clean, drain, cancel, removed jobs | `TypeOK Indexed Ranked OnlyOrphansTouched CreatedOnce` | holds, 1.9M states up to symmetry |
| `reclaiming` | 2 ids, 1 pass, one id retried once, 1 dying pass; fairness | `Reclaimed` | holds, 262k states |
| `alerts` | 1 rule, 2 timers, 3 edits, a failing read, a tick cut short, a removal; fairness | `TypeOK PostedOnce ToldFirst LastWord` | holds, 77k states |
| `cancel_revived` | 1 cancel | `CancelledStays` | violated |
| `undone_forward` | 1 transient error on the only job attempt | `NoForwardAfterUndo` | violated |
| `lost_settlement` | 1 crash, no stalled re-delivery allowed; fairness | `StallDeathSettles` | violated |
| `deleted_resurrects` | 1 worker, 1 delete, no faults | `DeletedStays` | violated |
| `lost_rollback` | a branch that awaits something between its steps, next to a step that fails | `RollbacksComplete` | violated |

Why the bounds are enough for the question asked. Two undoable steps with a step
between them are the smallest processor with an order of rollbacks and with work
after the first of them; two attempts of a rollback make the sequence yield in
its middle. Two crashes let the second hit the replay of the first. One lapse of
the job lock gives the two-worker race, and a second worker is all it needs. The
optional step of `ends` is one whose failure does not end the run, next to one whose
failure does. Two operations on a run are enough for a retry, the failure that makes
another one possible, and that one, or for a call and the death of its caller.
Two branches give a step in flight when its sibling yields or fails, and two slots a
branch that outlives its tick. For the reaper, two ids with a batch of one give the
smallest bucket with an entry behind the batch, a walk that is followed by a second
round and one that is not, and two passes that hold the same id. Rules do not
interact, so one is enough; two timers are a call while a tick is under way. Every
action fires in some passing run.

`Settles` asks for an end of the run while stalled re-deliveries are to spare; of a job
that died of a stall it asks that it is over and left alone, for that such a run is
settled is what `lost_settlement` refutes.

`KeepsPromise` is refinement: `DurableRuntime` under the mapping of the
`Lifecycle` instance implements `RunLifecycle!RunSpec`.

`OrphanForCause` is about what a health check says, not about a state: its summary is
from one moment and its look at the job from a later one.

### Limits of what passes

The passing runs stay inside the faults named above. Known edges beyond them:

* With an error of the glue code between steps, with a third crash, or with two
  crashes and no stalled re-delivery allowed, the settlement tick itself dies after
  rollbacks have begun; a manual `job.retry()` then replays the processor in
  normal mode and forward steps may run after rollbacks (`NoForwardAfterUndo`,
  `OnFailureLast` and `KeepsPromise` fail). It is the line of `undone_forward`.
* When the instance lock and the job lock both lapse under a live worker,
  `OneTickAtATime`, `SettledStepsStay` and `FinishedStays` fail: a zombie's
  `yielded` or `compensating` takes no token and reopens a finished run. The
  assumption of the proofs says the same.
* Two callers of `retry()` at a time (`Callers = {c1, c2}`, `Events = {"retry"}`)
  violate `DoneStays`: the second removes, by the list it read before, a record that
  was completed since the first one revived the run (run.ts:216).
* `delete()` of a run that a worker is in the middle of does not keep it from coming
  back (`deleted_resurrects`). What a run that came back finds is not covered either: a
  record that the tick saved after the state was removed counts as a completed step of
  that second life, and when it then fails before it gets to that step, it ends `failed`
  with the step's rollback never run. `StatusTellsUndo` and `StatusTrue` therefore speak
  of runs that were not deleted; `DoneStays`, `ResumeHeals` and the types of all.
* A health check can report a run an orphan that came to its end between its two reads
  ("in unexpected state", health-inspector.ts:121-148). The cockpit's README
  (`packages/bullmq-cockpit/README.md:256-257`) speaks only of a missing job and of a
  settlement that did not finish. `OrphanForCause` names that case as the one exception.
* An error of the processor's own code on a replay, before the replay has got to a step
  that an earlier tick completed, starts the failure sequence without the rollback of
  that step: only what the replay passed is registered (runtime.ts:306-347). The
  properties about rollbacks are checked, and proved, without such errors.
* With `Lives = 2`, an id that is used again before its state was collected,
  `OnlyOrphansTouched` fails in six states: a `clean()` removes by id, and by then the
  state is that of the second life. So may the self-heal of a listing. `Indexed` holds.
* `CreatedOnce` is checked without `retry()`. With `Retried = {a}` it fails: when
  the failed run's job is gone, a pass, even one kicked by retry()'s own read
  (run.ts:89), may delete the state that retry() is reviving.
* A pass looks at a bucket from its oldest end and stops at the first batch with a
  survivor, so `Reclaimed` says "unless buried behind a retained batch".
* With `Unreadable = TRUE`, a hash that could not be read (redis-store.ts:322) is
  taken for a missing one, and a listing's self-heal deletes a live run:
  `OnlyOrphansTouched` fails in six states.
* `ShowsWhatItWaitsFor` is about jobs delayed for a step. While a job waits out
  BullMQ's own backoff after an error between steps, the view may name a step whose
  time has come long ago.
* A resume delay is relative (suspension.ts:79): computed when the step fails, used
  after the tick has waited for its siblings. The job may come later than the step's
  `nextRunAt`, never earlier.
* A toggle writes the rule back whole (alerts-inspector.ts:119), so an edit in
  between is lost; two cockpits on one prefix each post; a post that failed is not
  repeated. `LastWord` speaks of the stored rule and of posts made.
* `PostedOnce` and `LastWord` are promised while no tick was cut short and no rule
  removed (`Smooth`). A tick that posts and dies before its save posts again, or, when
  the rule is fine again by then, never says so. `ToldFirst` holds wherever ticks are
  cut short.

### Fairness

`ends` and `lost_settlement` use `DurableRuntime!FairSpec`. A worker's code goes on
once it has begun (`Work(w)`: the event loop runs a settled promise's continuation,
and a crash is a fault, not unfairness); BullMQ delivers a waiting job to an idle
worker, runs its stall check and ends delays; a dead worker's lock reaches its
TTL; wake times come; a cancel goes on to the removal. Faults have no fairness.
Contention is not starved, because `Contended` parks the job and time has to
pass. No symmetry is used in runs with a liveness property.

`actions` adds `ActionsFairness`: a call goes on unless its caller dies, and somebody
resumes a run that stays live, again and again (strong fairness of `Call(c,
"resume")`). That is an assumption about the operator, not the code, and what
`ResumeHeals` claims is that resuming is enough.

`steps` uses `ConcurrentSteps!FairSpec`: code that was started goes on, bodies end,
jobs are delivered and time passes. Asking for a retry without a limit is cut off by
`Polls`; a body that polls for ever keeps its run alive by design.

`reclaiming` uses `StateReaper!FairSpec`: a pass goes on unless it dies, the grace
window passes, and full passes recur whenever they can (strong fairness: a worker
starts, or `queue.reconcile()` is called on a schedule; the code itself has no timer,
and kicks after a terminal outcome do not reconcile the active set). The application,
the ticks and BullMQ's retention have no fairness.

`alerts` uses `Alerts!FairSpec`: the interval fires and a tick's calls return.

### The five disagreements

1. **A cancel can be lost** (`cancel_revived`). A yielding tick writes `yielded`
   whatever the status is by then. README.md:426 and queue.ts:359 promise that a
   cancelled run stops.
2. **A resumed compensation can run forward steps** (`undone_forward`). The
   resumed tick replays the processor in writing mode, and if the failure came
   from code between steps the replay can pass that point. runtime.ts:269-272
   says it replays only to re-register rollbacks.
3. **A stall death can stay unsettled** (`lost_settlement`). The settle tick
   meets the dead worker's instance lock, reports "suspended", and nobody tries
   again. README.md:587 says such a run is still settled. (Resuming it by hand helps:
   `ResumeHeals`.)
4. **A completed step can miss its rollback** (`lost_rollback`). A branch that awaits
   something of its own between two steps is not in flight; when a sibling fails for
   good meanwhile, the failure sequence starts before the branch has got to a step
   that an earlier tick completed, and the step's `onRollback` is never registered.
   README.md:341 says it runs for the steps that actually completed.
5. **A deleted run can come back** (`deleted_resurrects`). `delete()` swallows the error
   of removing a job that a worker has locked, and removes the state all the same. The
   job stays, and its next delivery begins the run anew. run.ts:278 says the job is
   removed "so it cannot resurrect".

## Proofs

Every theorem holds for all values of the constants that meet the named assumptions
of its modules (`ProcessorAssumption`, `BudgetAssumption`, `TokenAssumption`,
`OwnerAssumption`, `BranchAssumption`, `ReaperAssumption`, `AlertsAssumption`), which
TLC evaluates in the runs, and for the assumption named with it below.

`DurableRuntimeProofs`:

* `TypeCorrect`: `Spec => []TypeOK`. Inductive as it stands. The helpers the
  actions end in (`Advance`, `Compensate`, `StepFailed`, `Classify`) call each
  other, so each has a typing lemma stated for any well-typed tick memory, and
  the step lemma has one case per action.
* `LockProtects`: `Spec => [](TypeOK /\ SoleTick /\ Claims)`, assuming
  `Budget["lockLapse"] = 0`. `SoleTick` says that whoever is in the locked
  section holds the lock. `Claims` adds that a worker about to write a step record
  is at a running one. It is not inductive without `SoleTick`: another worker in
  the section could settle the record between its read and the write.
* `OneTick`: `[]OneTickAtATime`, from `SoleTick`: the lock holds one token.
* `SettledForGood`: `SettledStepsStay`, from the invariant: each action that writes
  a record writes over a running or an absent one.

* `AttemptsAccounted`: `[]AttemptsBounded`. An attempt is claimed for any running
  record that waits for nothing, without a look at the attempts used. `Spare` says
  that such a record has one to spare, unless somebody is in its body: its last
  attempt asked for a retry that the budget allowed, or a crash cut it short, and the
  bound counts crashes. `Held` carries it through what a worker holds in memory.
* `NeverTooEarly`: `NoEarlyWake`. `Waitless` says that a worker on its way to a body
  is at a record that waits for nothing and means to write one that does not; a wake
  time is then ended by time alone, whatever delivers the job early.

The assumption is the honest one. The instance lock is renewed best effort, and
when it lapses under a live worker the code's only remaining protection of step
records is BullMQ's own lock; when both go, the properties fail (*Limits*). The
next four modules rest on the same assumption.

`FinishProofs`:

* `FinishedForGood`: `FinishedStays`. The status is written without a look at the
  one it replaces; what makes that right is the early return of a tick that begins
  on a finished run. The invariant `DrivenLive` says that a worker past it, and
  before its release of the lock, works on a live run; `SoleTick` keeps others from
  ending it meanwhile.
* `JobAfterRun`: `[]JobFollowsRun`, when also nobody cancels. The invariant `Told`
  ties what a worker is about to tell BullMQ to the status it has written.

`LifecycleProofs`, assuming `Undisturbed`: no lapse of the instance lock, no cancel,
no error thrown between two steps, and, when workers may crash, no second life of a
dead job (no manual retry of it, no tick that outlives its job lock). Any number of
crashes, stalls, yields and early deliveries remains. The assumption is what
*Limits* lists as edges, seen from the other side: with three steps, each fault it
leaves out gives TLC a run that breaks the promise (the lapse of the instance lock
together with one of the job lock; a manual retry or a lapse of the job lock together
with two crashes, or with one when no stalled re-delivery is allowed). `crashes`
checks a corner outside of it, two crashes and a retry with one re-delivery, where
the promise still holds.

* `PromiseHolds`: `Spec => []Promised`, the inductive invariant of the next four.
  A tick keeps its report, the rollbacks it registered and those still to run in
  memory only, and a crash or a yield throws them away. What makes that right is the
  replay, and the invariant says how: at every place of a tick its memory is a
  function of the records. In the processor (`Forward`) the registered rollbacks are
  those of the completed undoable steps before the tick's own, and all of these are
  settled; in the failure sequence (`Undoing`, `Telling`) all of them are registered,
  and those no longer to run are settled. `InOrder` and `Undoes` say the same of
  the records alone, so that a fresh tick, which has no memory, gets to the same
  place. `Decided` says why a run that gave up never goes forward again: the replay is
  stopped by the step that failed, or a settlement tick is at work, or the job is
  dead for good. `JobHeld` and `JobDead` say what a tick may assume of its job.
* `LifecycleKept`: `KeepsPromise`, the refinement of `RunLifecycle!RunSpec`: each of
  the actions maps to a step of the lifecycle or to a stutter. Most are stutters;
  the steps are a saved result, a saved failure, and the status writes.
* `NewestFirst` (`ReverseOrder`), `NeverForwardAgain` (`NoForwardAfterUndo`) and
  `ToldLast` (`[]OnFailureLast`) follow from the invariant.
* `NeverWithoutCause`: `GivesUpForCause`, under other faults: no lapse of the
  instance lock, no cancel, no manual retry of the job; errors between steps,
  crashes and ticks that outlive their job lock are allowed. `Reasoned` says that a
  tick that heads for the failure sequence resumes one, settles a dead job, or has a
  cause on record; a tick's own number of its attempt is never ahead of the job's.

`RunActionsProofs`:

* `ActionsTyped`: `[]ActionsTypeOK`, no assumption, not even that of the lock:
  however calls overlap, and wherever they are cut off.
* `CompletedKept`: `DoneStays`, when at most one call is under way. `Claims` does
  not survive a reset of records, so `OpenClaims` takes its place: the record a worker
  is about to write may have been reset or deleted, but is not settled. `SeenFailed`
  says that what a call is about to reset is failed: it was when the call
  looked, and a failed record is left alone by ticks, which replay it, and by
  everything but a call. The assumption is needed, and code that meant to do without
  it would have to test the status again when it removes: see the two callers in
  *Limits*.
* `StatusTrue`: `[]StatusTellsUndo`, which speaks of a run until it is deleted, when
  moreover the processor throws nothing but the errors of its steps; crashes, cancels, lapsed job
  locks, manual retries of the job, dying callers and pruned jobs are allowed.
  `Promised` is of no use here, for calls reset records between two ticks and a failure
  sequence may be entered again and again. `TruthInv` speaks of the present only.
  `Knows` says what each tick's memory tells of the rollbacks: in the processor, that
  every completed undoable step before its own is registered; when the processor is
  left, that what is not registered is undone; in the failure sequence, that what
  is no longer to run is undone or in the report. `Reached` is what lets the memory
  of a fresh tick grow to that: every rollback that is due is either done or belongs to
  a step a replay gets to. A retry, which opens gaps among the records, begins where
  all of them are done (`Reopening`, from the status it tested); a retried
  compensation opens none in the main phase. `RestsFailed` says that a failed run
  is not being worked on, so what a call found stays until it reopens the run.

`RunViewsProofs`:

* `StaleRunsIdle` (`[]StaleIsIdle`): whoever is in a tick holds the lock, and the
  view looks at the lock.
* `OrphansForCause` (`CheckSpec => OrphanForCause`), when also nobody cancels. A check
  only reads, so `HealthCheck`'s behaviours are those of `DurableRuntime` (`ChecksOnly`),
  and `JobFollowsRun` holds at its second read, whatever happened since the first.
* `ShownParked`: `[]ShowsWhatItWaitsFor` under `Undisturbed`. The view sorts records
  by their sequence numbers and takes the last unsettled one. It is right because at
  most one record of a live run is unsettled and all others were numbered before it.

`ConcurrentStepsProofs`, no assumption:

* `StepsTyped`: `[]TypeOK`. It rests on lemmas about the arithmetic: whatever is
  parsed, resolved, computed or asked for is a number of milliseconds. A power of
  two is one because it counts subsets; the provers have no induction.
* `WaitsCapped`: `[]WaitsWithinCap`. `BackoffCapped` shows it of the operators: the
  cap comes before jitter, and jitter, clamped, only shortens.

The same module, assuming `OnlySteps` (branches make nothing but step calls, one
right after the other):

* `StepsInOrder`: the invariant of the other three. A branch at work is one of the
  current tick, the operations before its own are completed, and a branch of the
  tick has registered what it passed.
* `BodiesAlone` (`[]BodyAlone`), `NothingAfterTick` (`QuietAfterTick`) and
  `RollbacksHanded` (`[]RollbacksComplete`) follow: when the tick decides, each
  branch is at its end or at a step that is not completed, so every completed step
  was passed. `lost_rollback` is what happens without the assumption.
* `BudgetsKept`: `[]AttemptsKept`, with `Spare` and `HeldOK`, the relatives of the
  invariant of `AttemptsAccounted`.

`StateReaperProofs`:

* `ReaperTyped` (`[]TypeOK`) and `RankedOnce` (`[]Ranked`): the scores of a bucket
  strictly order its members. `AllOrdered` is kept by the three ways an order
  changes: a member leaves, a set of them leaves, one goes to the end.
* `IndexFaithful`: `[]Indexed`. The inductive invariant adds that `inst` is
  a function into well-formed records; each store operator keeps a record sound
  (one lemma per script), and the step lemma splits on who writes.
* `OnlyOrphans`: `OnlyOrphansTouched` for `Lives <= 1`, `Retried = {}` and
  `Unreadable = FALSE`. A pass acts on answers that are old by then, so the property
  is not inductive. The invariant says that "no such job" cannot grow old: what a
  pass has put down as dead has no job and no life left, and a job without a life
  left cannot come back. Without the assumptions it can (*Limits*).
* `CreatedOnceOnly`: `CreatedOnce`, under the same assumptions. `BornInv` says that a
  job that is there and was delivered before still has its state: whatever a pass, a
  clean or a heal removed, no job is left that would create it again.

`AlertsProofs`:

* `NotifierTypes`: `[]TypeOK`, which includes that the flag is up exactly while one
  tick is at work.
* `EachOnce` (`PostedOnce`) and `ToldBeforeRecorded` (`ToldFirst`), from an invariant
  that relates what was said last, what is on record, and what a tick read.

Only model-checked:

* `Settles`, `ResumeHeals`, `Ends`, `Reclaimed` and `LastWord`. They hold under
  fairness, and the prover has neither liveness nor `ENABLED`.
* What recursive definitions compute, for want of induction; no module that is proved
  about declares a `RECURSIVE` operator. `StateReaper` keeps the order of scores as a
  relation and `RetryMath` takes powers of two as counts of subsets for this reason.
* Sleeps or other waits among concurrent branches (`OnlySteps`).

## Not modelled

* Errors of single store calls. One case is covered: a save that fails without effect
  after its body succeeded is handled as a failure of the body (step-executor.ts:251),
  so it is an attempt that failed in the models too. A save that took effect and whose
  answer was lost is not: the retry would write over a completed record.
* Sleeps and concurrency inside a rollback or `onFailure`; the context's logger and
  the deprecated raw-key helpers.
* `obliterate` and `wipeQueue` (redis-store.ts:775): draining stops at the first round
  below the chunk size and the index is deleted afterwards, so a run begun in between
  would lose its entry. Counts, bulk and repeatable adds, the log list, the legacy
  global index.
* The in-memory store, a test double in one process. It follows the rules of the
  scripts without expiry or concurrency, and a second model of those rules would only
  restate the first. Where the two differ (it drops the lock of a removed instance,
  memory-store.ts:331, and writes no step of one, where Redis keeps the one and leaves
  an orphan record of the other) no test of a processor would tell.
* Progress counts, and the event timeline of `src/inspect/`, which puts stored times into words.
* Legacy 0.1.x envelopes (a shim, removed with 0.3.0), logging, serialisation and
  deprecation warnings: formatting, on which no property of a run depends.
* The NestJS module and explorer: dependency injection and decorators.
* The cockpit's other inspectors, its server, client, adapters, command line, seed
  script and alert channels. They aggregate reads for a screen, route requests to the
  run handle that `RunActions` models, or make demo data. They are most of the
  repository's lines and keep no state of a run; a model of them would restate
  mappings of fields.

What would extend this project next: errors of single store calls in
`DurableRuntime`, concurrency within a compensation, and `wipeQueue` in
`StateReaper`.
