-------------------------- MODULE ConcurrentSteps --------------------------
(***************************************************************************)
(* A processor that runs durable steps concurrently: Promise.all over      *)
(* branches, each a sequence of ctx.step and ctx.sleep calls.  The first   *)
(* error unwinds the processor while the other branches go on; the tick    *)
(* waits for the steps in flight (context.ts, awaitQuiescence) before it   *)
(* decides the outcome, and suspends for the shortest wait that was asked  *)
(* for (suspension.ts).                                                    *)
(*                                                                         *)
(* A branch whose next call comes right after the last one is in flight    *)
(* again at once.  Before an operation in `gaps` it waits for something    *)
(* else first (a fetch, a helper of its own), and nobody knows of it.      *)
(*                                                                         *)
(* One process runs every tick, so what a tick leaves behind may still be  *)
(* working when the next begins.  DurableRuntime has the rest of a tick,   *)
(* and the failure sequence.  Waits are what is left of them.              *)
(***************************************************************************)
EXTENDS RetryMath, FiniteSets

CONSTANTS
  Branches, MaxLength,     \* the branches, and how many operations one may have
  Shapes,                  \* the processors that are looked at
  Options, Fallback,       \* the retry options of each step, and the worker's
  Naps,                    \* the delay of a sleep
  Asks, Polls,             \* what retryLater is called with, and how often
  Slots,                   \* ticks whose branches may be alive at one time
  Crashes                  \* how often the process may die

Ops == Branches \X (1..MaxLength)

(* The length of each branch, and the operations that are sleeps, that     *)
(* come after another wait, and that have an onRollback.                   *)
ASSUME BranchAssumption ==
  /\ MaxLength \in Nat
  /\ Shapes \subseteq [length: [Branches -> 0..MaxLength], sleeps: SUBSET Ops,
                        gaps: SUBSET Ops, undoable: SUBSET Ops]
  /\ \A k \in Ops : Options[k] \in RetryOptions
  /\ Fallback \in RetryOptions
  /\ \A k \in Ops : Naps[k] \in Nat
  /\ Asks \subseteq Optional(Durations) \X Optional(Durations)
  /\ Polls \in Nat /\ Crashes \in Nat

Policy(k) == ResolveRetry(Options[k], Fallback)

(* Faulty: the default of one attempt counts as a limit that was set.      *)
ConfiguredByDefault(k) == Policy(k).attempts >= 1

Configured(k) == OrElse(Options[k].attempts, Fallback.attempts) # {}

VARIABLES
  shape,    \* the processor
  rec,      \* the step records
  frag,     \* where each branch of each live tick is
  tick,     \* the tick that holds the lock
  job,      \* the BullMQ job
  run,      \* whether the run goes on, and how it ended
  handed,   \* the rollbacks the failure sequence was given
  crashes   \* crashes left

vars == <<shape, rec, frag, tick, job, run, handed, crashes>>

(* `wake` is what is left until nextRunAt.                                 *)
Records == [status: {"none", "running", "completed", "failed"}, attempts: Nat, wake: Nat]
NoRecord == [status |-> "none", attempts |-> 0, wake |-> 0]

(* `i` is the operation the branch is at, `error` what its body ended in,  *)
(* `asked` the delay it asked for with retryLater.                         *)
Fragments ==
  [at: {"idle", "gap", "begin", "claim", "body", "save", "elapse", "done", "thrown"},
   i: Nat, attempts: Nat, error: {"none", "error", "later", "fatal"}, asked: SUBSET Nat]

Idle == [at |-> "idle", i |-> 0, attempts |-> 0, error |-> "none", asked |-> {}]

(* `error` is what the processor ended in, `resume` the pending resume,    *)
(* `regs` the rollbacks registered.                                        *)
NoTick ==
  [slot |-> {}, at |-> "none", error |-> "none", resume |-> {}, regs |-> {}]

TypeOK ==
  /\ shape \in Shapes
  /\ rec \in [Ops -> Records]
  /\ frag \in [Slots \X Branches -> Fragments]
  /\ tick \in [slot: SUBSET Slots, at: {"none", "running", "quiet", "suspend"},
               error: {"none", "yield", "failed"}, resume: SUBSET Nat, regs: SUBSET Ops]
  /\ job \in [state: {"waiting", "active", "delayed", "ended"}, due: Nat]
  /\ run \in {"live", "completed", "failed"}
  /\ handed \in SUBSET Ops
  /\ crashes \in Nat

Init ==
  /\ shape \in Shapes
  /\ rec = [k \in Ops |-> NoRecord]
  /\ frag = [f \in Slots \X Branches |-> Idle]
  /\ tick = NoTick
  /\ job = [state |-> "waiting", due |-> 0]
  /\ run = "live"
  /\ handed = {}
  /\ crashes = Crashes

---------------------------------------------------------------------------
Op(f) == <<f[2], frag[f].i>>
Current(f) == tick.slot = {f[1]}
Resting(f) == frag[f].at \in {"idle", "done", "thrown"}

(* Where a branch is when its i-th operation is next.                      *)
AtOp(b, i) ==
  [Idle EXCEPT !.at = IF i > shape.length[b] THEN "done"
                      ELSE IF <<b, i>> \in shape.gaps THEN "gap" ELSE "begin",
               !.i = i]

Put(f, fragment) == frag' = [frag EXCEPT ![f] = fragment]

(* Faulty: a replayed step does not register its rollback.                 *)
RegisteredIfFresh(f, mem) ==
  IF Op(f) \in shape.undoable /\ rec[Op(f)].status = "running"
  THEN [mem EXCEPT !.regs = @ \cup {Op(f)}] ELSE mem

(* A completed step registers its rollback with its own tick.              *)
Registered(f, mem) ==
  IF Op(f) \in shape.undoable THEN [mem EXCEPT !.regs = @ \cup {Op(f)}] ELSE mem

(* The branch goes on to its next call; when every branch is done the      *)
(* processor returns.                                                      *)
GoOn(f) ==
  /\ Put(f, AtOp(f[2], frag[f].i + 1))
  /\ LET mem == Registered(f, tick)
         returns == \A b \in Branches : frag'[<<f[1], b>>].at = "done"
     IN tick' = IF ~Current(f) THEN tick
                ELSE IF returns /\ tick.at = "running" THEN [mem EXCEPT !.at = "quiet"]
                ELSE mem

(* The branch throws.  The first error is the processor's.                 *)
Throw(f, error, resume) ==
  /\ Put(f, [frag[f] EXCEPT !.at = "thrown"])
  /\ tick' = IF ~Current(f) THEN tick
             ELSE [tick EXCEPT
                     !.at = IF @ = "running" THEN "quiet" ELSE @,
                     !.error = IF tick.at = "running" THEN error ELSE @,
                     !.resume = resume]

(* Faulty: the wait asked for first is kept.                               *)
FirstAsked(delay) == {Default(tick.resume, delay)}

(* yieldToBullMQ: of the waits asked for the shortest is kept.             *)
Shortest(delay) == {Smaller(delay, Default(tick.resume, delay))}

YieldFor(f, delay) == Throw(f, "yield", Shortest(delay))
FailWith(f) == Throw(f, "failed", tick.resume)

---------------------------------------------------------------------------
(* A branch.                                                               *)

GapOver(f) ==
  /\ frag[f].at = "gap"
  /\ Put(f, [frag[f] EXCEPT !.at = "begin"])
  /\ UNCHANGED <<shape, rec, tick, job, run, handed, crashes>>

(* beginStep, for a new record.                                            *)
BeginNew(f) ==
  LET k == Op(f)
  IN /\ frag[f].at = "begin" /\ rec[k].status = "none"
     /\ IF k \in shape.sleeps
        THEN /\ rec' = [rec EXCEPT ![k] = [status |-> "running", attempts |-> 1,
                                           wake |-> Naps[k]]]
             /\ IF Naps[k] = 0 THEN Put(f, [frag[f] EXCEPT !.at = "elapse"]) /\ UNCHANGED tick
                ELSE YieldFor(f, Naps[k])
        ELSE /\ rec' = [rec EXCEPT ![k] = [status |-> "running", attempts |-> 1, wake |-> 0]]
             /\ Put(f, [frag[f] EXCEPT !.at = "body", !.attempts = 1])
             /\ UNCHANGED tick
     /\ UNCHANGED <<shape, job, run, handed, crashes>>

(* beginStep, for a record that is there.                                  *)
BeginExisting(f) ==
  LET k == Op(f)
      r == rec[k]
  IN /\ frag[f].at = "begin"
     /\ \/ r.status = "completed" /\ GoOn(f)
        \/ r.status = "failed" /\ FailWith(f)
        \/ r.status = "running" /\ r.wake > 0 /\ YieldFor(f, r.wake)
        \/ /\ r.status = "running" /\ r.wake = 0
           /\ IF k \in shape.sleeps
              THEN Put(f, [frag[f] EXCEPT !.at = "elapse"])
              ELSE Put(f, [frag[f] EXCEPT !.at = "claim", !.attempts = r.attempts + 1])
           /\ UNCHANGED tick
     /\ UNCHANGED <<shape, rec, job, run, handed, crashes>>

(* saveRunning.                                                            *)
Claim(f) ==
  /\ frag[f].at = "claim"
  /\ rec' = [rec EXCEPT ![Op(f)].attempts = frag[f].attempts, ![Op(f)].wake = 0]
  /\ Put(f, [frag[f] EXCEPT !.at = "body"])
  /\ UNCHANGED <<shape, tick, job, run, handed, crashes>>

(* updateStep, for a sleep that is over.                                   *)
Elapse(f) ==
  /\ frag[f].at = "elapse"
  /\ rec' = [rec EXCEPT ![Op(f)].status = "completed"]
  /\ GoOn(f)
  /\ UNCHANGED <<shape, job, run, handed, crashes>>

RunBody(f) ==
  /\ frag[f].at = "body"
  /\ \/ \E error \in {"none", "error", "fatal"} :
          Put(f, [frag[f] EXCEPT !.at = "save", !.error = error])
     \/ \E ask \in Asks : \E call \in RetryLater(ask[1], ask[2]) :
          /\ frag[f].attempts <= Polls
          /\ Put(f, [frag[f] EXCEPT !.at = "save", !.error = "later", !.asked = call.delay])
  /\ UNCHANGED <<shape, rec, tick, job, run, handed, crashes>>

SaveResult(f) ==
  /\ frag[f].at = "save" /\ frag[f].error = "none"
  /\ rec' = [rec EXCEPT ![Op(f)].status = "completed", ![Op(f)].attempts = frag[f].attempts,
                        ![Op(f)].wake = 0]
  /\ GoOn(f)
  /\ UNCHANGED <<shape, job, run, handed, crashes>>

(* handleStepError: record the next attempt and yield, or the failure.     *)
SaveError(f) ==
  LET k == Op(f)
      mem == frag[f]
      retried == MayRetry(mem.error, Configured(k), Policy(k), FALSE, mem.attempts)
  IN /\ mem.at = "save" /\ mem.error # "none"
     /\ \/ /\ retried
           /\ \E delay \in NextDelay(mem.error, mem.asked, Policy(k), mem.attempts) :
                /\ rec' = [rec EXCEPT ![k] = [status |-> "running", attempts |-> mem.attempts,
                                              wake |-> delay]]
                /\ YieldFor(f, delay)
        \/ /\ ~retried
           /\ rec' = [rec EXCEPT ![k] = [status |-> "failed", attempts |-> mem.attempts,
                                         wake |-> 0]]
           /\ FailWith(f)
     /\ UNCHANGED <<shape, job, run, handed, crashes>>

---------------------------------------------------------------------------
(* The tick.                                                               *)

(* A delivery: every branch starts with its first operation.               *)
Deliver(s) ==
  /\ job.state = "waiting" /\ tick.at = "none"
  /\ \A b \in Branches : Resting(<<s, b>>)
  /\ job' = [job EXCEPT !.state = "active"]
  /\ tick' = [NoTick EXCEPT !.slot = {s}, !.at = "running"]
  /\ frag' = [f \in Slots \X Branches |-> IF f[1] = s THEN AtOp(f[2], 1) ELSE frag[f]]
  /\ UNCHANGED <<shape, rec, run, handed, crashes>>

(* Faulty: a body that has returned is taken for a step that is over.      *)
BodyInFlight(f) == Op(f) \notin shape.sleeps /\ frag[f].at \in {"begin", "claim", "body"}

(* ctx.step tracks its promise; ctx.sleep does not.                        *)
InFlight(f) == Op(f) \notin shape.sleeps /\ frag[f].at \in {"begin", "claim", "body", "save"}

(* Faulty: a tick that yields waits until no branch is left at all.        *)
QuiescentWhenDone == \A f \in Slots \X Branches : Current(f) => frag[f].at = "done"

(* Faulty: the first error ends the tick.                                  *)
QuiescentAtOnce == tick.at = "quiet"

Quiescent == \A f \in Slots \X Branches : Current(f) => ~InFlight(f)

(* execute(), after awaitQuiescence: the run completes, fails with the     *)
(* rollbacks registered by then, or yields.  The lock is released.  A      *)
(* failure switches the context to another phase, so what a branch does    *)
(* from then on is stored under other keys and is no longer followed.      *)
Finish ==
  /\ tick.at = "quiet" /\ Quiescent
  /\ \/ /\ tick.error = "none"
        /\ run' = "completed" /\ job' = [state |-> "ended", due |-> 0]
        /\ tick' = NoTick
        /\ UNCHANGED <<frag, handed>>
     \/ /\ tick.error = "failed"
        /\ run' = "failed" /\ job' = [state |-> "ended", due |-> 0]
        /\ handed' = tick.regs
        /\ frag' = [f \in Slots \X Branches |-> IF Current(f) THEN Idle ELSE frag[f]]
        /\ tick' = NoTick
     \/ /\ tick.error = "yield"
        /\ tick' = [NoTick EXCEPT !.at = "suspend", !.resume = tick.resume]
        /\ UNCHANGED <<frag, run, job, handed>>
  /\ UNCHANGED <<shape, rec, crashes>>

(* suspend(): moveToDelayed by the recorded delay, counted from now.       *)
Suspend ==
  /\ tick.at = "suspend"
  /\ job' = [state |-> "delayed", due |-> Default(tick.resume, 0)]
  /\ tick' = NoTick
  /\ UNCHANGED <<shape, rec, frag, run, handed, crashes>>

DelayOver ==
  /\ job.state = "delayed" /\ job.due = 0
  /\ job' = [job EXCEPT !.state = "waiting"]
  /\ UNCHANGED <<shape, rec, frag, tick, run, handed, crashes>>

Less(n) == IF n = 0 THEN 0 ELSE n - 1

TimePasses ==
  /\ job.due > 0 \/ \E k \in Ops : rec[k].wake > 0
  /\ job' = [job EXCEPT !.due = Less(@)]
  /\ rec' = [k \in Ops |-> [rec[k] EXCEPT !.wake = Less(@)]]
  /\ UNCHANGED <<shape, frag, tick, run, handed, crashes>>

(* The process dies; the stalled job comes back.                           *)
Crash ==
  /\ crashes > 0 /\ job.state = "active"
  /\ crashes' = crashes - 1
  /\ frag' = [f \in Slots \X Branches |-> Idle]
  /\ tick' = NoTick
  /\ job' = [job EXCEPT !.state = "waiting"]
  /\ UNCHANGED <<shape, rec, run, handed>>

BranchStep(f) ==
  \/ GapOver(f) \/ BeginNew(f) \/ BeginExisting(f) \/ Claim(f) \/ Elapse(f)
  \/ RunBody(f) \/ SaveResult(f) \/ SaveError(f)

Next ==
  \/ \E f \in Slots \X Branches : BranchStep(f)
  \/ \E s \in Slots : Deliver(s)
  \/ Finish \/ Suspend \/ DelayOver \/ TimePasses \/ Crash

(* Code that was started goes on, bodies end, jobs are delivered, time     *)
(* passes.                                                                 *)
Fairness ==
  /\ \A f \in Slots \X Branches : WF_vars(BranchStep(f))
  /\ WF_vars(\E s \in Slots : Deliver(s))
  /\ WF_vars(Finish) /\ WF_vars(Suspend) /\ WF_vars(DelayOver) /\ WF_vars(TimePasses)

Spec == Init /\ [][Next]_vars
FairSpec == Spec /\ Fairness

---------------------------------------------------------------------------
(* Correctness.                                                            *)

(* context.ts:114-120: nothing of a tick is left writing once the tick has *)
(* given up the lock.  A record only changes, other than by the passing of *)
(* time, while a tick is in its locked section, by a branch of that tick.  *)
QuietAfterTick ==
  [][\A k \in Ops : <<rec'[k].status, rec'[k].attempts>> # <<rec[k].status, rec[k].attempts>> =>
       /\ tick.at \in {"running", "quiet"}
       /\ \E f \in Slots \X Branches : Current(f) /\ Op(f) = k /\ frag'[f] # frag[f]]_vars

(* A body never runs twice at a time.                                      *)
BodyAlone ==
  \A f, g \in Slots \X Branches :
    frag[f].at = "body" /\ frag[g].at = "body" /\ Op(f) = Op(g) => f = g

(* README.md:341: when the run fails for good, onRollback runs for the     *)
(* steps that actually completed, in whichever branch and tick they did.   *)
RollbacksComplete ==
  run = "failed" => \A k \in shape.undoable : rec[k].status = "completed" => k \in handed

(* Neither the step nor the worker says how often to try.                  *)
NoLimit(k) == Options[k].attempts = {} /\ Fallback.attempts = {}

(* README.md "Retries": a step's body is tried as often as its policy says *)
(* and once more for each crash that cut it short; siblings that yield, or *)
(* a tick that is delivered for one of them, take nothing from it.         *)
AttemptsKept ==
  \A k \in Ops : rec[k].attempts <=
    Larger(Policy(k).attempts, IF NoLimit(k) THEN Polls + 1 ELSE 1)
      + (Crashes - crashes)

(* README.md:275-278: retryLater goes on polling where nobody set a limit: *)
(* such a step only fails by an attempt that threw.                        *)
UnlimitedPolls ==
  [][\A k \in Ops :
       NoLimit(k) /\ rec[k].status # "failed" /\ rec'[k].status = "failed" =>
         \E f \in Slots \X Branches :
           Op(f) = k /\ frag[f].at = "save" /\ frag[f].error \in {"error", "fatal"}]_vars

(* A branch of the tick that holds the lock stops, to wait.                *)
Stops(f) ==
  /\ Current(f) /\ frag[f].at # "thrown" /\ frag'[f].at = "thrown"
  /\ rec'[Op(f)].status = "running"

(* suspension.ts:69-82: a tick is put off no longer than the nearest of    *)
(* the waits its branches stopped for, whichever stopped first.            *)
NearestWait ==
  [][/\ \A f \in Slots \X Branches :
          Stops(f) => \E d \in tick'.resume : d <= rec'[Op(f)].wake
     /\ tick.at # "none" /\ tick'.at # "none" =>
          \A d \in tick.resume : \E e \in tick'.resume : e <= d
     /\ job.state # "delayed" /\ job'.state = "delayed" =>
          \A d \in tick.resume : job'.due <= d]_vars

(* README.md:317-320: a step waits no longer than the ceiling on its       *)
(* backoff, however many attempts failed and whatever jitter adds, unless  *)
(* its body asked for another wait; what the step's own options say comes  *)
(* before the worker's.                                                    *)
WaitsWithinCap ==
  \A k \in Ops \ shape.sleeps :
    \/ \A cap \in Options[k].backoff.maxDelay : rec[k].wake <= cap
    \/ \E ask \in Asks : \E call \in RetryLater(ask[1], ask[2]) :
         \E asked \in call.delay : rec[k].wake <= asked

(* However the branches yield, the run ends.                               *)
Ends == <>(run # "live" /\ job.state = "ended" /\ tick.at = "none")

=============================================================================
