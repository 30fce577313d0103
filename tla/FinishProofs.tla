---------------------------- MODULE FinishProofs ----------------------------
(***************************************************************************)
(* A finished run stays as it finished, for every processor, number of     *)
(* workers and budget, while the instance lock does not lapse under a      *)
(* live worker.                                                            *)
(*                                                                         *)
(* The status is written without a look at the one it replaces.  What      *)
(* makes that right is the early return of a tick that begins on a         *)
(* finished run: a worker that went past it works on a live run, and stays *)
(* the only one to write the status until it is about to release the lock. *)
(***************************************************************************)
EXTENDS DurableRuntime, DurableRuntimeProofs

(* Past the early return, before the release.                              *)
Driving == Locked \ {"begin", "release"}

DrivenLive ==
  faults["cancel"] = Budget["cancel"] =>
    \A w \in Workers : pc[w] \in Driving => inst.status \in Live

CancelsLeft == faults["cancel"] <= Budget["cancel"]

(* A continuation of one worker leaves the others where they are.          *)
Lone(w) == \A v \in Workers \ {w} : pc'[v] = pc[v] /\ loc'[v] = loc[v]

LEMMA GoLone ==
  ASSUME Working, NEW w \in Workers,
         NEW p, NEW m, Go(w, p, m)
  PROVE  Lone(w) /\ pc'[w] = p
  BY DEF Go, Lone, Working

LEMMA ContinuationsLone ==
  ASSUME Working, NEW w \in Workers, NEW mem,
         \/ Advance(w, mem) \/ StepFailed(w, mem) \/ Yield(w, mem)
         \/ Compensate(w, mem) \/ Classify(w, mem, TRUE) \/ Classify(w, mem, FALSE)
  PROVE  Lone(w)
<1>1. ASSUME NEW m, Compensate(w, m)
      PROVE  Lone(w)
  BY <1>1 DEF Compensate, Go, Lone, Working
<1>2. ASSUME NEW m, Advance(w, m)
      PROVE  Lone(w)
  <2>1. ASSUME NEW m2, Compensate(w, m2)
        PROVE  Lone(w)
    BY <1>1, <2>1
  <2> QED BY <1>2, <2>1 DEF Advance, Go, Lone, Working
<1>3. ASSUME NEW m, NEW b, Classify(w, m, b)
      PROVE  Lone(w)
  BY <1>3 DEF Classify, Go, Lone, Working
<1>4. ASSUME NEW m, StepFailed(w, m)
      PROVE  Lone(w)
  <2>1. CASE Advance(w, m)
    BY <1>2, <2>1
  <2>2. CASE Classify(w, m, FALSE)
    BY <1>3, <2>2
  <2>3. CASE Compensate(w, [m EXCEPT !.todo = @ \ {m.key[2]}, !.undoFailed = TRUE])
    BY <1>1, <2>3
  <2>4. CASE Go(w, "settle", m)
    BY <2>4, GoLone
  <2> QED BY <1>4, <2>1, <2>2, <2>3, <2>4 DEF StepFailed
<1>5. CASE Yield(w, mem)
  BY <1>5 DEF Yield, Go, Lone, Working
<1> QED BY <1>1, <1>2, <1>3, <1>4, <1>5

(* Outside the part it drives, a worker leaves the instance alone.         *)
LEMMA NotDriving ==
  ASSUME TypeOK, NEW w \in Workers,
         \/ Acquire(w) \/ Contended(w) \/ Release(w) \/ Park(w) \/ Return(w) \/ Orphan(w)
         \/ Deliver(w) \/ StallDeath(w) \/ Crash(w)
  PROVE  Lone(w) /\ inst' = inst /\ pc'[w] \notin Driving
<1>1. inst' = inst
  BY DEF Acquire, Contended, Release, Park, Return, Orphan, Deliver, StallDeath, Crash, store
<1>2. \E p \in {"begin", "park", "return", "idle", "acquire", "orphan"} :
        pc' = [pc EXCEPT ![w] = p] /\ \E m : loc' = [loc EXCEPT ![w] = m]
  BY DEF Acquire, Contended, Release, Park, Return, Orphan, Deliver, StallDeath, Crash, Go
<1> QED BY <1>1, <1>2 DEF TypeOK, Lone, Driving, Locked

(* What a worker does while it drives: it keeps the run live or finishes   *)
(* it on the way to the release.                                           *)
LEMMA WhileDriving ==
  ASSUME TypeOK, NEW w \in Workers,
         \/ ReplaySettled(w) \/ Refused(w) \/ FreshStep(w) \/ FreshSleep(w)
         \/ ExistingStep(w) \/ ReadSleep(w) \/ WakeUp(w) \/ ClaimAttempt(w)
         \/ RunBody(w) \/ SaveResult(w) \/ SaveRetry(w) \/ SaveFailure(w) \/ GlueError(w)
         \/ MarkYielded(w) \/ EnterFailure(w) \/ MarkCompensating(w)
         \/ CompleteRun(w) \/ SettleTerminal(w) \/ FailFast(w) \/ CancelRun(w)
  PROVE  /\ Lone(w) /\ pc[w] \in Driving
         /\ \/ inst.status \in Live => inst'.status \in Live
            \/ pc'[w] = "release"
<1> USE DEF TypeOK, Working
<1>1. CASE ReplaySettled(w) \/ SaveFailure(w) \/ GlueError(w) \/ ExistingStep(w)
  <2>1. pc[w] \in {"step", "save", "complete"} /\ inst' = inst
    BY <1>1 DEF ReplaySettled, SaveFailure, GlueError, ExistingStep, Entering, store
  <2>2. Lone(w)
    <3>1. CASE ReplaySettled(w)
      BY <3>1, ContinuationsLone, GoLone DEF ReplaySettled
    <3>2. CASE SaveFailure(w)
      BY <3>2, ContinuationsLone DEF SaveFailure
    <3>3. CASE GlueError(w)
      BY <3>3, ContinuationsLone DEF GlueError
    <3>4. CASE ExistingStep(w)
      BY <3>4, ContinuationsLone, GoLone DEF ExistingStep
    <3> QED BY <1>1, <3>1, <3>2, <3>3, <3>4
  <2> QED BY <2>1, <2>2 DEF Driving, Locked
<1>2. CASE Refused(w) \/ RunBody(w) \/ ClaimAttempt(w)
  <2>1. pc[w] \in {"step", "body", "claim"} /\ inst' = inst
    BY <1>2 DEF Refused, RunBody, ClaimAttempt, Entering, store
  <2>2. Lone(w)
    BY <1>2 DEF Refused, RunBody, ClaimAttempt, Go, Lone
  <2> QED BY <2>1, <2>2 DEF Driving, Locked
<1>3. CASE ReadSleep(w) \/ WakeUp(w) \/ SaveResult(w) \/ SaveRetry(w)
  <2>1. pc[w] \in {"wake", "awake", "save"} /\ inst' = inst
    BY <1>3 DEF ReadSleep, WakeUp, SaveResult, SaveRetry, store
  <2>2. Lone(w)
    BY <1>3, ContinuationsLone, GoLone DEF ReadSleep, WakeUp, SaveResult, SaveRetry
  <2> QED BY <2>1, <2>2 DEF Driving, Locked
<1>4. CASE FreshStep(w) \/ FreshSleep(w)
  <2>1. pc[w] = "step" /\ inst' = AllocSeq(inst)
    BY <1>4 DEF FreshStep, FreshSleep, Entering
  <2>2. Lone(w)
    BY <1>4, ContinuationsLone, GoLone DEF FreshStep, FreshSleep
  <2>3. inst'.status = inst.status
    BY <2>1 DEF AllocSeq, Instances
  <2> QED BY <2>1, <2>2, <2>3 DEF Driving, Locked
<1>5. CASE MarkYielded(w)
  <2>1. pc[w] \in {"yielded", "retriable"} /\ pc'[w] = "release" /\ Lone(w)
    BY <1>5, GoLone DEF MarkYielded
  <2> QED BY <2>1 DEF Driving, Locked
<1>6. CASE EnterFailure(w) \/ MarkCompensating(w)
  <2>1. pc[w] \in {"enter", "mark"} /\ inst' \in {inst, UpdateStatus(inst, "compensating")}
    BY <1>6 DEF EnterFailure, MarkCompensating, store
  <2>2. Lone(w)
    BY <1>6, ContinuationsLone, GoLone DEF EnterFailure, MarkCompensating, StartCompensation
  <2>3. inst.status \in Live => inst'.status \in Live
    BY <2>1 DEF UpdateStatus, Instances, Live, Terminal, Exists
  <2> QED BY <2>1, <2>2, <2>3 DEF Driving, Locked
<1>7. CASE CompleteRun(w) \/ SettleTerminal(w) \/ FailFast(w) \/ CancelRun(w)
  <2>1. pc[w] \in {"complete", "settle", "failfast", "cancelling"}
    BY <1>7 DEF CompleteRun, SettleTerminal, FailFast, CancelRun, TerminalAt
  <2>2. pc' = [pc EXCEPT ![w] = "release"] /\ \E m : loc' = [loc EXCEPT ![w] = m]
    BY <1>7 DEF CompleteRun, SettleTerminal, FailFast, CancelRun, TerminalAt, Go
  <2> QED BY <2>1, <2>2 DEF Driving, Locked, Lone
<1> QED BY <1>1, <1>2, <1>3, <1>4, <1>5, <1>6, <1>7

(* Whoever acts, the part of a step that matters here is one of these.     *)
Kinds(w) ==
  \/ Lone(w) /\ inst' = inst /\ pc'[w] \notin Driving
  \/ Lone(w) /\ pc[w] \in Driving
       /\ (pc'[w] = "release" \/ (inst.status \in Live => inst'.status \in Live))
  \/ Begin(w)

LEMMA WorkerKinds ==
  ASSUME TypeOK, NEW w \in Workers,
         Work(w) \/ Deliver(w) \/ StallDeath(w) \/ GlueError(w) \/ Crash(w)
  PROVE  Kinds(w)
  BY NotDriving, WhileDriving DEF Work, Kinds

LEMMA SurroundingsStay ==
  ASSUME \/ \E k \in Keys : WakeTimeReached(k)
         \/ LockExpires \/ JobLockLapses \/ StallRecover \/ DelayOver \/ Promote \/ RetryJob
         \/ RemoveCarrier \/ UNCHANGED vars
  PROVE  inst' = inst /\ pc' = pc
  BY DEF WakeTimeReached, LockExpires, JobLockLapses, StallRecover, DelayOver, Promote,
         RetryJob, RemoveCarrier, store, vars

(* Every budget of faults only shrinks.                                    *)
LEMMA FaultsShrink ==
  ASSUME TypeOK, [Next]_vars, NEW g \in Faults
  PROVE  faults'[g] \in Nat /\ faults'[g] <= faults[g]
<1>1. faults' = faults \/ \E f \in Faults : Strike(f)
  <2>1. ASSUME NEW w \in Workers, Work(w)
        PROVE  faults' = faults
    BY <2>1 DEF Work, Acquire, Contended, Begin, Release, Park, Return, Orphan, ReplaySettled,
                Refused, FreshStep, FreshSleep, ExistingStep, ReadSleep, WakeUp, ClaimAttempt, RunBody,
                SaveResult, SaveRetry, SaveFailure, MarkYielded, EnterFailure,
                MarkCompensating, CompleteRun, SettleTerminal, FailFast, CancelRun, TerminalAt
  <2>2. ASSUME NEW w \in Workers, Deliver(w) \/ StallDeath(w) \/ GlueError(w) \/ Crash(w)
        PROVE  faults' = faults \/ \E f \in Faults : Strike(f)
    BY <2>2 DEF Deliver, StallDeath, GlueError, Crash, Faults
  <2>3. ASSUME NEW k \in Keys, WakeTimeReached(k)
        PROVE  faults' = faults
    BY <2>3 DEF WakeTimeReached
  <2>4. CASE LockExpires \/ JobLockLapses \/ StallRecover \/ DelayOver \/ Promote \/ RetryJob
             \/ ExternalCancel \/ RemoveCarrier \/ UNCHANGED vars
    BY <2>4 DEF LockExpires, JobLockLapses, StallRecover, DelayOver, Promote, RetryJob,
                ExternalCancel, RemoveCarrier, vars, Faults
  <2> QED BY <2>1, <2>2, <2>3, <2>4 DEF Next
<1>2. ASSUME NEW f \in Faults, Strike(f)
      PROVE  faults'[g] \in Nat /\ faults'[g] <= faults[g]
  BY <1>2 DEF Strike, TypeOK
<1> QED BY <1>1, <1>2 DEF TypeOK

LEMMA CancelsShrink ==
  ASSUME TypeOK, [Next]_vars
  PROVE  faults'["cancel"] \in Nat /\ faults'["cancel"] <= faults["cancel"]
  BY FaultsShrink DEF Faults

LEMMA CancelSpends ==
  ASSUME TypeOK, ExternalCancel
  PROVE  faults'["cancel"] < faults["cancel"]
  BY DEF ExternalCancel, Strike, TypeOK, Faults

(* The invariant is inductive, given that one worker is inside the lock.   *)
LEMMA DrivenInductive ==
  ASSUME TypeOK, SoleTick, CancelsLeft, DrivenLive, [Next]_vars
  PROVE  CancelsLeft' /\ DrivenLive'
<1>1. CancelsLeft'
  BY CancelsShrink, BudgetAssumption DEF CancelsLeft, TypeOK, Faults
<1>2. ASSUME faults'["cancel"] = Budget["cancel"], NEW v \in Workers, pc'[v] \in Driving
      PROVE  inst'.status \in Live
  <2>1. faults["cancel"] = Budget["cancel"] /\ ~ExternalCancel
    BY <1>2, CancelsShrink, CancelSpends, BudgetAssumption DEF CancelsLeft, TypeOK, Faults
  <2>2. \A u \in Workers : pc[u] \in Driving => inst.status \in Live
    BY <2>1 DEF DrivenLive
  <2>3. \A u, x \in Workers : pc[u] \in Locked /\ pc[x] \in Locked => u = x
    BY DEF SoleTick
  <2>4. ASSUME NEW w \in Workers, Kinds(w)
        PROVE  inst'.status \in Live
    <3>1. CASE Lone(w) /\ inst' = inst /\ pc'[w] \notin Driving
      BY <1>2, <2>2, <3>1 DEF Lone
    <3>2. CASE Lone(w) /\ pc[w] \in Driving
               /\ (pc'[w] = "release" \/ (inst.status \in Live => inst'.status \in Live))
      BY <1>2, <2>2, <2>3, <3>2 DEF Lone, Driving
    <3>3. CASE Begin(w)
      <4>1. pc[w] = "begin" /\ Lone(w) /\ inst' = BeginTick(inst)
        BY <3>3 DEF Begin, Go, Lone, TypeOK
      <4>2. v = w
        BY <1>2, <2>3, <4>1 DEF Lone, Driving, Locked
      <4>3. inst'.status \notin Terminal
        BY <1>2, <3>3, <4>2 DEF Begin, Go, TypeOK, Driving
      <4> QED BY <4>1, <4>3 DEF TypeOK, BeginTick, Exists, Instances, Live, Terminal
    <3> QED BY <2>4, <3>1, <3>2, <3>3 DEF Kinds
  <2> QED BY <1>2, <2>1, <2>2, <2>4, WorkerKinds, SurroundingsStay DEF Next
<1> QED BY <1>1, <1>2 DEF DrivenLive

(* A finished run is left alone by every step but a cancel.                *)
LEMMA FinishedStep ==
  ASSUME TypeOK, DrivenLive, [Next]_vars,
         inst.status \in Terminal, faults["cancel"] = Budget["cancel"]
  PROVE  inst' = inst \/ faults'["cancel"] < faults["cancel"]
<1>1. \A w \in Workers : pc[w] \notin Driving
  BY DEF DrivenLive, Live, Terminal
<1>2. ASSUME NEW w \in Workers, Kinds(w)
      PROVE  inst' = inst
  <2>1. CASE Begin(w)
    BY <2>1 DEF Begin, BeginTick, Exists, Terminal
  <2> QED BY <1>1, <1>2, <2>1 DEF Kinds
<1>3. CASE ExternalCancel
  BY <1>3, CancelSpends
<1> QED BY <1>2, <1>3, WorkerKinds, SurroundingsStay DEF Next

(* A finished run stays as it finished, whatever delivers its job again,   *)
(* settles it or still works on it, unless it is cancelled from outside.   *)
THEOREM FinishedForGood ==
  ASSUME Budget["lockLapse"] = 0
  PROVE  Spec => FinishedStays
<1>1. Init => CancelsLeft /\ DrivenLive
  BY BudgetAssumption DEF Init, CancelsLeft, DrivenLive, Driving, Locked, Faults
<1>2. /\ TypeOK /\ SoleTick /\ Claims /\ CancelsLeft /\ DrivenLive /\ [Next]_vars
      => (CancelsLeft /\ DrivenLive)'
  BY DrivenInductive
<1>3. TypeOK /\ DrivenLive /\ [Next]_vars =>
        [inst.status \in Terminal /\ faults["cancel"] = Budget["cancel"] =>
           inst' = inst \/ faults'["cancel"] < faults["cancel"]]_vars
  BY FinishedStep
<1> QED BY <1>1, <1>2, <1>3, LockProtects, PTL DEF Spec, FinishedStays

---------------------------------------------------------------------------
(* BullMQ hears of an outcome after the state was written: a worker on its *)
(* way out of a tick reports what the instance record says, and nobody     *)
(* changes that record before the report is made.                          *)

Tells(out, status) ==
  /\ out = "completed" => status = "completed"
  /\ out \in {"failed", "cancelled"} => status \in Terminal

Told ==
  \A w \in Workers :
    pc[w] \in {"release", "return"} => Tells(loc[w].out, inst.status)

(* The code after a settled step, a failure or a yield reports nothing.    *)
LEMMA ContinuationsMute ==
  ASSUME Working, NEW w \in Workers, NEW mem \in Locals,
         \/ Advance(w, mem) \/ StepFailed(w, mem) \/ Yield(w, mem)
         \/ Compensate(w, mem) \/ Classify(w, mem, TRUE) \/ Classify(w, mem, FALSE)
  PROVE  pc'[w] \in {"release", "return"} => loc'[w].out = "yield"
<1> DEFINE Mute == pc'[w] \in {"release", "return"} => loc'[w].out = "yield"
<1>1. ASSUME NEW m, Compensate(w, m)
      PROVE  Mute
  BY <1>1 DEF Compensate, Go, Working
<1>2. ASSUME NEW m, Advance(w, m)
      PROVE  Mute
  <2>1. ASSUME NEW m2, Compensate(w, m2)
        PROVE  Mute
    BY <1>1, <2>1
  <2> QED BY <1>2, <2>1 DEF Advance, Go, Working
<1>3. ASSUME NEW m, NEW b, Classify(w, m, b)
      PROVE  Mute
  BY <1>3 DEF Classify, Go, Working
<1>4. ASSUME NEW m, StepFailed(w, m)
      PROVE  Mute
  <2>1. CASE Advance(w, m)
    BY <1>2, <2>1
  <2>2. CASE Classify(w, m, FALSE)
    BY <1>3, <2>2
  <2>3. CASE Compensate(w, [m EXCEPT !.todo = @ \ {m.key[2]}, !.undoFailed = TRUE])
    BY <1>1, <2>3
  <2>4. CASE Go(w, "settle", m)
    BY <2>4 DEF Go, Working
  <2> QED BY <1>4, <2>1, <2>2, <2>3, <2>4 DEF StepFailed
<1>5. CASE Yield(w, mem)
  BY <1>5 DEF Yield, Go, Working, Locals
<1> QED BY <1>1, <1>2, <1>3, <1>4, <1>5

(* A terminal transition applies: the lock is ours and the run is live.    *)
LEMMA TerminalTells ==
  ASSUME TypeOK, SoleTick, DrivenLive, faults["cancel"] = Budget["cancel"],
         NEW w \in Workers, NEW place \in Driving,
         NEW status \in Terminal, NEW applied, NEW refused,
         applied \in {"completed", "failed", "cancelled"},
         applied = "completed" => status = "completed",
         TerminalAt(w, place, status, applied, refused)
  PROVE  Tells(loc'[w].out, inst'.status)
<1>1. inst.status \in Live /\ lock = w
  BY DEF DrivenLive, SoleTick, TerminalAt, Driving
<1>2. MayFinish(inst, lock = Free, lock = w)
  BY <1>1 DEF MayFinish, Exists, Live
<1>3. inst' = Finish(inst, status) /\ loc'[w] = [loc[w] EXCEPT !.out = applied]
  BY <1>2 DEF TerminalAt, Go, TypeOK
<1>4. inst'.status = status /\ loc'[w].out = applied
  BY <1>3 DEF Finish, Instances, Locals, TypeOK
<1> QED BY <1>4 DEF Tells

LEMMA ReportsTruth ==
  ASSUME TypeOK, SoleTick, DrivenLive, Told, faults["cancel"] = Budget["cancel"],
         NEW w \in Workers,
         Work(w) \/ Deliver(w) \/ StallDeath(w) \/ GlueError(w) \/ Crash(w),
         pc'[w] \in {"release", "return"}
  PROVE  Tells(loc'[w].out, inst'.status)
<1> USE DEF TypeOK
<1>w. Working /\ loc[w] \in Locals
  BY DEF Working
<1>m. Register(loc[w]) \in Locals
  BY <1>w, RegisterType
<1>s. ASSUME NEW mem, mem = [loc[w] EXCEPT !.result = "none"]
      PROVE  mem \in Locals /\ Register(mem) \in Locals
  <2>1. mem \in Locals
    BY <1>s, <1>w DEF Locals
  <2> QED BY <2>1, RegisterType
<1>y. ASSUME loc'[w].out \in {"yield", "retriable"}
      PROVE  Tells(loc'[w].out, inst'.status)
  BY <1>y DEF Tells
<1>1. CASE \/ ReplaySettled(w) \/ ExistingStep(w) \/ FreshSleep(w)
           \/ ReadSleep(w) \/ WakeUp(w) \/ GlueError(w)
  <2>1. CASE ReplaySettled(w)
    BY <2>1, <1>m, <1>w, <1>y, ContinuationsMute DEF ReplaySettled, Go
  <2>2. CASE ExistingStep(w)
    BY <2>2, <1>m, <1>w, <1>y, ContinuationsMute DEF ExistingStep, Go
  <2>3. CASE FreshSleep(w)
    BY <2>3, <1>w, <1>y, ContinuationsMute DEF FreshSleep, Go
  <2>4. CASE WakeUp(w) \/ GlueError(w)
    BY <2>4, <1>w, <1>y, ContinuationsMute DEF WakeUp, GlueError
  <2>5. CASE ReadSleep(w)
    BY <2>5, <1>w, <1>y, ContinuationsMute DEF ReadSleep, Go
  <2> QED BY <1>1, <2>1, <2>2, <2>3, <2>4, <2>5
<1>2. CASE SaveResult(w) \/ SaveFailure(w) \/ SaveRetry(w)
  BY <1>2, <1>s, <1>w, <1>y, ContinuationsMute DEF SaveResult, SaveFailure, SaveRetry, Go
<1>3. CASE EnterFailure(w) \/ MarkCompensating(w)
  <2>1. [loc[w] EXCEPT !.todo = loc[w].regs] \in Locals
    BY <1>w DEF Locals
  <2> QED BY <1>3, <2>1, <1>w, <1>y, ContinuationsMute
       DEF EnterFailure, MarkCompensating, StartCompensation, Go
<1>4. CASE CompleteRun(w) \/ SettleTerminal(w) \/ FailFast(w) \/ CancelRun(w)
  <2>1. {"complete", "settle", "failfast", "cancelling"} \subseteq Driving
    BY DEF Driving, Locked
  <2>2. \A s \in {"completed", "failed", "cancelled", "compensation_failed"} : s \in Terminal
    BY DEF Terminal
  <2> QED BY <1>4, <2>1, <2>2, TerminalTells
       DEF CompleteRun, SettleTerminal, FailFast, CancelRun
<1>5. CASE MarkYielded(w)
  <2>1. loc'[w].out \in {"yield", "retriable"}
    BY <1>5, <1>w DEF MarkYielded, Go, Locals
  <2> QED BY <2>1, <1>y
<1>6. CASE Begin(w)
  <2>1. /\ BeginTick(inst).status \in Terminal /\ inst' = BeginTick(inst)
        /\ loc'[w].out = IF BeginTick(inst).status = "compensation_failed"
                         THEN "failed" ELSE BeginTick(inst).status
    BY <1>6, <1>w DEF Begin, Go, Locals
  <2> QED BY <2>1 DEF Tells, Terminal
<1>7. CASE Release(w)
  <2>1. inst' = inst /\ loc'[w] = loc[w] /\ pc[w] = "release"
    BY <1>7 DEF Release, Go
  <2> QED BY <2>1 DEF Told
<1>8. CASE Acquire(w) \/ Contended(w) \/ Park(w) \/ Return(w) \/ Orphan(w) \/ Refused(w)
           \/ FreshStep(w) \/ ClaimAttempt(w) \/ RunBody(w)
           \/ Deliver(w) \/ StallDeath(w) \/ Crash(w)
  BY <1>8 DEF Acquire, Contended, Park, Return, Orphan, Refused, FreshStep, ClaimAttempt,
              RunBody, Deliver, StallDeath, Crash, Go
<1> QED BY <1>1, <1>2, <1>3, <1>4, <1>5, <1>6, <1>7, <1>8 DEF Work

LEMMA WorkersAlone ==
  ASSUME TypeOK, NEW w \in Workers,
         Work(w) \/ Deliver(w) \/ StallDeath(w) \/ GlueError(w) \/ Crash(w)
  PROVE  Lone(w)
<1>1. CASE Begin(w)
  BY <1>1 DEF Begin, Go, Lone, TypeOK
<1> QED BY <1>1, WorkerKinds DEF Kinds

(* Nobody is cancelled, so nothing that was reported is taken back.        *)
LEMMA ToldInductive ==
  ASSUME TypeOK, SoleTick, CancelsLeft, DrivenLive, Told, [Next]_vars,
         Budget["cancel"] = 0
  PROVE  Told'
<1>1. faults["cancel"] = Budget["cancel"]
  BY DEF CancelsLeft, TypeOK, Faults
<1>2. inst.status \in Terminal => inst' = inst
  BY <1>1, FinishedStep, CancelsShrink DEF TypeOK, Faults
<1>3. ASSUME NEW v \in Workers, pc'[v] \in {"release", "return"},
             pc'[v] = pc[v], loc'[v] = loc[v]
      PROVE  Tells(loc'[v].out, inst'.status)
  BY <1>2, <1>3 DEF Told, Tells, Terminal
<1>4. ASSUME NEW w \in Workers,
             Work(w) \/ Deliver(w) \/ StallDeath(w) \/ GlueError(w) \/ Crash(w)
      PROVE  Told'
  <2>1. \A v \in Workers : pc'[v] \in {"release", "return"} => Tells(loc'[v].out, inst'.status)
    BY <1>1, <1>3, <1>4, ReportsTruth, WorkersAlone DEF Lone
  <2> QED BY <2>1 DEF Told, Tells
<1>5. ASSUME UNCHANGED <<pc, loc>>
      PROVE  Told'
  BY <1>3, <1>5 DEF Told, Tells
<1>6. ASSUME \/ \E k \in Keys : WakeTimeReached(k)
             \/ LockExpires \/ JobLockLapses \/ StallRecover \/ DelayOver \/ Promote
             \/ RetryJob \/ ExternalCancel \/ RemoveCarrier \/ UNCHANGED vars
      PROVE  UNCHANGED <<pc, loc>>
  BY <1>6 DEF WakeTimeReached, LockExpires, JobLockLapses, StallRecover, DelayOver, Promote,
              RetryJob, ExternalCancel, RemoveCarrier, vars
<1> QED BY <1>4, <1>5, <1>6 DEF Next

(* Only a report, or a stall death, ends a job.                            *)
LEMMA JobEnds ==
  ASSUME TypeOK, [Next]_vars, job'.state \in {"completed", "failed"}
  PROVE  \/ job'.state = job.state /\ job'.stalls = job.stalls
         \/ job'.state = "failed" /\ job'.stalls >= MaxStalled
         \/ \E w \in Workers :
              /\ Return(w)
              /\ job'.state = "completed" => loc[w].out = "completed"
              /\ job'.state = "failed" => loc[w].out \in {"failed", "cancelled"}
<1>t. job.state \in JobStates /\ job \in Jobs(Keys \cup {Soon}) /\ MaxStalled \in Nat
  BY BudgetAssumption DEF TypeOK, Jobs
<1>1. ASSUME NEW w \in Workers, Return(w)
      PROVE  \/ job'.state = job.state /\ job'.stalls = job.stalls
             \/ /\ job'.state = "completed" => loc[w].out = "completed"
                /\ job'.state = "failed" => loc[w].out \in {"failed", "cancelled"}
  BY <1>1, <1>t DEF Return, Claimed, Completed, Failed, Rescheduled, Disowned, Jobs
<1>2. ASSUME NEW w \in Workers, StallDeath(w)
      PROVE  job'.state = "failed" /\ job'.stalls >= MaxStalled
  BY <1>2, <1>t DEF StallDeath, Failed, Jobs
<1>3. ASSUME NEW w \in Workers, Work(w), ~Return(w)
      PROVE  job'.state = job.state /\ job'.stalls = job.stalls
  <2>1. CASE Park(w)
    BY <2>1, <1>t DEF Park, Claimed, Delayed, Jobs
  <2>2. CASE \/ Acquire(w) \/ Contended(w) \/ Begin(w) \/ Release(w)
             \/ Orphan(w) \/ ReplaySettled(w) \/ Refused(w) \/ FreshStep(w) \/ FreshSleep(w)
             \/ ExistingStep(w) \/ ReadSleep(w) \/ WakeUp(w) \/ ClaimAttempt(w) \/ RunBody(w)
             \/ SaveResult(w) \/ SaveRetry(w) \/ SaveFailure(w)
    BY <2>2 DEF Acquire, Contended, Begin, Release, Orphan, ReplaySettled, Refused, FreshStep,
                FreshSleep, ExistingStep, ReadSleep, WakeUp, ClaimAttempt, RunBody, SaveResult,
                SaveRetry, SaveFailure
  <2>3. CASE MarkYielded(w) \/ EnterFailure(w) \/ MarkCompensating(w)
             \/ CompleteRun(w) \/ SettleTerminal(w) \/ FailFast(w) \/ CancelRun(w)
    BY <2>3 DEF MarkYielded, EnterFailure, MarkCompensating, CompleteRun, SettleTerminal,
                FailFast, CancelRun, TerminalAt
  <2> QED BY <1>3, <2>1, <2>2, <2>3 DEF Work
<1>4. ASSUME NEW w \in Workers, Deliver(w) \/ GlueError(w) \/ Crash(w)
      PROVE  job'.state = job.state /\ job'.stalls = job.stalls
  BY <1>4, <1>t DEF Deliver, GlueError, Crash, Owned, Claimed, Disowned, Jobs
<1>5. ASSUME \/ \E k \in Keys : WakeTimeReached(k)
             \/ LockExpires \/ JobLockLapses \/ StallRecover \/ DelayOver \/ Promote
             \/ RetryJob \/ ExternalCancel \/ RemoveCarrier \/ UNCHANGED vars
      PROVE  job'.state = job.state /\ job'.stalls = job.stalls
  BY <1>5, <1>t DEF WakeTimeReached, LockExpires, JobLockLapses, StallRecover, DelayOver,
                    Promote, RetryJob, ExternalCancel, RemoveCarrier, vars,
                    StalledAgain, Requeued, Disowned, Gone, Jobs
<1> QED BY <1>1, <1>2, <1>3, <1>4, <1>5 DEF Next

LEMMA JobStep ==
  ASSUME TypeOK, CancelsLeft, DrivenLive, Told, JobFollowsRun, [Next]_vars,
         Budget["cancel"] = 0
  PROVE  JobFollowsRun'
<1>1. faults["cancel"] = Budget["cancel"]
  BY DEF CancelsLeft, TypeOK, Faults
<1>2. inst.status \in Terminal => inst' = inst
  BY <1>1, FinishedStep, CancelsShrink DEF TypeOK, Faults
<1>3. ASSUME job'.state = job.state, job'.stalls = job.stalls
      PROVE  JobFollowsRun'
  BY <1>2, <1>3 DEF JobFollowsRun, Terminal
<1>4. ASSUME job'.state = "failed", job'.stalls >= MaxStalled
      PROVE  JobFollowsRun'
  BY <1>4, NextType, BudgetAssumption DEF JobFollowsRun, TypeOK, Jobs
<1>5. ASSUME NEW w \in Workers, Return(w),
             job'.state = "completed" => loc[w].out = "completed",
             job'.state = "failed" => loc[w].out \in {"failed", "cancelled"}
      PROVE  JobFollowsRun'
  <2>1. Tells(loc[w].out, inst.status) /\ inst' = inst
    BY <1>5 DEF Return, Told, store
  <2> QED BY <1>5, <2>1 DEF JobFollowsRun, Tells
<1> QED BY <1>3, <1>4, <1>5, JobEnds DEF JobFollowsRun

(* The job follows the run: one that completed carries a run that          *)
(* completed, and one that failed without a stall death a run that is      *)
(* settled, whatever crashes, lapses and retries of the job there are.     *)
THEOREM JobAfterRun ==
  ASSUME Budget["lockLapse"] = 0, Budget["cancel"] = 0
  PROVE  Spec => []JobFollowsRun
<1>1. Init => CancelsLeft /\ DrivenLive /\ Told /\ JobFollowsRun
  BY BudgetAssumption
     DEF Init, CancelsLeft, DrivenLive, Driving, Locked, Faults, Told, JobFollowsRun
<1>2. /\ TypeOK /\ SoleTick /\ Claims
      /\ CancelsLeft /\ DrivenLive /\ Told /\ JobFollowsRun /\ [Next]_vars
      => (CancelsLeft /\ DrivenLive /\ Told /\ JobFollowsRun)'
  BY DrivenInductive, ToldInductive, JobStep
<1> QED BY <1>1, <1>2, LockProtects, PTL DEF Spec

=============================================================================
