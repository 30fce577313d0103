------------------------- MODULE DurableRuntimeProofs -------------------------
(***************************************************************************)
(* Proofs about DurableRuntime, for every processor, number of workers and *)
(* budget of faults: what the state is made of, what the instance lock     *)
(* protects, that the lock has one owner and a settled record one fate,    *)
(* how often a body runs against its retry budget, and that no body runs   *)
(* before the time its own record promises.                                *)
(***************************************************************************)
EXTENDS DurableRuntime, TLAPS

---------------------------------------------------------------------------
(* How a worker's continuation moves it.                                   *)

(* Places where a worker does not hold a step record it means to write.    *)
Calm == Places \ {"claim", "body", "save", "wake", "awake"}

Moves(w) == \E p \in Calm, m \in Locals : Go(w, p, m)

Working == pc \in [Workers -> Places] /\ loc \in [Workers -> Locals]

(* What a storage key is made of.                                          *)
LEMMA KeyFacts ==
  /\ \A i \in 1..N : Main(i) \in Keys
  /\ \A i \in Undoable : Undo(i) \in Keys
  /\ OnFailure \in Keys
  /\ \A k \in Keys : /\ k[1] \in {"main", "compensation", "failure"}
                     /\ k[1] = "main" => k[2] \in 1..N
                     /\ k[1] = "compensation" => k[2] \in Undoable
  BY DEF Keys, Main, Undo, OnFailure

(* The memory of a fresh tick is well typed.                               *)
LEMMA TickType ==
  ASSUME NEW mode \in {"normal", "settle"}, NEW attempt \in Nat
  PROVE  Tick(mode, attempt) \in Locals
  BY KeyFacts, ProcessorAssumption DEF Tick, Locals, NoStep, StepRecords

(* A worker that goes somewhere stays well typed.                          *)
LEMMA GoType ==
  ASSUME Working, NEW w \in Workers, NEW p \in Places, NEW m \in Locals, Go(w, p, m)
  PROVE  Working'
  BY DEF Working, Go

(* The same for a worker that moves to a calm place.                       *)
LEMMA MovesType ==
  ASSUME Working, NEW w \in Workers, Moves(w)
  PROVE  Working'
  BY GoType DEF Moves, Calm

(* Every step of runRollbacks is a move to a calm place.                   *)
LEMMA CompensateMoves ==
  ASSUME NEW w \in Workers, NEW mem \in Locals, Compensate(w, mem)
  PROVE  Moves(w)
<1>1. CASE \E i \in LastCalled(mem.todo) : Go(w, "step", [mem EXCEPT !.key = Undo(i)])
  <2>1. PICK i \in LastCalled(mem.todo) : Go(w, "step", [mem EXCEPT !.key = Undo(i)])
    BY <1>1
  <2>2. i \in Undoable
    BY <2>1 DEF LastCalled, Locals
  <2>3. [mem EXCEPT !.key = Undo(i)] \in Locals
    BY <2>2, KeyFacts DEF Locals
  <2> QED BY <2>1, <2>3 DEF Moves, Calm, Places, Locked
<1>2. CASE Go(w, "step", [mem EXCEPT !.key = OnFailure])
  <2>1. [mem EXCEPT !.key = OnFailure] \in Locals
    BY KeyFacts DEF Locals
  <2> QED BY <1>2, <2>1 DEF Moves, Calm, Places, Locked
<1>3. CASE Go(w, "settle", mem)
  BY <1>3 DEF Moves, Calm, Places, Locked
<1> QED BY <1>1, <1>2, <1>3 DEF Compensate

(* So is the code after a settled step.                                    *)
LEMMA AdvanceMoves ==
  ASSUME NEW w \in Workers, NEW mem \in Locals, Advance(w, mem)
  PROVE  Moves(w)
<1>1. CASE mem.key[1] = "main" /\ mem.key[2] < N
           /\ Go(w, "step", [mem EXCEPT !.key = Main(mem.key[2] + 1)])
  <2>1. mem.key[2] + 1 \in 1..N
    BY <1>1, KeyFacts, ProcessorAssumption DEF Locals
  <2>2. [mem EXCEPT !.key = Main(mem.key[2] + 1)] \in Locals
    BY <2>1, KeyFacts DEF Locals
  <2> QED BY <1>1, <2>2 DEF Moves, Calm, Places, Locked
<1>2. CASE Go(w, IF mem.entered THEN "enter" ELSE "complete", mem)
  BY <1>2 DEF Moves, Calm, Places, Locked
<1>3. CASE Compensate(w, [mem EXCEPT !.todo = @ \ {mem.key[2]}])
  <2>1. [mem EXCEPT !.todo = @ \ {mem.key[2]}] \in Locals
    BY DEF Locals
  <2> QED BY <1>3, <2>1, CompensateMoves
<1>4. CASE Go(w, "settle", mem)
  BY <1>4 DEF Moves, Calm, Places, Locked
<1> QED BY <1>1, <1>2, <1>3, <1>4 DEF Advance

(* Registering a rollback keeps a tick's memory well typed.                *)
LEMMA RegisterType ==
  ASSUME NEW mem \in Locals
  PROVE  Register(mem) \in Locals
  BY DEF Register, Locals

(* Whatever execute()'s catch block decides is a move to a calm place.     *)
LEMMA ClassifyMoves ==
  ASSUME NEW w \in Workers, NEW mem \in Locals, NEW retriable \in BOOLEAN,
         Classify(w, mem, retriable)
  PROVE  Moves(w)
<1>1. \E p \in {"enter", "retriable", "failfast"} : Go(w, p, mem)
  BY DEF Classify
<1> QED BY <1>1 DEF Moves, Calm, Places, Locked

(* So is what follows a failed step.                                       *)
LEMMA StepFailedMoves ==
  ASSUME NEW w \in Workers, NEW mem \in Locals, StepFailed(w, mem)
  PROVE  Moves(w)
<1>1. CASE Advance(w, mem)
  BY <1>1, AdvanceMoves
<1>2. CASE Classify(w, mem, FALSE)
  BY <1>2, ClassifyMoves
<1>3. CASE Compensate(w, [mem EXCEPT !.todo = @ \ {mem.key[2]}, !.undoFailed = TRUE])
  <2>1. [mem EXCEPT !.todo = @ \ {mem.key[2]}, !.undoFailed = TRUE] \in Locals
    BY DEF Locals
  <2> QED BY <1>3, <2>1, CompensateMoves
<1>4. CASE Go(w, "settle", mem)
  BY <1>4 DEF Moves, Calm, Places, Locked
<1> QED BY <1>1, <1>2, <1>3, <1>4 DEF StepFailed

(* And so is a yield.                                                      *)
LEMMA YieldMoves ==
  ASSUME NEW w \in Workers, NEW mem \in Locals, Yield(w, mem)
  PROVE  Moves(w)
<1>1. [mem EXCEPT !.out = "yield"] \in Locals
  BY DEF Locals
<1>2. \E p \in {"yielded", "release"} : Go(w, p, [mem EXCEPT !.out = "yield"])
  BY DEF Yield
<1> QED BY <1>1, <1>2 DEF Moves, Calm, Places, Locked
---------------------------------------------------------------------------
(* Type correctness.                                                       *)

(* The store's operators keep the instance well typed.                     *)
LEMMA InstanceTypes ==
  ASSUME NEW i \in Instances
  PROVE  /\ BeginTick(i) \in Instances
         /\ AllocSeq(i) \in Instances
         /\ \A s \in Live \cup Terminal : UpdateStatus(i, s) \in Instances
         /\ \A s \in Terminal : Finish(i, s) \in Instances
<1>1. BeginTick(i) \in Instances
  BY DEF BeginTick, Exists, Instances, Live, Terminal
<1>2. AllocSeq(i) \in Instances
  BY DEF AllocSeq, Instances
<1>3. ASSUME NEW s \in Live \cup Terminal
      PROVE  UpdateStatus(i, s) \in Instances
  BY DEF UpdateStatus, Exists, Instances, Live, Terminal
<1>4. ASSUME NEW s \in Terminal
      PROVE  Finish(i, s) \in Instances
  BY DEF Finish, Instances, Terminal
<1> QED BY <1>1, <1>2, <1>3, <1>4

(* BullMQ's operators keep the job well typed.                             *)
LEMMA JobTypes ==
  ASSUME NEW U, NEW j \in Jobs(U), Soon \in U
  PROVE  /\ \A w \in Workers : Owned(j, w) \in Jobs(U)
         /\ Disowned(j) \in Jobs(U) /\ Requeued(j) \in Jobs(U)
         /\ StalledAgain(j) \in Jobs(U) /\ Completed(j) \in Jobs(U)
         /\ Failed(j) \in Jobs(U) /\ Rescheduled(j) \in Jobs(U)
         /\ Gone(j) \in Jobs(U)
         /\ \A u \in U : Delayed(j, u) \in Jobs(U)
<1> USE DEF Jobs, JobStates
<1>1. \A w \in Workers : Owned(j, w) \in Jobs(U)
  BY DEF Owned
<1>2. Disowned(j) \in Jobs(U) /\ Requeued(j) \in Jobs(U) /\ Gone(j) \in Jobs(U)
  BY DEF Disowned, Requeued, Gone
<1>3. j.stalls + 1 \in Nat /\ j.made + 1 \in Nat
  OBVIOUS
<1>4. StalledAgain(j) \in Jobs(U)
  BY <1>3 DEF StalledAgain
<1>5. Completed(j) \in Jobs(U)
  BY DEF Completed
<1>6. Failed(j) \in Jobs(U)
  BY <1>3 DEF Failed
<1>7. Rescheduled(j) \in Jobs(U)
  BY <1>3 DEF Rescheduled
<1>8. \A u \in U : Delayed(j, u) \in Jobs(U)
  BY DEF Delayed
<1> QED BY <1>1, <1>2, <1>4, <1>5, <1>6, <1>7, <1>8

(* What a fault takes from the budget leaves a budget.                     *)
LEMMA StrikeType ==
  ASSUME faults \in [Faults -> Nat], NEW f \in Faults, Strike(f)
  PROVE  faults' \in [Faults -> Nat]
  BY DEF Strike

(* The steps a worker takes in run(), up to the processor and after it.    *)
LEMMA TickStepsType ==
  ASSUME TypeOK, NEW w \in Workers,
         Deliver(w) \/ Acquire(w) \/ Contended(w) \/ Begin(w)
           \/ Release(w) \/ Park(w) \/ Return(w) \/ Orphan(w) \/ StallDeath(w)
  PROVE  TypeOK'
<1> USE DEF TypeOK, Working
<1>m. loc[w] \in Locals
  OBVIOUS
<1>i. Idle \in Locals
  BY TickType DEF Idle
<1>1. CASE Deliver(w)
  <2>1. Tick("normal", job.made + 1) \in Locals
    BY TickType DEF Jobs
  <2>2. Working'
    BY <1>1, <2>1, GoType DEF Deliver, Places, Locked
  <2> QED BY <1>1, <2>2, JobTypes DEF Deliver, store
<1>2. CASE Acquire(w)
  <2>1. Working'
    BY <1>2, <1>m, GoType DEF Acquire, Places, Locked
  <2> QED BY <1>2, <2>1 DEF Acquire
<1>3. CASE Contended(w)
  <2>1. [loc[w] EXCEPT !.out = "contended"] \in Locals
    BY <1>m DEF Locals
  <2>2. Working'
    BY <1>3, <2>1, GoType DEF Contended, Places, Locked
  <2> QED BY <1>3, <2>2 DEF Contended, store
<1>4. CASE Begin(w)
  <2> DEFINE status == BeginTick(inst).status
  <2>1. BeginTick(inst) \in Instances
    BY InstanceTypes
  <2>2. [loc[w] EXCEPT !.entered = (status = "compensating")] \in Locals
    BY <1>m DEF Locals
  <2>3. ASSUME status \in Terminal
        PROVE  [loc[w] EXCEPT !.out = IF status = "compensation_failed"
                                      THEN "failed" ELSE status] \in Locals
    BY <1>m, <2>3 DEF Locals, Terminal
  <2>4. Working'
    BY <1>4, <2>2, <2>3, GoType DEF Begin, Places, Locked
  <2> QED BY <1>4, <2>1, <2>4 DEF Begin
<1>5. CASE Release(w)
  <2>1. Working'
    BY <1>5, <1>m, GoType DEF Release, Places, Locked
  <2> QED BY <1>5, <2>1 DEF Release
<1>6. CASE Park(w)
  <2>1. Working'
    BY <1>6, <1>i, GoType DEF Park, Places, Locked
  <2>2. loc[w].key \in Keys
    BY <1>m DEF Locals
  <2>3. job' \in Jobs(Keys \cup {Soon})
    BY <1>6, <2>2, JobTypes DEF Park
  <2> QED BY <1>6, <2>1, <2>3 DEF Park, store
<1>7. CASE Return(w)
  <2>1. Working'
    BY <1>7, <1>i, GoType DEF Return, Places, Locked
  <2>2. job' \in Jobs(Keys \cup {Soon})
    BY <1>7, JobTypes DEF Return
  <2> QED BY <1>7, <2>1, <2>2 DEF Return, store
<1>8. CASE Orphan(w)
  <2>1. Working'
    BY <1>8, <1>m, <1>i, GoType DEF Orphan, Places, Locked
  <2> QED BY <1>8, <2>1 DEF Orphan, store
<1>9. CASE StallDeath(w)
  <2>1. Tick("settle", job.made + 2) \in Locals
    BY TickType DEF Jobs
  <2>2. Working'
    BY <1>9, <2>1, GoType DEF StallDeath, Places, Locked
  <2> QED BY <1>9, <2>2, JobTypes DEF StallDeath, store
<1> QED BY <1>1, <1>2, <1>3, <1>4, <1>5, <1>6, <1>7, <1>8, <1>9

(* So does counting another attempt with a step record.                    *)
LEMMA NextAttemptType ==
  ASSUME NEW r \in StepRecords
  PROVE  /\ [r EXCEPT !.attempts = @ + 1] \in StepRecords
         /\ [r EXCEPT !.attempts = @ + 1, !.wake = "none"] \in StepRecords
<1>1. r.attempts + 1 \in Nat
  BY DEF StepRecords
<1>2. [r EXCEPT !.attempts = @ + 1] \in StepRecords
  BY <1>1 DEF StepRecords
<1>3. [r EXCEPT !.attempts = @ + 1, !.wake = "none"] \in StepRecords
  BY <1>1 DEF StepRecords
<1> QED BY <1>2, <1>3

(* The steps a worker takes in ctx.step and ctx.sleep.                     *)
LEMMA ExecutorStepsType ==
  ASSUME TypeOK, NEW w \in Workers,
         ReplaySettled(w) \/ Refused(w) \/ FreshStep(w) \/ FreshSleep(w)
           \/ ExistingStep(w) \/ ReadSleep(w) \/ WakeUp(w) \/ ClaimAttempt(w) \/ RunBody(w)
           \/ SaveResult(w) \/ SaveRetry(w) \/ SaveFailure(w) \/ GlueError(w)
  PROVE  TypeOK'
<1> USE DEF TypeOK, Working
<1> DEFINE mem == loc[w]
           k == loc[w].key
           settled == [loc[w] EXCEPT !.result = "none"]
<1>m. mem \in Locals /\ k \in Keys /\ mem.rec \in StepRecords
  BY DEF Locals
<1>r. Register(mem) \in Locals
  BY <1>m, RegisterType
<1>s. settled \in Locals /\ Register(settled) \in Locals
  <2>1. settled \in Locals
    BY <1>m DEF Locals
  <2> QED BY <2>1, RegisterType
<1>n. ASSUME NEW wake \in {"none", "pending", "due"}
      PROVE  NewStep(inst, wake) \in StepRecords
  BY DEF NewStep, StepRecords, Instances
<1>a. AllocSeq(inst) \in Instances
  BY InstanceTypes
<1>v. ASSUME NEW status \in {"running", "completed", "failed"},
             NEW wake \in {"none", "pending"}, Saved(w, status, wake)
      PROVE  step' \in [Keys -> StepRecords]
  <2>1. [mem.rec EXCEPT !.status = status, !.wake = wake] \in StepRecords
    BY <1>m DEF StepRecords
  <2> QED BY <1>v, <1>m, <2>1 DEF Saved
<1>1. CASE ReplaySettled(w)
  <2>1. Moves(w)
    <3>1. CASE Advance(w, Register(mem))
      BY <3>1, <1>r, AdvanceMoves
    <3>2. CASE StepFailed(w, mem)
      BY <3>2, <1>m, StepFailedMoves
    <3>3. CASE Go(w, "enter", mem)
      BY <3>3, <1>m DEF Moves, Calm, Places, Locked
    <3> QED BY <1>1, <3>1, <3>2, <3>3 DEF ReplaySettled
  <2> QED BY <1>1, <2>1, MovesType DEF ReplaySettled, store
<1>2. CASE Refused(w)
  <2>1. Working'
    BY <1>2, <1>m, GoType DEF Refused, Places, Locked
  <2> QED BY <1>2, <2>1 DEF Refused, store
<1>3. CASE FreshStep(w)
  <2> DEFINE rec == NewStep(inst, "none")
  <2>1. rec \in StepRecords
    BY <1>n
  <2>2. [mem EXCEPT !.rec = rec] \in Locals
    BY <1>m, <2>1 DEF Locals
  <2>3. Working'
    BY <1>3, <2>2, GoType DEF FreshStep, Places, Locked
  <2>4. step' \in [Keys -> StepRecords]
    BY <1>3, <1>m, <2>1 DEF FreshStep
  <2> QED BY <1>3, <1>a, <2>3, <2>4 DEF FreshStep
<1>4. CASE FreshSleep(w)
  <2>1. step' \in [Keys -> StepRecords]
    BY <1>4, <1>m, <1>n DEF FreshSleep
  <2>2. Working'
    <3>1. CASE Yield(w, mem)
      BY <3>1, <1>m, YieldMoves, MovesType
    <3>2. CASE Go(w, "wake", mem)
      BY <3>2, <1>m, GoType DEF Places, Locked
    <3> QED BY <1>4, <3>1, <3>2 DEF FreshSleep
  <2> QED BY <1>4, <1>a, <2>1, <2>2 DEF FreshSleep
<1>5. CASE ExistingStep(w)
  <2> DEFINE next == [step[k] EXCEPT !.attempts = @ + 1, !.wake = "none"]
  <2>1. next \in StepRecords
    BY <1>m, NextAttemptType
  <2>2. [mem EXCEPT !.rec = next] \in Locals
    BY <1>m, <2>1 DEF Locals
  <2>3. Working'
    <3>1. CASE Advance(w, Register(mem))
      BY <3>1, <1>r, AdvanceMoves, MovesType
    <3>2. CASE StepFailed(w, mem)
      BY <3>2, <1>m, StepFailedMoves, MovesType
    <3>3. CASE Yield(w, mem)
      BY <3>3, <1>m, YieldMoves, MovesType
    <3>4. CASE Go(w, "claim", [mem EXCEPT !.rec = next])
      BY <3>4, <2>2, GoType DEF Places, Locked
    <3>5. CASE Go(w, "wake", mem)
      BY <3>5, <1>m, GoType DEF Places, Locked
    <3> QED BY <1>5, <3>1, <3>2, <3>3, <3>4, <3>5 DEF ExistingStep
  <2> QED BY <1>5, <2>3 DEF ExistingStep, store
<1>0. CASE ReadSleep(w)
  <2>1. [mem EXCEPT !.rec = step[k]] \in Locals
    BY <1>m DEF Locals
  <2>2. Working'
    <3>1. CASE Advance(w, mem)
      BY <3>1, <1>m, AdvanceMoves, MovesType
    <3>2. CASE Go(w, "awake", [mem EXCEPT !.rec = step[k]])
      BY <3>2, <2>1, GoType DEF Places, Locked
    <3> QED BY <1>0, <3>1, <3>2 DEF ReadSleep
  <2> QED BY <1>0, <2>2 DEF ReadSleep, store
<1>6. CASE WakeUp(w)
  <2>1. step' \in [Keys -> StepRecords]
    BY <1>6, <1>m DEF WakeUp, StepRecords
  <2>2. Working'
    BY <1>6, <1>m, AdvanceMoves, MovesType DEF WakeUp
  <2> QED BY <1>6, <2>1, <2>2 DEF WakeUp
<1>7. CASE ClaimAttempt(w)
  <2>1. step' \in [Keys -> StepRecords]
    BY <1>7, <1>m DEF ClaimAttempt
  <2>2. Working'
    BY <1>7, <1>m, GoType DEF ClaimAttempt, Places, Locked
  <2> QED BY <1>7, <2>1, <2>2 DEF ClaimAttempt
<1>8. CASE RunBody(w)
  <2>1. PICK result \in {"ok", "failed", "again"} :
          Go(w, "save", [mem EXCEPT !.result = result])
    BY <1>8 DEF RunBody
  <2>2. [mem EXCEPT !.result = result] \in Locals
    BY <1>m DEF Locals
  <2>3. Working'
    BY <2>1, <2>2, GoType DEF Places, Locked
  <2> QED BY <1>8, <2>3 DEF RunBody, store
<1>9. CASE SaveResult(w)
  <2>1. Working'
    BY <1>9, <1>s, AdvanceMoves, MovesType DEF SaveResult
  <2>2. step' \in [Keys -> StepRecords]
    BY <1>9, <1>v DEF SaveResult
  <2> QED BY <1>9, <2>1, <2>2 DEF SaveResult
<1>10. CASE SaveRetry(w)
  <2>1. [settled EXCEPT !.rec.attempts = @ + 1] \in Locals
    <3>1. [settled.rec EXCEPT !.attempts = @ + 1] \in StepRecords
      <4>1. settled.rec \in StepRecords
        BY <1>s DEF Locals
      <4> QED BY <4>1, NextAttemptType
    <3> QED BY <1>s, <3>1 DEF Locals
  <2>2. Working'
    <3>1. CASE Yield(w, settled)
      BY <3>1, <1>s, YieldMoves, MovesType
    <3>2. CASE Go(w, "claim", [settled EXCEPT !.rec.attempts = @ + 1])
      BY <3>2, <2>1, GoType DEF Places, Locked
    <3> QED BY <1>10, <3>1, <3>2 DEF SaveRetry
  <2>3. step' \in [Keys -> StepRecords]
    BY <1>10, <1>v DEF SaveRetry
  <2> QED BY <1>10, <2>2, <2>3 DEF SaveRetry
<1>11. CASE SaveFailure(w)
  <2>1. Working'
    BY <1>11, <1>s, StepFailedMoves, MovesType DEF SaveFailure
  <2>2. step' \in [Keys -> StepRecords]
    BY <1>11, <1>v DEF SaveFailure
  <2> QED BY <1>11, <2>1, <2>2 DEF SaveFailure
<1>12. CASE GlueError(w)
  <2>1. Moves(w)
    BY <1>12, <1>m, ClassifyMoves DEF GlueError
  <2>2. faults' \in [Faults -> Nat]
    BY <1>12, StrikeType DEF GlueError, Faults
  <2> QED BY <1>12, <2>1, <2>2, MovesType DEF GlueError, store
<1> QED
  BY <1>0, <1>1, <1>2, <1>3, <1>4, <1>5, <1>6, <1>7, <1>8, <1>9, <1>10, <1>11, <1>12

(* The status writes of execute() and of the failure sequence.             *)
LEMMA StatusStepsType ==
  ASSUME TypeOK, NEW w \in Workers,
         MarkYielded(w) \/ EnterFailure(w) \/ MarkCompensating(w) \/ CompleteRun(w)
           \/ SettleTerminal(w) \/ FailFast(w) \/ CancelRun(w)
  PROVE  TypeOK'
<1> USE DEF TypeOK, Working
<1>m. loc[w] \in Locals
  OBVIOUS
<1>o. ASSUME NEW out \in {"yield", "suspended", "completed", "failed", "cancelled",
                          "retriable"}
      PROVE  [loc[w] EXCEPT !.out = out] \in Locals
  BY <1>m DEF Locals
<1>c. ASSUME StartCompensation(w)
      PROVE  Working'
  <2>1. [loc[w] EXCEPT !.todo = loc[w].regs] \in Locals
    BY <1>m DEF Locals
  <2> QED BY <1>c, <2>1, CompensateMoves, MovesType DEF StartCompensation
<1>t. ASSUME NEW place, NEW status \in Terminal,
             NEW applied \in {"suspended", "completed", "failed", "cancelled"},
             NEW refused \in {"suspended", "completed", "failed", "cancelled"},
             TerminalAt(w, place, status, applied, refused)
      PROVE  TypeOK'
  <2>1. Finish(inst, status) \in Instances
    BY InstanceTypes
  <2>2. Working'
    BY <1>t, <1>o, GoType DEF TerminalAt, Places, Locked
  <2> QED BY <1>t, <2>1, <2>2 DEF TerminalAt
<1>1. CASE MarkYielded(w)
  <2>1. UpdateStatus(inst, "yielded") \in Instances
    BY InstanceTypes DEF Live
  <2>2. Working'
    BY <1>1, <1>o, GoType DEF MarkYielded, Places, Locked
  <2> QED BY <1>1, <2>1, <2>2 DEF MarkYielded
<1>2. CASE EnterFailure(w)
  <2>1. Working'
    <3>1. CASE Go(w, "mark", loc[w])
      BY <3>1, <1>m, GoType DEF Places, Locked
    <3> QED BY <1>2, <1>c, <3>1 DEF EnterFailure
  <2> QED BY <1>2, <2>1 DEF EnterFailure, store
<1>3. CASE MarkCompensating(w)
  <2>1. UpdateStatus(inst, "compensating") \in Instances
    BY InstanceTypes DEF Live
  <2> QED BY <1>3, <1>c, <2>1 DEF MarkCompensating
<1>4. CASE CompleteRun(w)
  BY <1>4, <1>t DEF CompleteRun, Terminal
<1>5. CASE SettleTerminal(w)
  BY <1>5, <1>t DEF SettleTerminal, Terminal
<1>6. CASE FailFast(w)
  BY <1>6, <1>t DEF FailFast, Terminal
<1>7. CASE CancelRun(w)
  BY <1>7, <1>t DEF CancelRun, Terminal
<1> QED BY <1>1, <1>2, <1>3, <1>4, <1>5, <1>6, <1>7

(* A worker process that dies.                                             *)
LEMMA CrashType ==
  ASSUME TypeOK, NEW w \in Workers, Crash(w)
  PROVE  TypeOK'
<1> USE DEF TypeOK, Working
<1>1. Working'
  <2>1. Idle \in Locals
    BY TickType DEF Idle
  <2> QED BY <2>1, GoType DEF Crash, Places
<1>2. faults' \in [Faults -> Nat]
  BY StrikeType DEF Crash, Faults
<1>3. job' \in Jobs(Keys \cup {Soon})
  BY JobTypes DEF Crash
<1> QED BY <1>1, <1>2, <1>3 DEF Crash

(* Time, BullMQ and the application.                                       *)
LEMMA SurroundingsType ==
  ASSUME TypeOK,
         LockExpires \/ JobLockLapses \/ StallRecover \/ DelayOver \/ Promote
           \/ RetryJob \/ ExternalCancel \/ RemoveCarrier
           \/ (\E k \in Keys : WakeTimeReached(k))
  PROVE  TypeOK'
<1> USE DEF TypeOK, store
<1>f. ASSUME NEW f \in Faults, Strike(f)
      PROVE  faults' \in [Faults -> Nat]
  BY <1>f, StrikeType
<1>1. CASE LockExpires
  BY <1>1, <1>f DEF LockExpires, Faults
<1>2. CASE JobLockLapses
  BY <1>2, <1>f, JobTypes DEF JobLockLapses, Faults
<1>3. CASE StallRecover
  BY <1>3, JobTypes DEF StallRecover
<1>4. CASE DelayOver
  BY <1>4, JobTypes DEF DelayOver
<1>5. CASE Promote
  BY <1>5, <1>f, JobTypes DEF Promote, Faults
<1>6. CASE RetryJob
  BY <1>6, <1>f, JobTypes DEF RetryJob, Faults
<1>7. CASE ExternalCancel
  <2>1. inst' \in Instances
    BY <1>7, InstanceTypes DEF ExternalCancel, Terminal
  <2> QED BY <1>7, <1>f, <2>1 DEF ExternalCancel, Faults
<1>8. CASE RemoveCarrier
  BY <1>8, JobTypes DEF RemoveCarrier
<1>9. ASSUME NEW k \in Keys, WakeTimeReached(k)
      PROVE  TypeOK'
  BY <1>9 DEF WakeTimeReached, StepRecords
<1> QED BY <1>1, <1>2, <1>3, <1>4, <1>5, <1>6, <1>7, <1>8, <1>9

(* The initial state is well typed.                                        *)
LEMMA InitType ==
  ASSUME Init
  PROVE  TypeOK
<1>1. Idle \in Locals
  BY TickType DEF Idle
<1>2. inst \in Instances
  BY DEF Init, NoInstance, Instances
<1>3. step \in [Keys -> StepRecords]
  BY DEF Init, NoStep, StepRecords
<1>4. job \in Jobs(Keys \cup {Soon})
  BY DEF Init, Jobs, JobStates
<1> QED BY <1>1, <1>2, <1>3, <1>4, BudgetAssumption DEF Init, TypeOK, Places

(* Every step keeps the types.                                             *)
LEMMA NextType ==
  ASSUME TypeOK, [Next]_vars
  PROVE  TypeOK'
<1>1. ASSUME NEW w \in Workers, Work(w)
      PROVE  TypeOK'
  BY <1>1, TickStepsType, ExecutorStepsType, StatusStepsType DEF Work
<1>2. ASSUME NEW w \in Workers,
             Deliver(w) \/ StallDeath(w) \/ GlueError(w) \/ Crash(w)
      PROVE  TypeOK'
  BY <1>2, TickStepsType, ExecutorStepsType, CrashType
<1>3. CASE UNCHANGED vars
  BY <1>3 DEF vars, TypeOK
<1> QED BY <1>1, <1>2, <1>3, SurroundingsType DEF Next

(* The instance, its step records, the job, the lock and every worker's    *)
(* memory stay well typed: the state TLC checks is the state the code has, *)
(* for any processor and any number of workers and faults.                 *)
THEOREM TypeCorrect == Spec => []TypeOK
<1>1. Init => TypeOK
  BY InitType
<1>2. TypeOK /\ [Next]_vars => TypeOK'
  BY NextType
<1> QED BY <1>1, <1>2, PTL DEF Spec

---------------------------------------------------------------------------
(* One tick at a time, and settled steps, as long as the instance lock is  *)
(* renewed in time.  Job locks may lapse, workers may die, jobs may be     *)
(* retried, promoted and cancelled.                                        *)

SettledWaitForNothing ==
  \A k \in Keys : step[k].status \in {"completed", "failed"} => step[k].wake # "pending"

(* A step of the tick that holds the lock keeps both invariants, if it     *)
(* goes only to places whose claim it can make good.                       *)
LEMMA InsideStep ==
  ASSUME TypeOK, SoleTick, NEW w \in Workers, pc[w] \in Locked,
         lock' = lock, faults'["lockLapse"] = faults["lockLapse"],
         NEW p \in Places, NEW m \in Locals, Go(w, p, m),
         p \in {"claim", "body", "save", "wake", "awake"} => step'[m.key].status = "running",
         p \in {"claim", "body", "save"} => m.rec.status = "running",
         p \in {"wake", "awake"} => step'[m.key].wake # "pending",
         p = "awake" => m.rec = step'[m.key],
         SettledWaitForNothing'
  PROVE  SoleTick' /\ Claims'
<1> USE DEF TypeOK, SoleTick
<1>1. pc'[w] = p /\ loc'[w] = m
  BY DEF Go
<1>2. \A v \in Workers \ {w} : pc'[v] = pc[v] /\ pc[v] \notin Locked
  BY DEF Go
<1>3. SoleTick'
  BY <1>2
<1>4. ASSUME NEW v \in Workers \ {w}
      PROVE  pc'[v] \notin {"claim", "body", "save", "wake", "awake"}
  BY <1>2 DEF Locked
<1> QED BY <1>1, <1>3, <1>4 DEF Claims, SettledWaitForNothing

(* In particular if it moves to a calm place.                              *)
LEMMA CalmStep ==
  ASSUME TypeOK, SoleTick, NEW w \in Workers, pc[w] \in Locked,
         lock' = lock, faults'["lockLapse"] = faults["lockLapse"],
         Moves(w), SettledWaitForNothing'
  PROVE  SoleTick' /\ Claims'
<1>1. PICK p \in Calm, m \in Locals : Go(w, p, m)
  BY DEF Moves
<1>2. p \in Places /\ p \notin {"claim", "body", "save", "wake", "awake"}
  BY DEF Calm
<1> QED BY <1>1, <1>2, InsideStep

(* A step of a worker outside the lock leaves both invariants alone.       *)
LEMMA OutsideStep ==
  ASSUME TypeOK, SoleTick, Claims, NEW w \in Workers, pc[w] \notin Locked,
         NEW p \in Places \ Locked, NEW m \in Locals, Go(w, p, m),
         UNCHANGED <<step, lock, faults>>
  PROVE  SoleTick' /\ Claims'
<1> USE DEF TypeOK, SoleTick
<1>1. pc'[w] \notin Locked
  BY DEF Go
<1>2. \A v \in Workers \ {w} : pc'[v] = pc[v] /\ loc'[v] = loc[v]
  BY DEF Go
<1>3. SoleTick'
  BY <1>1, <1>2
<1>4. pc'[w] \notin {"claim", "body", "save", "wake", "awake"}
  BY <1>1 DEF Locked
<1> QED BY <1>2, <1>3, <1>4 DEF Claims

(* run(): delivery, the lock, the job's way out.                           *)
LEMMA TickStepsSole ==
  ASSUME TypeOK, SoleTick, Claims, NEW w \in Workers,
         Deliver(w) \/ Acquire(w) \/ Contended(w) \/ Begin(w)
           \/ Release(w) \/ Park(w) \/ Return(w) \/ Orphan(w) \/ StallDeath(w)
  PROVE  SoleTick' /\ Claims'
<1>m. loc[w] \in Locals /\ Idle \in Locals
  BY TickType DEF TypeOK, Idle
<1>s. SettledWaitForNothing
  BY DEF Claims, SettledWaitForNothing
<1>p. {"idle", "orphan", "acquire", "park", "return"} \subseteq Places \ Locked
  BY DEF Places, Locked
<1>1. CASE Deliver(w)
  <2>1. Tick("normal", job.made + 1) \in Locals
    BY TickType DEF Jobs, TypeOK
  <2> QED BY <1>1, <2>1, <1>p, OutsideStep DEF Deliver, store
<1>2. CASE Acquire(w)
  <2>1. /\ pc' = [pc EXCEPT ![w] = "begin"]
        /\ loc' = [loc EXCEPT ![w] = loc[w]]
        /\ lock' = w /\ step' = step /\ faults' = faults
    BY <1>2 DEF Acquire, Go
  <2>2. \A v \in Workers : pc[v] \notin Locked
    BY <1>2, TokenAssumption DEF Acquire, SoleTick
  <2>3. SoleTick'
    BY <2>1, <2>2 DEF SoleTick, TypeOK
  <2>4. \A v \in Workers : pc'[v] \notin {"claim", "body", "save", "wake", "awake"}
    BY <2>1, <2>2 DEF Locked, TypeOK
  <2> QED BY <2>1, <2>3, <2>4 DEF Claims
<1>3. CASE Contended(w)
  <2>1. [loc[w] EXCEPT !.out = "contended"] \in Locals
    BY <1>m DEF Locals
  <2> QED BY <1>3, <2>1, <1>p, OutsideStep DEF Contended, store
<1>4. CASE Begin(w)
  <2> DEFINE status == BeginTick(inst).status
  <2>1. BeginTick(inst) \in Instances
    BY InstanceTypes DEF TypeOK
  <2>2. [loc[w] EXCEPT !.entered = (status = "compensating")] \in Locals
    BY <1>m DEF Locals
  <2>3. ASSUME status \in Terminal
        PROVE  [loc[w] EXCEPT !.out = IF status = "compensation_failed"
                                      THEN "failed" ELSE status] \in Locals
    BY <1>m, <2>3 DEF Locals, Terminal
  <2>4. Moves(w)
    BY <1>4, <2>2, <2>3 DEF Begin, Moves, Calm, Places, Locked
  <2>5. SettledWaitForNothing' /\ lock' = lock /\ faults' = faults /\ pc[w] \in Locked
    BY <1>4, <1>s DEF Begin, SettledWaitForNothing, Locked
  <2> QED BY <2>4, <2>5, CalmStep
<1>5. CASE Release(w)
  <2>1. PICK p \in {"park", "return"} : pc' = [pc EXCEPT ![w] = p]
    BY <1>5 DEF Release, Go
  <2>2. /\ loc' = [loc EXCEPT ![w] = loc[w]]
        /\ step' = step /\ faults' = faults /\ lock = w
    BY <1>5 DEF Release, Go, SoleTick, Locked
  <2>3. \A v \in Workers : pc'[v] \notin Locked
    BY <2>1, <2>2, <1>p DEF TypeOK, SoleTick
  <2>4. SoleTick'
    BY <2>2, <2>3 DEF SoleTick
  <2>5. \A v \in Workers : pc'[v] \notin {"claim", "body", "save", "wake", "awake"}
    BY <2>3 DEF Locked
  <2> QED BY <2>2, <2>4, <2>5 DEF Claims
<1>6. CASE Park(w)
  BY <1>6, <1>m, <1>p, OutsideStep DEF Park, store
<1>7. CASE Return(w)
  BY <1>7, <1>m, <1>p, OutsideStep DEF Return, store
<1>8. CASE Orphan(w)
  BY <1>8, <1>m, <1>p, OutsideStep DEF Orphan, store
<1>9. CASE StallDeath(w)
  <2>1. Tick("settle", job.made + 2) \in Locals
    BY TickType DEF Jobs, TypeOK
  <2> QED BY <1>9, <2>1, <1>p, OutsideStep DEF StallDeath, store
<1> QED BY <1>1, <1>2, <1>3, <1>4, <1>5, <1>6, <1>7, <1>8, <1>9

(* A sleep that is over is written over as it is, but for its status.      *)
LEMMA WakeWrites ==
  ASSUME Claims, NEW w \in Workers, WakeUp(w)
  PROVE  LET k == loc[w].key
         IN /\ step' = [step EXCEPT ![k] = [step[k] EXCEPT !.status = "completed"]]
            /\ step[k].status = "running" /\ step[k].wake # "pending"
  BY DEF WakeUp, Claims

(* ctx.step and ctx.sleep: every place that writes a record is reached     *)
(* with a running one.                                                     *)
LEMMA ExecutorStepsSole ==
  ASSUME TypeOK, SoleTick, Claims, NEW w \in Workers,
         ReplaySettled(w) \/ Refused(w) \/ FreshStep(w) \/ FreshSleep(w)
           \/ ExistingStep(w) \/ ReadSleep(w) \/ WakeUp(w) \/ ClaimAttempt(w) \/ RunBody(w)
           \/ SaveResult(w) \/ SaveRetry(w) \/ SaveFailure(w) \/ GlueError(w)
  PROVE  SoleTick' /\ Claims'
<1> DEFINE mem == loc[w]
           k == loc[w].key
           settled == [loc[w] EXCEPT !.result = "none"]
<1>m. mem \in Locals /\ k \in Keys /\ mem.rec \in StepRecords
  BY DEF Locals, TypeOK
<1>r. Register(mem) \in Locals
  BY <1>m, RegisterType
<1>s. settled \in Locals /\ Register(settled) \in Locals
  <2>1. settled \in Locals
    BY <1>m DEF Locals
  <2> QED BY <2>1, RegisterType
<1>w. SettledWaitForNothing
  BY DEF Claims, SettledWaitForNothing
<1>c. {"step", "cancelling", "enter", "claim", "body", "save", "wake", "awake", "complete"}
         \subseteq Locked
       /\ Locked \subseteq Places
  BY DEF Locked, Places
<1>v. ASSUME NEW status \in {"running", "completed", "failed"},
             NEW wake \in {"none", "pending"}, Saved(w, status, wake),
             status # "running" => wake = "none"
      PROVE  SettledWaitForNothing' /\ step'[k].status = status
  <2>1. /\ step'[k] = [mem.rec EXCEPT !.status = status, !.wake = wake]
        /\ \A j \in Keys \ {k} : step'[j] = step[j]
    BY <1>v, <1>m DEF Saved, TypeOK
  <2>2. step'[k].status = status /\ step'[k].wake = wake
    BY <2>1, <1>m DEF StepRecords
  <2> QED BY <1>v, <1>w, <2>1, <2>2 DEF SettledWaitForNothing
<1>n. ASSUME NEW wake \in {"none", "pending", "due"},
             step' = [step EXCEPT ![k] = NewStep(inst, wake)]
      PROVE  /\ SettledWaitForNothing'
             /\ step'[k].status = "running" /\ step'[k].wake = wake
  <2>1. /\ step'[k] = NewStep(inst, wake)
        /\ \A j \in Keys \ {k} : step'[j] = step[j]
    BY <1>n, <1>m DEF TypeOK
  <2>2. step'[k].status = "running" /\ step'[k].wake = wake
    BY <2>1 DEF NewStep
  <2> QED BY <1>w, <2>1, <2>2 DEF SettledWaitForNothing
<1>1. CASE ReplaySettled(w)
  <2>1. Moves(w)
    <3>1. CASE Advance(w, Register(mem))
      BY <3>1, <1>r, AdvanceMoves
    <3>2. CASE StepFailed(w, mem)
      BY <3>2, <1>m, StepFailedMoves
    <3>3. CASE Go(w, "enter", mem)
      BY <3>3, <1>m DEF Moves, Calm, Places, Locked
    <3> QED BY <1>1, <3>1, <3>2, <3>3 DEF ReplaySettled
  <2>2. SettledWaitForNothing' /\ lock' = lock /\ faults' = faults /\ pc[w] \in Locked
    BY <1>1, <1>w, <1>c DEF ReplaySettled, SettledWaitForNothing, store
  <2> QED BY <2>1, <2>2, CalmStep
<1>2. CASE Refused(w)
  <2>1. Moves(w)
    BY <1>2, <1>m DEF Refused, Moves, Calm, Places, Locked
  <2>2. SettledWaitForNothing' /\ lock' = lock /\ faults' = faults /\ pc[w] \in Locked
    BY <1>2, <1>w, <1>c DEF Refused, Entering, SettledWaitForNothing, store
  <2> QED BY <2>1, <2>2, CalmStep
<1>3. CASE FreshStep(w)
  <2> DEFINE rec == NewStep(inst, "none")
             after == [mem EXCEPT !.rec = rec]
  <2>1. rec \in StepRecords /\ rec.status = "running"
    BY DEF NewStep, StepRecords, TypeOK, Instances
  <2>2. after \in Locals /\ after.rec = rec /\ after.key = k
    BY <1>m, <2>1 DEF Locals
  <2>3. /\ pc[w] \in Locked /\ lock' = lock /\ faults' = faults
        /\ Go(w, "body", after)
        /\ step' = [step EXCEPT ![k] = rec]
    BY <1>3, <1>c DEF FreshStep, Entering
  <2>4. SettledWaitForNothing' /\ step'[k].status = "running"
    BY <2>3, <1>n
  <2> HIDE DEF after, rec
  <2> QED BY <2>1, <2>2, <2>3, <2>4, <1>c, InsideStep
<1>4. CASE FreshSleep(w)
  <2>1. pc[w] \in Locked /\ lock' = lock /\ faults' = faults
    BY <1>4, <1>c DEF FreshSleep, Entering
  <2>2. CASE step' = [step EXCEPT ![k] = NewStep(inst, "pending")] /\ Yield(w, mem)
    BY <2>1, <2>2, <1>m, <1>n, YieldMoves, CalmStep
  <2>3. CASE step' = [step EXCEPT ![k] = NewStep(inst, "due")] /\ Go(w, "wake", mem)
    <3>1. /\ SettledWaitForNothing'
          /\ step'[mem.key].status = "running" /\ step'[mem.key].wake = "due"
      BY <2>3, <1>n
    <3> QED BY <2>1, <2>3, <3>1, <1>m, <1>c, InsideStep
  <2> QED BY <1>4, <2>2, <2>3 DEF FreshSleep
<1>5. CASE ExistingStep(w)
  <2> DEFINE next == [step[k] EXCEPT !.attempts = @ + 1, !.wake = "none"]
             after == [mem EXCEPT !.rec = next]
  <2>1. /\ pc[w] \in Locked /\ lock' = lock /\ faults' = faults /\ step' = step
        /\ SettledWaitForNothing'
    BY <1>5, <1>c, <1>w DEF ExistingStep, Entering, store, SettledWaitForNothing
  <2>2. CASE Advance(w, Register(mem))
    BY <2>1, <2>2, <1>r, AdvanceMoves, CalmStep
  <2>3. CASE StepFailed(w, mem)
    BY <2>1, <2>3, <1>m, StepFailedMoves, CalmStep
  <2>4. CASE Yield(w, mem)
    BY <2>1, <2>4, <1>m, YieldMoves, CalmStep
  <2>5. CASE Resumable(k, step[k]) /\ Go(w, "claim", after)
    <3>1. step[k] \in StepRecords /\ step[k].status = "running"
      BY <2>5, <1>m DEF Resumable, TypeOK
    <3>2. next \in StepRecords /\ next.status = "running"
      BY <3>1, NextAttemptType DEF StepRecords
    <3>3. after \in Locals /\ after.rec = next /\ after.key = k
      BY <1>m, <3>2 DEF Locals
    <3> HIDE DEF after, next
    <3> QED BY <2>1, <2>5, <3>1, <3>2, <3>3, <1>c, InsideStep
  <2>6. CASE Resumable(k, step[k]) /\ Go(w, "wake", mem)
    <3>1. step[k].status = "running" /\ step[k].wake # "pending"
      BY <2>6 DEF Resumable, MustWait
    <3> QED BY <2>1, <2>6, <3>1, <1>m, <1>c, InsideStep
  <2> QED BY <1>5, <2>2, <2>3, <2>4, <2>5, <2>6 DEF ExistingStep
<1>0. CASE ReadSleep(w)
  <2>1. /\ pc[w] \in Locked /\ lock' = lock /\ faults' = faults /\ step' = step
        /\ SettledWaitForNothing'
    BY <1>0, <1>c, <1>w DEF ReadSleep, store, SettledWaitForNothing
  <2>2. CASE Advance(w, mem)
    BY <2>1, <2>2, <1>m, AdvanceMoves, CalmStep
  <2>3. CASE Go(w, "awake", [mem EXCEPT !.rec = step[k]])
    <3> DEFINE after == [mem EXCEPT !.rec = step[k]]
    <3>1. after \in Locals /\ after.rec = step[k] /\ after.key = k
      BY <1>m DEF Locals, TypeOK
    <3>2. step[k].status = "running" /\ step[k].wake # "pending"
      BY <1>0 DEF ReadSleep, Claims
    <3> HIDE DEF after
    <3> QED BY <2>1, <2>3, <3>1, <3>2, <1>c, InsideStep DEF after
  <2> QED BY <1>0, <2>2, <2>3 DEF ReadSleep
<1>6. CASE WakeUp(w)
  <2>1. pc[w] \in Locked /\ lock' = lock /\ faults' = faults /\ Moves(w)
    BY <1>6, <1>c, <1>m, AdvanceMoves DEF WakeUp
  <2>2. step[k].wake # "pending"
    BY <1>6, WakeWrites
  <2>3. step' = [step EXCEPT ![k] = [step[k] EXCEPT !.status = "completed"]]
    BY <1>6, WakeWrites
  <2>4. step'[k].wake = step[k].wake /\ \A j \in Keys \ {k} : step'[j] = step[j]
    BY <2>3, <1>m DEF TypeOK, StepRecords
  <2>5. SettledWaitForNothing'
    BY <2>2, <2>4, <1>w DEF SettledWaitForNothing
  <2> QED BY <2>1, <2>5, CalmStep
<1>7. CASE ClaimAttempt(w)
  <2>1. /\ pc[w] \in Locked /\ lock' = lock /\ faults' = faults
        /\ Go(w, "body", mem) /\ mem.rec.status = "running"
        /\ step' = [step EXCEPT ![k] = mem.rec]
    BY <1>7, <1>c DEF ClaimAttempt, Claims
  <2>2. step'[k] = mem.rec /\ \A j \in Keys \ {k} : step'[j] = step[j]
    BY <2>1, <1>m DEF TypeOK
  <2>3. SettledWaitForNothing'
    BY <2>1, <2>2, <1>w DEF SettledWaitForNothing
  <2> QED BY <2>1, <2>2, <2>3, <1>m, <1>c, InsideStep
<1>8. CASE RunBody(w)
  <2>1. PICK result \in {"ok", "failed", "again"} :
          Go(w, "save", [mem EXCEPT !.result = result])
    BY <1>8 DEF RunBody
  <2> DEFINE after == [mem EXCEPT !.result = result]
  <2>2. after \in Locals /\ after.rec = mem.rec /\ after.key = k
    BY <1>m DEF Locals
  <2>3. /\ pc[w] \in Locked /\ lock' = lock /\ faults' = faults /\ step' = step
        /\ SettledWaitForNothing'
        /\ mem.rec.status = "running" /\ step[k].status = "running"
    BY <1>8, <1>c, <1>w DEF RunBody, store, SettledWaitForNothing, Claims
  <2>4. Go(w, "save", after)
    BY <2>1
  <2> HIDE DEF after
  <2> QED BY <2>2, <2>3, <2>4, <1>c, InsideStep
<1>9. CASE SaveResult(w)
  <2>1. /\ pc[w] \in Locked /\ lock' = lock /\ faults' = faults
        /\ Moves(w) /\ Saved(w, "completed", "none")
    BY <1>9, <1>c, <1>s, AdvanceMoves DEF SaveResult
  <2> QED BY <2>1, <1>v, CalmStep
<1>10. CASE SaveRetry(w)
  <2>1. pc[w] \in Locked /\ lock' = lock /\ faults' = faults
    BY <1>10, <1>c DEF SaveRetry
  <2>2. CASE Saved(w, "running", "pending") /\ Yield(w, settled)
    BY <2>1, <2>2, <1>s, <1>v, YieldMoves, CalmStep
  <2>3. CASE Saved(w, "running", "none")
             /\ Go(w, "claim", [settled EXCEPT !.rec.attempts = @ + 1])
    <3> DEFINE next == [settled.rec EXCEPT !.attempts = @ + 1]
               after == [settled EXCEPT !.rec = next]
    <3>1. /\ settled.rec = mem.rec /\ settled.key = k
          /\ settled.rec \in StepRecords /\ settled.rec.status = "running"
      BY <1>10, <1>m DEF SaveRetry, Claims, Locals
    <3>2. next \in StepRecords /\ next.status = "running"
      BY <3>1, NextAttemptType DEF StepRecords
    <3>3. after \in Locals /\ after.rec = next /\ after.key = k
      BY <1>s, <3>1, <3>2 DEF Locals
    <3>4. Go(w, "claim", after)
      BY <2>3
    <3>5. SettledWaitForNothing' /\ step'[k].status = "running"
      BY <2>3, <1>v
    <3> HIDE DEF after, next
    <3> QED BY <2>1, <3>2, <3>3, <3>4, <3>5, <1>c, InsideStep
  <2> QED BY <1>10, <2>2, <2>3 DEF SaveRetry
<1>11. CASE SaveFailure(w)
  <2>1. /\ pc[w] \in Locked /\ lock' = lock /\ faults' = faults
        /\ Moves(w) /\ Saved(w, "failed", "none")
    BY <1>11, <1>c, <1>s, StepFailedMoves DEF SaveFailure
  <2> QED BY <2>1, <1>v, CalmStep
<1>12. CASE GlueError(w)
  <2>1. Moves(w)
    BY <1>12, <1>m, ClassifyMoves DEF GlueError
  <2>2. faults'["lockLapse"] = faults["lockLapse"]
    BY <1>12 DEF GlueError, Strike, TypeOK, Faults
  <2>3. SettledWaitForNothing' /\ lock' = lock /\ pc[w] \in Locked
    BY <1>12, <1>w, <1>c DEF GlueError, SettledWaitForNothing, store
  <2> QED BY <2>1, <2>2, <2>3, CalmStep
<1> QED
  BY <1>0, <1>1, <1>2, <1>3, <1>4, <1>5, <1>6, <1>7, <1>8, <1>9, <1>10, <1>11, <1>12

(* The status writes never touch a step record.                            *)
LEMMA StatusStepsSole ==
  ASSUME TypeOK, SoleTick, Claims, NEW w \in Workers,
         MarkYielded(w) \/ EnterFailure(w) \/ MarkCompensating(w) \/ CompleteRun(w)
           \/ SettleTerminal(w) \/ FailFast(w) \/ CancelRun(w)
  PROVE  SoleTick' /\ Claims'
<1>m. loc[w] \in Locals
  BY DEF TypeOK
<1>o. ASSUME NEW out \in {"yield", "suspended", "completed", "failed", "cancelled",
                          "retriable"}, Go(w, "release", [loc[w] EXCEPT !.out = out])
      PROVE  Moves(w)
  <2>1. [loc[w] EXCEPT !.out = out] \in Locals
    BY <1>m DEF Locals
  <2> QED BY <1>o, <2>1 DEF Moves, Calm, Places, Locked
<1>c. ASSUME StartCompensation(w)
      PROVE  Moves(w)
  <2>1. [loc[w] EXCEPT !.todo = loc[w].regs] \in Locals
    BY <1>m DEF Locals
  <2> QED BY <1>c, <2>1, CompensateMoves DEF StartCompensation
<1>t. ASSUME NEW place \in Locked, NEW status,
             NEW applied \in {"suspended", "completed", "failed", "cancelled"},
             NEW refused \in {"suspended", "completed", "failed", "cancelled"},
             TerminalAt(w, place, status, applied, refused)
      PROVE  Moves(w) /\ pc[w] \in Locked /\ UNCHANGED <<step, lock, faults>>
  BY <1>t, <1>o DEF TerminalAt
<1>1. Moves(w) /\ pc[w] \in Locked /\ UNCHANGED <<step, lock, faults>>
  <2>1. CASE MarkYielded(w)
    BY <2>1, <1>o DEF MarkYielded, Locked
  <2>2. CASE EnterFailure(w)
    <3>1. ASSUME Go(w, "mark", loc[w])
          PROVE  Moves(w)
      BY <3>1, <1>m DEF Moves, Calm, Places, Locked
    <3> QED BY <2>2, <3>1, <1>c DEF EnterFailure, store, Locked
  <2>3. CASE MarkCompensating(w)
    BY <2>3, <1>c DEF MarkCompensating, Locked
  <2>4. CASE CompleteRun(w)
    BY <2>4, <1>t DEF CompleteRun, Locked
  <2>5. CASE SettleTerminal(w)
    BY <2>5, <1>t DEF SettleTerminal, Locked
  <2>6. CASE FailFast(w)
    BY <2>6, <1>t DEF FailFast, Locked
  <2>7. CASE CancelRun(w)
    BY <2>7, <1>t DEF CancelRun, Locked
  <2> QED BY <2>1, <2>2, <2>3, <2>4, <2>5, <2>6, <2>7
<1>2. SettledWaitForNothing'
  BY <1>1 DEF Claims, SettledWaitForNothing
<1> QED BY <1>1, <1>2, CalmStep

(* A death empties the lock of its token and the tick of its claim.        *)
LEMMA CrashSole ==
  ASSUME TypeOK, SoleTick, Claims, NEW w \in Workers, Crash(w)
  PROVE  SoleTick' /\ Claims'
<1>1. /\ pc'[w] = "idle" /\ step' = step
      /\ \A v \in Workers \ {w} : pc'[v] = pc[v] /\ loc'[v] = loc[v]
  BY DEF Crash, Go, TypeOK
<1>2. faults'["lockLapse"] = faults["lockLapse"]
  BY DEF Crash, Strike, TypeOK, Faults
<1>3. \A v \in Workers \ {w} : pc[v] \in Locked => lock' = lock
  BY DEF Crash, SoleTick
<1>4. SoleTick'
  BY <1>1, <1>2, <1>3 DEF SoleTick, Locked
<1> QED BY <1>1, <1>4 DEF Claims

(* Time, BullMQ and the application work on no step record of a tick; only *)
(* the clock moves one on, from a wait to its end.                         *)
LEMMA SurroundingsSole ==
  ASSUME TypeOK, SoleTick, Claims,
         LockExpires \/ JobLockLapses \/ StallRecover \/ DelayOver \/ Promote
           \/ RetryJob \/ ExternalCancel \/ RemoveCarrier
           \/ (\E k \in Keys : WakeTimeReached(k))
  PROVE  SoleTick' /\ Claims'
<1>s. ASSUME NEW f \in Faults \ {"lockLapse"}, Strike(f)
      PROVE  faults'["lockLapse"] = faults["lockLapse"]
  BY <1>s DEF Strike, TypeOK, Faults
<1>q. ASSUME UNCHANGED <<pc, loc, lock, step>>, faults'["lockLapse"] = faults["lockLapse"]
      PROVE  SoleTick' /\ Claims'
  BY <1>q DEF SoleTick, Claims
<1>1. CASE LockExpires
  <2>1. lock = Lost /\ UNCHANGED faults
    BY <1>1 DEF LockExpires, Strike, SoleTick
  <2>2. UNCHANGED <<pc, loc, step>>
    BY <1>1 DEF LockExpires
  <2>3. \A w \in Workers : pc[w] \notin Locked
    BY <2>1, TokenAssumption DEF SoleTick
  <2> QED BY <2>1, <2>2, <2>3 DEF SoleTick, Claims
<1>2. CASE JobLockLapses \/ Promote \/ RetryJob \/ ExternalCancel
  BY <1>2, <1>s, <1>q DEF JobLockLapses, Promote, RetryJob, ExternalCancel, store, Faults
<1>3. CASE StallRecover \/ DelayOver \/ RemoveCarrier
  BY <1>3, <1>q DEF StallRecover, DelayOver, RemoveCarrier, store
<1>4. ASSUME NEW k \in Keys, WakeTimeReached(k)
      PROVE  SoleTick' /\ Claims'
  <2>1. /\ UNCHANGED <<lock, pc, loc, faults>>
        /\ step' = [step EXCEPT ![k] = [@ EXCEPT !.wake = "due"]]
    BY <1>4 DEF WakeTimeReached
  <2>2. /\ \A j \in Keys : step'[j].status = step[j].status
        /\ \A j \in Keys : step'[j].wake = step[j].wake \/ step'[j].wake = "due"
        /\ \A j \in Keys : step[j].wake # "pending" => step'[j] = step[j]
    BY <1>4, <2>1 DEF TypeOK, StepRecords, WakeTimeReached
  <2>3. \A w \in Workers : loc[w].key \in Keys
    BY DEF TypeOK, Locals
  <2> QED BY <2>1, <2>2, <2>3 DEF SoleTick, Claims
<1> QED BY <1>1, <1>2, <1>3, <1>4

(* Both invariants are inductive, together with the types.                 *)
LEMMA SoleInductive ==
  ASSUME TypeOK, SoleTick, Claims, [Next]_vars
  PROVE  SoleTick' /\ Claims'
<1>1. ASSUME NEW w \in Workers, Work(w)
      PROVE  SoleTick' /\ Claims'
  BY <1>1, TickStepsSole, ExecutorStepsSole, StatusStepsSole DEF Work
<1>2. ASSUME NEW w \in Workers,
             Deliver(w) \/ StallDeath(w) \/ GlueError(w) \/ Crash(w)
      PROVE  SoleTick' /\ Claims'
  BY <1>2, TickStepsSole, ExecutorStepsSole, CrashSole
<1>3. CASE UNCHANGED vars
  BY <1>3 DEF vars, SoleTick, Claims
<1> QED BY <1>1, <1>2, <1>3, SurroundingsSole DEF Next

(* They hold initially when no lock lapse is budgeted for.                 *)
LEMMA SoleInit ==
  ASSUME Init, Budget["lockLapse"] = 0
  PROVE  SoleTick /\ Claims
  BY DEF Init, SoleTick, Claims, Locked, NoStep

(* Whatever else goes wrong, a worker inside the lock is the one the lock  *)
(* names, and every claim it makes on a record is good.                    *)
THEOREM LockProtects ==
  ASSUME Budget["lockLapse"] = 0
  PROVE  Spec => [](TypeOK /\ SoleTick /\ Claims)
<1>1. Init => TypeOK /\ SoleTick /\ Claims
  BY InitType, SoleInit
<1>2. TypeOK /\ SoleTick /\ Claims /\ [Next]_vars => (TypeOK /\ SoleTick /\ Claims)'
  BY NextType, SoleInductive
<1> QED BY <1>1, <1>2, PTL DEF Spec

(* One tick of a run at a time: no two workers are ever inside the section *)
(* of run() that holds the instance lock, however jobs are re-delivered.   *)
THEOREM OneTick ==
  ASSUME Budget["lockLapse"] = 0
  PROVE  Spec => []OneTickAtATime
<1>1. SoleTick => OneTickAtATime
  BY DEF SoleTick, OneTickAtATime
<1> QED BY <1>1, LockProtects, PTL

(* Only a running record, or one that is not there, is written by a step.  *)
LEMMA SettledStep ==
  ASSUME TypeOK, Claims, [Next]_vars,
         NEW k \in Keys, step[k].status \in {"completed", "failed"}
  PROVE  step'[k] = step[k]
<1>t. step \in [Keys -> StepRecords] /\ step[k].wake # "pending"
  BY DEF TypeOK, Claims
<1>n. \A i, r : BeginStep(i, r) = "created" => r.status = "none"
  BY DEF BeginStep, Exists
<1>1. ASSUME NEW w \in Workers, Work(w)
      PROVE  step'[k] = step[k]
  <2>1. CASE FreshStep(w) \/ FreshSleep(w)
    <3>1. step[loc[w].key].status = "none"
      BY <2>1, <1>n DEF FreshStep, FreshSleep, Entering
    <3>2. \E r : step' = [step EXCEPT ![loc[w].key] = r]
      BY <2>1 DEF FreshStep, FreshSleep
    <3> QED BY <1>t, <3>1, <3>2
  <2>2. CASE WakeUp(w) \/ ClaimAttempt(w) \/ SaveResult(w) \/ SaveRetry(w) \/ SaveFailure(w)
    <3>1. step[loc[w].key].status = "running"
      BY <2>2 DEF WakeUp, ClaimAttempt, SaveResult, SaveRetry, SaveFailure, Claims
    <3>2. \E r : step' = [step EXCEPT ![loc[w].key] = r]
      BY <2>2 DEF WakeUp, ClaimAttempt, SaveResult, SaveRetry, SaveFailure, Saved
    <3> QED BY <1>t, <3>1, <3>2
  <2>3. CASE Acquire(w) \/ Contended(w) \/ Begin(w) \/ Release(w) \/ Park(w) \/ Return(w)
             \/ Orphan(w) \/ ReplaySettled(w) \/ Refused(w) \/ ExistingStep(w) \/ RunBody(w)
             \/ ReadSleep(w)
    BY <2>3 DEF Acquire, Contended, Begin, Release, Park, Return, Orphan, ReplaySettled,
                Refused, ExistingStep, RunBody, ReadSleep, store
  <2>4. CASE MarkYielded(w) \/ EnterFailure(w) \/ MarkCompensating(w) \/ CompleteRun(w)
             \/ SettleTerminal(w) \/ FailFast(w) \/ CancelRun(w)
    BY <2>4 DEF MarkYielded, EnterFailure, MarkCompensating, CompleteRun, SettleTerminal,
                FailFast, CancelRun, TerminalAt, store
  <2> QED BY <1>1, <2>1, <2>2, <2>3, <2>4 DEF Work
<1>2. ASSUME NEW w \in Workers,
             Deliver(w) \/ StallDeath(w) \/ GlueError(w) \/ Crash(w)
      PROVE  step'[k] = step[k]
  BY <1>2 DEF Deliver, StallDeath, GlueError, Crash, store
<1>3. ASSUME NEW j \in Keys, WakeTimeReached(j)
      PROVE  step'[k] = step[k]
  BY <1>3, <1>t DEF WakeTimeReached
<1>4. CASE LockExpires \/ JobLockLapses \/ StallRecover \/ DelayOver \/ Promote
           \/ RetryJob \/ ExternalCancel \/ RemoveCarrier
  BY <1>4 DEF LockExpires, JobLockLapses, StallRecover, DelayOver, Promote, RetryJob,
              ExternalCancel, RemoveCarrier, store
<1>5. CASE UNCHANGED vars
  BY <1>5 DEF vars
<1> QED BY <1>1, <1>2, <1>3, <1>4, <1>5 DEF Next

(* A settled step is settled for good: no replay, retry, re-delivery,      *)
(* settlement tick or crash recovery writes over a completed or failed     *)
(* record.                                                                 *)
THEOREM SettledForGood ==
  ASSUME Budget["lockLapse"] = 0
  PROVE  Spec => SettledStepsStay
<1>1. TypeOK /\ SoleTick /\ Claims /\ [Next]_vars =>
        [\A k \in Keys :
           step[k].status \in {"completed", "failed"} => step'[k] = step[k]]_vars
  BY SettledStep
<1> QED BY <1>1, LockProtects, PTL DEF Spec, SettledStepsStay

---------------------------------------------------------------------------
(* The retry budget of a step.  An attempt is claimed for any running      *)
(* record that waits for nothing, without a look at the attempts it has    *)
(* used (beginOrReplayWritableStep).  That is right because such a record  *)
(* has an attempt to spare: either its last attempt asked for a retry,     *)
(* which the budget allowed, or a crash cut the attempt short, which the   *)
(* bound counts.                                                           *)

Cap(k) == MaxAttempts(k) + Budget["crash"] - faults["crash"]

InBody(k) == \E w \in Workers : pc[w] \in {"body", "save"} /\ loc[w].key = k

CrashesLeft == faults["crash"] <= Budget["crash"]

(* A step that nobody is running has an attempt to spare.                  *)
Spare ==
  \A k \in Keys : ~IsSleep(k) /\ step[k].status = "running" =>
    InBody(k) \/ step[k].attempts < Cap(k)

(* What a worker holds of the record it means to write.                    *)
Held ==
  \A w \in Workers :
    /\ pc[w] \in {"claim", "body", "save"} => loc[w].rec.attempts <= Cap(loc[w].key)
    /\ pc[w] = "save" /\ loc[w].result = "again" =>
         loc[w].rec.attempts < MaxAttempts(loc[w].key)

KeepsBudget == CrashesLeft /\ AttemptsBounded /\ Spare /\ Held

SameCrashes == faults'["crash"] = faults["crash"]

(* A worker that goes where it holds no record.                            *)
Leaves(w) ==
  /\ pc'[w] \notin {"claim", "body", "save"}
  /\ \A v \in Workers \ {w} : pc'[v] = pc[v] /\ loc'[v] = loc[v]

LEMMA MovesLeave ==
  ASSUME TypeOK, NEW w \in Workers, Moves(w)
  PROVE  Leaves(w)
  BY DEF Moves, Leaves, Calm, Go, TypeOK

LEMMA CapType ==
  ASSUME TypeOK, NEW k \in Keys
  PROVE  /\ MaxAttempts(k) \in Nat /\ MaxAttempts(k) > 0
         /\ Budget["crash"] \in Nat /\ faults["crash"] \in Nat
         /\ step[k].attempts \in Nat
  BY BudgetAssumption DEF MaxAttempts, TypeOK, Faults, StepRecords

(* A move that writes no record, of a worker that runs no body.            *)
LEMMA QuietKeeps ==
  ASSUME TypeOK, KeepsBudget, NEW w \in Workers,
         pc[w] \notin {"body", "save"}, Leaves(w), step' = step, SameCrashes
  PROVE  KeepsBudget'
<1>1. /\ pc'[w] \notin {"claim", "body", "save"}
      /\ \A v \in Workers \ {w} : pc'[v] = pc[v] /\ loc'[v] = loc[v]
  BY DEF Leaves
<1>2. \A k \in Keys : Cap(k)' = Cap(k)
  BY DEF Cap, SameCrashes, MaxAttempts
<1>3. \A k : InBody(k) => InBody(k)'
  BY <1>1 DEF InBody
<1>4. CrashesLeft' /\ AttemptsBounded'
  BY DEF KeepsBudget, CrashesLeft, AttemptsBounded, SameCrashes, MaxAttempts
<1>5. Spare'
  BY <1>2, <1>3 DEF KeepsBudget, Spare, IsSleep
<1>6. Held'
  BY <1>1, <1>2 DEF KeepsBudget, Held, MaxAttempts, TypeOK, Locals
<1> QED BY <1>4, <1>5, <1>6 DEF KeepsBudget

(* A move that writes the record of the worker's step, with an attempt to  *)
(* spare if it is left running.                                            *)
LEMMA WriteKeeps ==
  ASSUME TypeOK, KeepsBudget, NEW w \in Workers, Leaves(w), SameCrashes,
         NEW r \in StepRecords, step' = [step EXCEPT ![loc[w].key] = r],
         r.attempts <= Cap(loc[w].key),
         r.status = "running" => IsSleep(loc[w].key) \/ r.attempts < Cap(loc[w].key)
  PROVE  KeepsBudget'
<1> DEFINE k == loc[w].key
<1>k. k \in Keys
  BY DEF TypeOK, Locals
<1>1. /\ pc'[w] \notin {"claim", "body", "save"}
      /\ \A v \in Workers \ {w} : pc'[v] = pc[v] /\ loc'[v] = loc[v]
  BY DEF Leaves
<1>2. \A j \in Keys : Cap(j)' = Cap(j)
  BY DEF Cap, SameCrashes, MaxAttempts
<1>3. \A j \in Keys \ {k} : InBody(j) => InBody(j)'
  BY <1>1 DEF InBody
<1>w. step'[k] = r /\ \A j \in Keys \ {k} : step'[j] = step[j]
  BY <1>k DEF TypeOK
<1>4. CrashesLeft'
  BY DEF KeepsBudget, CrashesLeft, SameCrashes
<1>5. AttemptsBounded'
  <2>1. \A j \in Keys : step'[j].attempts <= Cap(j)
    BY <1>w DEF KeepsBudget, AttemptsBounded, Cap
  <2> QED BY <2>1 DEF AttemptsBounded, Cap, SameCrashes, MaxAttempts
<1>6. Spare'
  BY <1>2, <1>3, <1>w DEF KeepsBudget, Spare, IsSleep
<1>7. Held'
  BY <1>1, <1>2 DEF KeepsBudget, Held, MaxAttempts, TypeOK, Locals
<1> QED BY <1>4, <1>5, <1>6, <1>7 DEF KeepsBudget

---------------------------------------------------------------------------
(* run() and the status writes run no body and write no record.            *)
LEMMA TickLeaves ==
  ASSUME TypeOK, NEW w \in Workers,
         \/ Deliver(w) \/ Acquire(w) \/ Contended(w) \/ Begin(w) \/ Release(w)
         \/ Park(w) \/ Return(w) \/ Orphan(w) \/ StallDeath(w)
         \/ MarkYielded(w) \/ EnterFailure(w) \/ MarkCompensating(w) \/ CompleteRun(w)
         \/ SettleTerminal(w) \/ FailFast(w) \/ CancelRun(w) \/ Refused(w)
  PROVE  Leaves(w)
<1>1. ASSUME NEW m, Compensate(w, m)
      PROVE  Leaves(w)
  BY <1>1 DEF Compensate, Go, TypeOK, Leaves
<1>2. CASE EnterFailure(w) \/ MarkCompensating(w)
  BY <1>1, <1>2 DEF EnterFailure, MarkCompensating, StartCompensation, Go, TypeOK, Leaves
<1>3. CASE Deliver(w) \/ Acquire(w) \/ Contended(w) \/ Begin(w) \/ Release(w)
           \/ Park(w) \/ Return(w) \/ Orphan(w) \/ StallDeath(w) \/ Refused(w)
  BY <1>3 DEF Deliver, Acquire, Contended, Begin, Release, Park, Return, Orphan,
              StallDeath, Refused, Go, TypeOK, Leaves
<1>4. CASE MarkYielded(w) \/ CompleteRun(w) \/ SettleTerminal(w) \/ FailFast(w)
           \/ CancelRun(w)
  BY <1>4 DEF MarkYielded, CompleteRun, SettleTerminal, FailFast, CancelRun,
              TerminalAt, Go, TypeOK, Leaves
<1> QED BY <1>2, <1>3, <1>4

LEMMA TickKeeps ==
  ASSUME TypeOK, KeepsBudget, NEW w \in Workers,
         \/ Deliver(w) \/ Acquire(w) \/ Contended(w) \/ Begin(w) \/ Release(w)
         \/ Park(w) \/ Return(w) \/ Orphan(w) \/ StallDeath(w)
         \/ MarkYielded(w) \/ EnterFailure(w) \/ MarkCompensating(w) \/ CompleteRun(w)
         \/ SettleTerminal(w) \/ FailFast(w) \/ CancelRun(w) \/ Refused(w)
  PROVE  KeepsBudget'
<1>1. step' = step /\ SameCrashes
  BY DEF SameCrashes, Deliver, Acquire, Contended, Begin, Release, Park, Return, Orphan,
         StallDeath, MarkYielded, EnterFailure, MarkCompensating, CompleteRun,
         SettleTerminal, FailFast, CancelRun, TerminalAt, Refused, store
<1>2. pc[w] \notin {"body", "save"}
  BY DEF Deliver, Acquire, Contended, Begin, Release, Park, Return, Orphan,
         StallDeath, MarkYielded, EnterFailure, MarkCompensating, CompleteRun,
         SettleTerminal, FailFast, CancelRun, TerminalAt, Refused, Entering
<1>3. Leaves(w)
  BY TickLeaves
<1> QED BY <1>1, <1>2, <1>3, QuietKeeps

(* A glue error unwinds the processor outside of its steps.                *)
LEMMA GlueKeeps ==
  ASSUME TypeOK, KeepsBudget, NEW w \in Workers, GlueError(w)
  PROVE  KeepsBudget'
<1>1. step' = step /\ pc[w] \notin {"body", "save"}
  BY DEF GlueError, store
<1>2. SameCrashes
  BY DEF GlueError, Strike, SameCrashes, TypeOK, Faults
<1>3. Leaves(w)
  BY ClassifyMoves, MovesLeave DEF GlueError, TypeOK
<1> QED BY <1>1, <1>2, <1>3, QuietKeeps

(* A step that is begun takes its first attempt.                           *)
LEMMA FreshKeeps ==
  ASSUME TypeOK, KeepsBudget, NEW w \in Workers, FreshStep(w) \/ FreshSleep(w)
  PROVE  KeepsBudget'
<1> DEFINE k == loc[w].key
<1>k. k \in Keys /\ SameCrashes /\ pc[w] = "step"
  BY DEF FreshStep, FreshSleep, Entering, SameCrashes, TypeOK, Locals
<1>n. ASSUME NEW wake \in {"none", "pending", "due"}
      PROVE  NewStep(inst, wake) \in StepRecords /\ NewStep(inst, wake).attempts = 1
  BY DEF NewStep, StepRecords, TypeOK, Instances
<1>c. 1 <= Cap(k)
  BY <1>k, CapType DEF Cap, KeepsBudget, CrashesLeft
<1>1. CASE FreshSleep(w)
  <2>1. IsSleep(k) /\ Leaves(w)
    <3>1. CASE Yield(w, loc[w])
      BY <1>1, <3>1, YieldMoves, MovesLeave DEF FreshSleep, TypeOK
    <3>2. CASE Go(w, "wake", loc[w])
      BY <1>1, <3>2 DEF FreshSleep, Go, Leaves, TypeOK
    <3> QED BY <1>1, <3>1, <3>2 DEF FreshSleep
  <2>2. PICK wake \in {"pending", "due"} : step' = [step EXCEPT ![k] = NewStep(inst, wake)]
    BY <1>1 DEF FreshSleep
  <2> QED BY <2>1, <2>2, <1>k, <1>n, <1>c, WriteKeeps
<1>2. CASE FreshStep(w)
  <2> DEFINE rec == NewStep(inst, "none")
  <2>1. /\ pc'[w] = "body" /\ loc'[w].key = k /\ loc'[w].rec = rec
        /\ \A v \in Workers \ {w} : pc'[v] = pc[v] /\ loc'[v] = loc[v]
    BY <1>2 DEF FreshStep, Go, TypeOK, Locals
  <2>2. step'[k] = rec /\ \A j \in Keys \ {k} : step'[j] = step[j]
    BY <1>2, <1>k DEF FreshStep, TypeOK
  <2>3. \A j \in Keys : Cap(j)' = Cap(j)
    BY <1>k DEF Cap, SameCrashes, MaxAttempts
  <2>4. \A j \in Keys : InBody(j) \/ j = k => InBody(j)'
    BY <2>1, <1>k DEF InBody
  <2>5. CrashesLeft'
    BY <1>k DEF KeepsBudget, CrashesLeft, SameCrashes
  <2>6. AttemptsBounded'
    <3>1. \A j \in Keys : step'[j].attempts <= Cap(j)
      BY <2>2, <1>n, <1>c DEF KeepsBudget, AttemptsBounded, Cap
    <3> QED BY <3>1, <1>k DEF AttemptsBounded, Cap, SameCrashes, MaxAttempts
  <2>7. Spare'
    BY <2>2, <2>3, <2>4 DEF KeepsBudget, Spare, IsSleep
  <2>8. Held'
    BY <2>1, <2>3, <1>k, <1>n, <1>c DEF KeepsBudget, Held, MaxAttempts, TypeOK, Locals
  <2> QED BY <2>5, <2>6, <2>7, <2>8 DEF KeepsBudget
<1> QED BY <1>1, <1>2

(* A record found settled is replayed, one that waits ends the tick, and a *)
(* running one that waits for nothing is claimed: nobody else runs it, so  *)
(* it has an attempt to spare.                                             *)
LEMMA ReplayKeeps ==
  ASSUME TypeOK, SoleTick, KeepsBudget, NEW w \in Workers,
         ReplaySettled(w) \/ ExistingStep(w)
  PROVE  KeepsBudget'
<1> DEFINE mem == loc[w]
           k == loc[w].key
<1>m. mem \in Locals /\ Register(mem) \in Locals /\ k \in Keys
  BY RegisterType DEF TypeOK, Locals
<1>u. step' = step /\ pc[w] = "step" /\ SameCrashes
  BY DEF ReplaySettled, ExistingStep, Entering, SameCrashes, store
<1>q. ASSUME Moves(w)
      PROVE  KeepsBudget'
  BY <1>q, <1>u, MovesLeave, QuietKeeps
<1>1. ASSUME Advance(w, Register(mem)) \/ StepFailed(w, mem) \/ Yield(w, mem)
      PROVE  KeepsBudget'
  BY <1>1, <1>m, <1>q, AdvanceMoves, StepFailedMoves, YieldMoves
<1>2. ASSUME Go(w, "enter", mem) \/ Go(w, "wake", mem)
      PROVE  KeepsBudget'
  <2>1. Leaves(w)
    BY <1>2 DEF Go, Leaves, TypeOK
  <2> QED BY <2>1, <1>u, QuietKeeps
<1>3. ASSUME Resumable(k, step[k]), ~IsSleep(k),
             Go(w, "claim", [mem EXCEPT !.rec = [step[k] EXCEPT !.attempts = @ + 1,
                                                               !.wake = "none"]])
      PROVE  KeepsBudget'
  <2> DEFINE rec == [step[k] EXCEPT !.attempts = @ + 1, !.wake = "none"]
  <2>1. ~InBody(k)
    BY <1>u DEF InBody, SoleTick, Locked
  <2>2. step[k].attempts < Cap(k)
    BY <2>1, <1>3, <1>m DEF Resumable, KeepsBudget, Spare
  <2>3. rec.attempts <= Cap(k)
    BY <2>2, <1>m, CapType DEF Cap, StepRecords, TypeOK
  <2>4. /\ pc'[w] = "claim" /\ loc'[w].key = k /\ loc'[w].rec = rec
        /\ \A v \in Workers \ {w} : pc'[v] = pc[v] /\ loc'[v] = loc[v]
    BY <1>3, <1>m DEF Go, TypeOK, Locals
  <2>5. \A j \in Keys : Cap(j)' = Cap(j)
    BY <1>u DEF Cap, SameCrashes, MaxAttempts
  <2>6. \A j \in Keys : InBody(j) => InBody(j)'
    BY <2>4, <1>u DEF InBody
  <2>7. CrashesLeft' /\ AttemptsBounded'
    BY <1>u DEF KeepsBudget, CrashesLeft, AttemptsBounded, SameCrashes, MaxAttempts
  <2>8. Spare'
    BY <2>5, <2>6, <1>u DEF KeepsBudget, Spare, IsSleep
  <2> HIDE DEF rec
  <2>9. Held'
    BY <2>3, <2>4, <2>5, <1>m DEF KeepsBudget, Held, MaxAttempts, TypeOK, Locals
  <2> QED BY <2>7, <2>8, <2>9 DEF KeepsBudget
<1> QED BY <1>1, <1>2, <1>3 DEF ReplaySettled, ExistingStep

(* The end of a sleep.                                                     *)
LEMMA ReadKeeps ==
  ASSUME TypeOK, KeepsBudget, NEW w \in Workers, ReadSleep(w)
  PROVE  KeepsBudget'
<1>1. step' = step /\ SameCrashes /\ pc[w] \notin {"body", "save"}
  BY DEF ReadSleep, SameCrashes, store
<1>2. CASE Advance(w, loc[w])
  BY <1>1, <1>2, AdvanceMoves, MovesLeave, QuietKeeps DEF TypeOK
<1>3. CASE Go(w, "awake", [loc[w] EXCEPT !.rec = step[loc[w].key]])
  <2>1. Leaves(w)
    BY <1>3 DEF Go, Leaves, TypeOK
  <2> QED BY <1>1, <2>1, QuietKeeps
<1> QED BY <1>2, <1>3 DEF ReadSleep

LEMMA WakeKeeps ==
  ASSUME TypeOK, Claims, KeepsBudget, NEW w \in Workers, WakeUp(w)
  PROVE  KeepsBudget'
<1> DEFINE k == loc[w].key
           r == [step[k] EXCEPT !.status = "completed"]
<1>1. k \in Keys /\ loc[w] \in Locals
  BY DEF TypeOK, Locals
<1>2. r \in StepRecords /\ r.status = "completed" /\ r.attempts = step[k].attempts
  BY <1>1 DEF TypeOK, StepRecords
<1>3. r.attempts <= Cap(k)
  BY <1>1, <1>2 DEF KeepsBudget, AttemptsBounded, Cap
<1>4. step' = [step EXCEPT ![k] = r] /\ SameCrashes
  BY WakeWrites DEF WakeUp, SameCrashes
<1>5. Leaves(w)
  BY <1>1, AdvanceMoves, MovesLeave DEF WakeUp
<1> QED BY <1>2, <1>3, <1>4, <1>5, WriteKeeps

(* An attempt is claimed and its body runs: the step is in the worker's    *)
(* hands, and a body asks for a retry only while the budget allows one.    *)
LEMMA BodyKeeps ==
  ASSUME TypeOK, KeepsBudget, NEW w \in Workers, ClaimAttempt(w) \/ RunBody(w)
  PROVE  KeepsBudget'
<1> DEFINE k == loc[w].key
<1>k. k \in Keys /\ loc[w] \in Locals
  BY DEF TypeOK, Locals
<1>1. /\ pc'[w] \in {"body", "save"} /\ loc'[w].key = k /\ loc'[w].rec = loc[w].rec
      /\ \A v \in Workers \ {w} : pc'[v] = pc[v] /\ loc'[v] = loc[v]
      /\ pc'[w] = "save" /\ loc'[w].result = "again" =>
           loc[w].rec.attempts < MaxAttempts(k)
  <2>1. CASE ClaimAttempt(w)
    BY <2>1, <1>k DEF ClaimAttempt, Go, TypeOK
  <2>2. CASE RunBody(w)
    <3>1. PICK result \in {"ok", "failed"} \cup
            (IF loc[w].rec.attempts < MaxAttempts(k) THEN {"again"} ELSE {}) :
            Go(w, "save", [loc[w] EXCEPT !.result = result])
      BY <2>2 DEF RunBody
    <3> QED BY <3>1, <1>k DEF Go, TypeOK, Locals
  <2> QED BY <2>1, <2>2
<1>2. loc[w].rec.attempts <= Cap(k)
  BY DEF KeepsBudget, Held, ClaimAttempt, RunBody
<1>3. /\ \A j \in Keys \ {k} : step'[j] = step[j]
      /\ step'[k] = step[k] \/ step'[k] = loc[w].rec
      /\ SameCrashes
  BY <1>k DEF ClaimAttempt, RunBody, SameCrashes, store, TypeOK
<1>4. \A j \in Keys : Cap(j)' = Cap(j)
  BY <1>3 DEF Cap, SameCrashes, MaxAttempts
<1>5. \A j \in Keys : InBody(j) \/ j = k => InBody(j)'
  BY <1>1, <1>k DEF InBody
<1>6. CrashesLeft'
  BY <1>3 DEF KeepsBudget, CrashesLeft, SameCrashes
<1>7. AttemptsBounded'
  <2>1. \A j \in Keys : step'[j].attempts <= Cap(j)
    BY <1>2, <1>3 DEF KeepsBudget, AttemptsBounded, Cap
  <2> QED BY <2>1, <1>3 DEF AttemptsBounded, Cap, SameCrashes, MaxAttempts
<1>8. Spare'
  BY <1>3, <1>4, <1>5 DEF KeepsBudget, Spare, IsSleep
<1>9. Held'
  BY <1>1, <1>2, <1>4, <1>k DEF KeepsBudget, Held, MaxAttempts, TypeOK, Locals
<1> QED BY <1>6, <1>7, <1>8, <1>9 DEF KeepsBudget

(* What an attempt leaves behind: a settled record, or a running one with  *)
(* an attempt to spare.                                                    *)
LEMMA SaveKeeps ==
  ASSUME TypeOK, KeepsBudget, NEW w \in Workers,
         SaveResult(w) \/ SaveRetry(w) \/ SaveFailure(w)
  PROVE  KeepsBudget'
<1> DEFINE k == loc[w].key
           settled == [loc[w] EXCEPT !.result = "none"]
<1>k. k \in Keys /\ loc[w] \in Locals /\ loc[w].rec \in StepRecords
  BY DEF TypeOK, Locals
<1>s. settled \in Locals /\ Register(settled) \in Locals
  <2>1. settled \in Locals
    BY <1>k DEF Locals
  <2> QED BY <2>1, RegisterType
<1>u. SameCrashes /\ pc[w] = "save"
  BY DEF SaveResult, SaveRetry, SaveFailure, SameCrashes
<1>r. ASSUME NEW status \in {"running", "completed", "failed"}, NEW wake \in {"none", "pending"},
             Saved(w, status, wake), Leaves(w),
             status = "running" => loc[w].rec.attempts < Cap(k)
      PROVE  KeepsBudget'
  <2> DEFINE r == [loc[w].rec EXCEPT !.status = status, !.wake = wake]
  <2>1. r \in StepRecords /\ r.status = status /\ r.attempts = loc[w].rec.attempts
    BY <1>k DEF StepRecords
  <2>2. step' = [step EXCEPT ![k] = r]
    BY <1>r DEF Saved
  <2>3. r.attempts <= Cap(k)
    BY <2>1, <1>u DEF KeepsBudget, Held
  <2> HIDE DEF r
  <2> QED BY <1>r, <2>1, <2>2, <2>3, <1>u, WriteKeeps
<1>1. CASE SaveResult(w)
  <2>1. Leaves(w) /\ Saved(w, "completed", "none")
    BY <1>1, <1>s, AdvanceMoves, MovesLeave DEF SaveResult
  <2> QED BY <2>1, <1>r
<1>2. CASE SaveFailure(w)
  <2>1. Leaves(w) /\ Saved(w, "failed", "none")
    BY <1>2, <1>s, StepFailedMoves, MovesLeave DEF SaveFailure
  <2> QED BY <2>1, <1>r
<1>3. CASE SaveRetry(w)
  <2>1. loc[w].rec.attempts < MaxAttempts(k)
    BY <1>3 DEF SaveRetry, KeepsBudget, Held
  <2>2. loc[w].rec.attempts < Cap(k)
    BY <2>1, <1>k, CapType DEF Cap, KeepsBudget, CrashesLeft, StepRecords
  <2>3. CASE Saved(w, "running", "pending") /\ Yield(w, settled)
    <3>1. Leaves(w)
      BY <2>3, <1>s, YieldMoves, MovesLeave
    <3> QED BY <2>2, <2>3, <3>1, <1>r
  <2>4. CASE Saved(w, "running", "none")
             /\ Go(w, "claim", [settled EXCEPT !.rec.attempts = @ + 1])
    <3> DEFINE r == [loc[w].rec EXCEPT !.status = "running", !.wake = "none"]
               after == [settled EXCEPT !.rec.attempts = @ + 1]
    <3>1. /\ r.status = "running" /\ r.attempts = loc[w].rec.attempts
          /\ after.key = k /\ after.rec.attempts = loc[w].rec.attempts + 1
      BY <1>k DEF StepRecords, Locals
    <3>2. after.rec.attempts <= Cap(k)
      BY <2>2, <3>1, <1>k, CapType DEF Cap, StepRecords
    <3>3. /\ pc'[w] = "claim" /\ loc'[w] = after
          /\ \A v \in Workers \ {w} : pc'[v] = pc[v] /\ loc'[v] = loc[v]
      BY <2>4 DEF Go, TypeOK
    <3>4. step'[k] = r /\ \A j \in Keys \ {k} : step'[j] = step[j]
      BY <2>4, <1>k DEF Saved, TypeOK
    <3> HIDE DEF r, after
    <3>5. \A j \in Keys : Cap(j)' = Cap(j)
      BY <1>u DEF Cap, SameCrashes, MaxAttempts
    <3>6. \A j \in Keys \ {k} : InBody(j) => InBody(j)'
      BY <3>3 DEF InBody
    <3>7. CrashesLeft'
      BY <1>u DEF KeepsBudget, CrashesLeft, SameCrashes
    <3>8. AttemptsBounded'
      <4>1. \A j \in Keys : step'[j].attempts <= Cap(j)
        BY <3>1, <3>4, <1>u DEF KeepsBudget, AttemptsBounded, Held, Cap
      <4> QED BY <4>1, <1>u DEF AttemptsBounded, Cap, SameCrashes, MaxAttempts
    <3>9. Spare'
      BY <2>2, <3>1, <3>4, <3>5, <3>6 DEF KeepsBudget, Spare, IsSleep
    <3>10. Held'
      BY <3>1, <3>2, <3>3, <3>5, <1>k DEF KeepsBudget, Held, MaxAttempts, TypeOK, Locals
    <3> QED BY <3>7, <3>8, <3>9, <3>10 DEF KeepsBudget
  <2> QED BY <1>3, <2>3, <2>4 DEF SaveRetry
<1> QED BY <1>1, <1>2, <1>3

(* A crash cuts an attempt short and is paid for by the bound.             *)
LEMMA CrashKeeps ==
  ASSUME TypeOK, KeepsBudget, NEW w \in Workers, Crash(w)
  PROVE  KeepsBudget'
<1>1. /\ faults'["crash"] = faults["crash"] - 1 /\ faults["crash"] > 0
      /\ step' = step
  BY DEF Crash, Strike, TypeOK, Faults
<1>2. /\ pc'[w] = "idle"
      /\ \A v \in Workers \ {w} : pc'[v] = pc[v] /\ loc'[v] = loc[v]
  BY DEF Crash, Go, TypeOK
<1>3. \A k \in Keys : Cap(k) \in Nat /\ Cap(k)' = Cap(k) + 1
  BY <1>1, CapType DEF Cap, MaxAttempts, KeepsBudget, CrashesLeft
<1>4. CrashesLeft'
  BY <1>1, BudgetAssumption DEF KeepsBudget, CrashesLeft, TypeOK, Faults
<1>5. \A k \in Keys : step'[k].attempts < Cap(k)'
  BY <1>1, <1>3, CapType DEF KeepsBudget, AttemptsBounded, Cap
<1>6. AttemptsBounded'
  <2>1. \A k \in Keys : step'[k].attempts <= Cap(k)'
    BY <1>1, <1>3, <1>5, CapType
  <2> QED BY <2>1 DEF AttemptsBounded, Cap
<1>7. Spare'
  BY <1>5 DEF Spare
<1>8. Held'
  <2>1. \A v \in Workers : loc[v].key \in Keys /\ loc[v].rec.attempts \in Nat
    BY DEF TypeOK, Locals, StepRecords
  <2> QED BY <1>2, <1>3, <2>1 DEF KeepsBudget, Held, MaxAttempts
<1> QED BY <1>4, <1>6, <1>7, <1>8 DEF KeepsBudget

(* Time, BullMQ and the application claim no attempt.                      *)
LEMMA SurroundingsKeep ==
  ASSUME TypeOK, KeepsBudget,
         \/ LockExpires \/ JobLockLapses \/ StallRecover \/ DelayOver \/ Promote
         \/ RetryJob \/ ExternalCancel \/ RemoveCarrier \/ UNCHANGED vars
         \/ \E k \in Keys : WakeTimeReached(k)
  PROVE  KeepsBudget'
<1>1. UNCHANGED <<pc, loc>>
  BY DEF LockExpires, JobLockLapses, StallRecover, DelayOver, Promote, RetryJob,
         ExternalCancel, RemoveCarrier, WakeTimeReached, vars
<1>2. SameCrashes
  BY DEF LockExpires, JobLockLapses, StallRecover, DelayOver, Promote, RetryJob,
         ExternalCancel, RemoveCarrier, WakeTimeReached, vars, SameCrashes, Strike,
         TypeOK, Faults
<1>3. \A k \in Keys : step'[k].status = step[k].status /\ step'[k].attempts = step[k].attempts
  <2>1. ASSUME NEW k \in Keys, WakeTimeReached(k)
        PROVE  \A j \in Keys : step'[j].status = step[j].status
                               /\ step'[j].attempts = step[j].attempts
    <3>1. step' = [step EXCEPT ![k] = [step[k] EXCEPT !.wake = "due"]]
      BY <2>1 DEF WakeTimeReached
    <3> QED BY <3>1 DEF TypeOK, StepRecords
  <2> QED BY <2>1 DEF LockExpires, JobLockLapses, StallRecover, DelayOver, Promote, RetryJob,
                      ExternalCancel, RemoveCarrier, vars, store
<1>4. \A k \in Keys : Cap(k)' = Cap(k)
  BY <1>2 DEF Cap, SameCrashes, MaxAttempts
<1>5. \A k \in Keys : InBody(k)' <=> InBody(k)
  BY <1>1 DEF InBody
<1>6. CrashesLeft' /\ AttemptsBounded'
  BY <1>2, <1>3 DEF KeepsBudget, CrashesLeft, AttemptsBounded, SameCrashes, MaxAttempts
<1>7. Spare'
  BY <1>3, <1>4, <1>5 DEF KeepsBudget, Spare, IsSleep
<1>8. Held'
  BY <1>1, <1>4 DEF KeepsBudget, Held, MaxAttempts, TypeOK, Locals
<1> QED BY <1>6, <1>7, <1>8 DEF KeepsBudget

---------------------------------------------------------------------------
LEMMA BudgetInductive ==
  ASSUME TypeOK, SoleTick, Claims, KeepsBudget, [Next]_vars
  PROVE  KeepsBudget'
<1>1. ASSUME NEW w \in Workers, Work(w)
      PROVE  KeepsBudget'
  BY <1>1, TickKeeps, FreshKeeps, ReplayKeeps, ReadKeeps, WakeKeeps, BodyKeeps, SaveKeeps DEF Work
<1>2. ASSUME NEW w \in Workers,
             Deliver(w) \/ StallDeath(w) \/ GlueError(w) \/ Crash(w)
      PROVE  KeepsBudget'
  BY <1>2, TickKeeps, GlueKeeps, CrashKeeps
<1> QED BY <1>1, <1>2, SurroundingsKeep DEF Next

LEMMA BudgetInit ==
  ASSUME Init
  PROVE  KeepsBudget
<1>1. CrashesLeft /\ Spare /\ Held
  BY BudgetAssumption DEF Init, CrashesLeft, Spare, Held, NoStep, Faults
<1>2. AttemptsBounded
  BY BudgetAssumption DEF Init, AttemptsBounded, MaxAttempts, NoStep, Faults
<1> QED BY <1>1, <1>2 DEF KeepsBudget

(* No step gets more attempts than its retry policy and the crashes that   *)
(* cut attempts short account for, however often the run yields, is        *)
(* delivered early, replayed, settled or taken over.                       *)
THEOREM AttemptsAccounted ==
  ASSUME Budget["lockLapse"] = 0
  PROVE  Spec => []AttemptsBounded
<1>1. Init => KeepsBudget
  BY BudgetInit
<1>2. TypeOK /\ SoleTick /\ Claims /\ KeepsBudget /\ [Next]_vars => KeepsBudget'
  BY BudgetInductive
<1>3. KeepsBudget => AttemptsBounded
  BY DEF KeepsBudget
<1> QED BY <1>1, <1>2, <1>3, LockProtects, PTL DEF Spec

---------------------------------------------------------------------------
(* Wake times.  A worker that has claimed an attempt, or runs one, does so *)
(* on a record that waits for nothing, and means to write none that does   *)
(* before the attempt is over.                                             *)

Waitless ==
  /\ \A k \in Keys : step[k].status = "none" => step[k].wake = "none"
  /\ \A w \in Workers :
       pc[w] \in {"claim", "body", "save"} =>
         step[loc[w].key].wake # "pending" /\ loc[w].rec.wake # "pending"

(* A worker writes, if at all, the record of its own step, which does not  *)
(* wait.                                                                   *)
WritesOwn(w) ==
  \/ step' = step
  \/ /\ pc[w] \in Locked /\ step[loc[w].key].wake # "pending"
     /\ \E r \in StepRecords :
          r.status # "none" /\ step' = [step EXCEPT ![loc[w].key] = r]

(* It goes to an attempt only of a step that waits for nothing.            *)
TakesUp(w) ==
  /\ \A v \in Workers \ {w} : pc'[v] = pc[v] /\ loc'[v] = loc[v]
  /\ pc'[w] \in {"claim", "body", "save"} =>
       step'[loc'[w].key].wake # "pending" /\ loc'[w].rec.wake # "pending"

LEMMA LeavesTakesUp ==
  ASSUME NEW w \in Workers, Leaves(w)
  PROVE  TakesUp(w)
  BY DEF Leaves, TakesUp

(* Nobody's wait is cut short by such a step.                              *)
LEMMA OwnWrites ==
  ASSUME TypeOK, SoleTick, Waitless, NEW w \in Workers, WritesOwn(w), TakesUp(w)
  PROVE  /\ Waitless'
         /\ \A k \in Keys : step[k].wake = "pending" => step'[k] = step[k]
<1>k. loc[w].key \in Keys /\ \A v \in Workers : loc[v].key \in Keys
  BY DEF TypeOK, Locals
<1>1. CASE step' = step
  BY <1>1 DEF Waitless, TakesUp
<1>2. ASSUME pc[w] \in Locked, step[loc[w].key].wake # "pending", NEW r \in StepRecords,
             r.status # "none", step' = [step EXCEPT ![loc[w].key] = r]
      PROVE  /\ Waitless'
             /\ \A k \in Keys : step[k].wake = "pending" => step'[k] = step[k]
  <2>1. step'[loc[w].key] = r /\ \A k \in Keys \ {loc[w].key} : step'[k] = step[k]
    BY <1>k, <1>2 DEF TypeOK
  <2>2. \A v \in Workers \ {w} : pc[v] \notin {"claim", "body", "save"}
    BY <1>2 DEF SoleTick, Locked
  <2>3. \A k \in Keys : step'[k].status = "none" => step'[k].wake = "none"
    BY <1>2, <2>1 DEF Waitless
  <2>4. Waitless'
    BY <2>2, <2>3 DEF Waitless, TakesUp
  <2> QED BY <1>2, <2>1, <2>4
<1> QED BY <1>1, <1>2 DEF WritesOwn

(* The actions of a worker, one group at a time.                           *)
LEMMA TickWaits ==
  ASSUME TypeOK, NEW w \in Workers,
         \/ Deliver(w) \/ Acquire(w) \/ Contended(w) \/ Begin(w) \/ Release(w)
         \/ Park(w) \/ Return(w) \/ Orphan(w) \/ StallDeath(w) \/ Crash(w) \/ GlueError(w)
         \/ MarkYielded(w) \/ EnterFailure(w) \/ MarkCompensating(w) \/ CompleteRun(w)
         \/ SettleTerminal(w) \/ FailFast(w) \/ CancelRun(w) \/ Refused(w)
  PROVE  WritesOwn(w) /\ TakesUp(w)
<1>1. step' = step
  BY DEF Deliver, Acquire, Contended, Begin, Release, Park, Return, Orphan, Crash, GlueError,
         StallDeath, MarkYielded, EnterFailure, MarkCompensating, CompleteRun,
         SettleTerminal, FailFast, CancelRun, TerminalAt, Refused, store
<1>2. CASE GlueError(w)
  BY <1>1, <1>2, ClassifyMoves, MovesLeave, LeavesTakesUp DEF GlueError, TypeOK, WritesOwn
<1>3. CASE Crash(w)
  BY <1>1, <1>3 DEF Crash, Go, TypeOK, TakesUp, WritesOwn
<1>4. CASE \/ Deliver(w) \/ Acquire(w) \/ Contended(w) \/ Begin(w) \/ Release(w)
           \/ Park(w) \/ Return(w) \/ Orphan(w) \/ StallDeath(w)
           \/ MarkYielded(w) \/ EnterFailure(w) \/ MarkCompensating(w) \/ CompleteRun(w)
           \/ SettleTerminal(w) \/ FailFast(w) \/ CancelRun(w) \/ Refused(w)
  BY <1>1, <1>4, TickLeaves, LeavesTakesUp DEF WritesOwn
<1> QED BY <1>2, <1>3, <1>4

LEMMA FreshWaits ==
  ASSUME TypeOK, Waitless, NEW w \in Workers, FreshStep(w) \/ FreshSleep(w)
  PROVE  WritesOwn(w) /\ TakesUp(w)
<1> DEFINE k == loc[w].key
<1>k. k \in Keys /\ loc[w] \in Locals /\ pc[w] \in Locked
  BY DEF FreshStep, FreshSleep, Entering, TypeOK, Locals, Locked
<1>n. ASSUME NEW wake \in {"none", "pending", "due"}
      PROVE  /\ NewStep(inst, wake) \in StepRecords /\ NewStep(inst, wake).status # "none"
             /\ NewStep(inst, wake).wake = wake
  BY DEF NewStep, StepRecords, TypeOK, Instances
<1>w. step[k].wake # "pending"
  <2>1. step[k].status = "none"
    BY DEF FreshStep, FreshSleep, Entering, BeginStep, Exists
  <2> QED BY <1>k, <2>1 DEF Waitless
<1>1. CASE FreshSleep(w)
  <2>1. TakesUp(w)
    <3>1. CASE Yield(w, loc[w])
      BY <3>1, <1>k, YieldMoves, MovesLeave, LeavesTakesUp
    <3>2. CASE Go(w, "wake", loc[w])
      BY <3>2 DEF Go, TakesUp, TypeOK
    <3> QED BY <1>1, <3>1, <3>2 DEF FreshSleep
  <2>2. PICK wake \in {"pending", "due"} : step' = [step EXCEPT ![k] = NewStep(inst, wake)]
    BY <1>1 DEF FreshSleep
  <2> QED BY <1>k, <1>n, <1>w, <2>1, <2>2 DEF WritesOwn
<1>2. CASE FreshStep(w)
  <2> DEFINE r == NewStep(inst, "none")
  <2>1. /\ pc'[w] = "body" /\ loc'[w].key = k /\ step'[k] = r /\ loc'[w].rec = r
        /\ step' = [step EXCEPT ![k] = r]
        /\ \A v \in Workers \ {w} : pc'[v] = pc[v] /\ loc'[v] = loc[v]
    BY <1>2, <1>k DEF FreshStep, Go, TypeOK, Locals
  <2>2. r \in StepRecords /\ r.status # "none" /\ r.wake = "none"
    BY <1>n
  <2> HIDE DEF r
  <2> QED BY <1>k, <1>w, <2>1, <2>2 DEF WritesOwn, TakesUp
<1> QED BY <1>1, <1>2

LEMMA ReplayWaits ==
  ASSUME TypeOK, NEW w \in Workers, ReplaySettled(w) \/ ExistingStep(w)
  PROVE  WritesOwn(w) /\ TakesUp(w)
<1> DEFINE mem == loc[w]
           k == loc[w].key
<1>m. mem \in Locals /\ Register(mem) \in Locals /\ k \in Keys /\ step[k] \in StepRecords
  BY RegisterType DEF TypeOK, Locals
<1>u. step' = step
  BY DEF ReplaySettled, ExistingStep, store
<1>1. ASSUME Advance(w, Register(mem)) \/ StepFailed(w, mem) \/ Yield(w, mem)
      PROVE  TakesUp(w)
  BY <1>1, <1>m, AdvanceMoves, StepFailedMoves, YieldMoves, MovesLeave, LeavesTakesUp
<1>2. ASSUME Go(w, "enter", mem) \/ Go(w, "wake", mem)
      PROVE  TakesUp(w)
  BY <1>2 DEF Go, TakesUp, TypeOK
<1>3. ASSUME Resumable(k, step[k]),
             Go(w, "claim", [mem EXCEPT !.rec = [step[k] EXCEPT !.attempts = @ + 1,
                                                               !.wake = "none"]])
      PROVE  TakesUp(w)
  <2> DEFINE rec == [step[k] EXCEPT !.attempts = @ + 1, !.wake = "none"]
  <2>1. rec.wake = "none"
    BY <1>m DEF StepRecords
  <2>2. /\ pc'[w] = "claim" /\ loc'[w].key = k /\ loc'[w].rec = rec
        /\ \A v \in Workers \ {w} : pc'[v] = pc[v] /\ loc'[v] = loc[v]
    BY <1>3, <1>m DEF Go, TypeOK, Locals
  <2>3. step'[k].wake # "pending"
    BY <1>3, <1>u DEF Resumable, MustWait
  <2> HIDE DEF rec
  <2> QED BY <2>1, <2>2, <2>3 DEF TakesUp
<1>4. TakesUp(w)
  BY <1>1, <1>2, <1>3 DEF ReplaySettled, ExistingStep
<1> QED BY <1>u, <1>4 DEF WritesOwn

LEMMA BodyWaits ==
  ASSUME TypeOK, Claims, Waitless, NEW w \in Workers,
         ReadSleep(w) \/ WakeUp(w) \/ ClaimAttempt(w) \/ RunBody(w)
  PROVE  WritesOwn(w) /\ TakesUp(w)
<1> DEFINE k == loc[w].key
<1>k. k \in Keys /\ loc[w] \in Locals /\ loc[w].rec \in StepRecords /\ step[k] \in StepRecords
  BY DEF TypeOK, Locals
<1>0. CASE ReadSleep(w)
  <2>1. step' = step
    BY <1>0 DEF ReadSleep, store
  <2>2. CASE Advance(w, loc[w])
    BY <1>k, <2>1, <2>2, AdvanceMoves, MovesLeave, LeavesTakesUp DEF WritesOwn
  <2>3. CASE Go(w, "awake", [loc[w] EXCEPT !.rec = step[k]])
    BY <2>1, <2>3 DEF Go, TakesUp, TypeOK, WritesOwn
  <2> QED BY <1>0, <2>2, <2>3 DEF ReadSleep
<1>1. CASE WakeUp(w)
  <2> DEFINE r == [step[k] EXCEPT !.status = "completed"]
  <2>1. r \in StepRecords /\ r.status = "completed"
    BY <1>k DEF StepRecords
  <2>2. step' = [step EXCEPT ![k] = r] /\ step[k].wake # "pending" /\ pc[w] \in Locked
    BY <1>1, WakeWrites DEF WakeUp, Locked
  <2>3. TakesUp(w)
    BY <1>1, <1>k, AdvanceMoves, MovesLeave, LeavesTakesUp DEF WakeUp
  <2> HIDE DEF r
  <2> QED BY <2>1, <2>2, <2>3 DEF WritesOwn
<1>2. CASE ClaimAttempt(w)
  <2>1. /\ pc[w] = "claim" /\ step' = [step EXCEPT ![k] = loc[w].rec]
        /\ pc'[w] = "body" /\ loc'[w].key = k /\ step'[k] = loc[w].rec
        /\ loc'[w].rec = loc[w].rec
        /\ \A v \in Workers \ {w} : pc'[v] = pc[v] /\ loc'[v] = loc[v]
    BY <1>2, <1>k DEF ClaimAttempt, Go, TypeOK
  <2>2. /\ loc[w].rec.wake # "pending" /\ loc[w].rec.status = "running"
        /\ step[k].wake # "pending"
    BY <2>1 DEF Waitless, Claims
  <2> QED BY <1>k, <2>1, <2>2 DEF WritesOwn, TakesUp, Locked
<1>3. CASE RunBody(w)
  <2>1. /\ pc[w] = "body" /\ step' = step
        /\ pc'[w] = "save" /\ loc'[w].key = k /\ loc'[w].rec = loc[w].rec
        /\ \A v \in Workers \ {w} : pc'[v] = pc[v] /\ loc'[v] = loc[v]
    BY <1>3, <1>k DEF RunBody, Go, TypeOK, Locals, store
  <2> QED BY <2>1 DEF Waitless, WritesOwn, TakesUp
<1> QED BY <1>0, <1>1, <1>2, <1>3

LEMMA SaveWaits ==
  ASSUME TypeOK, Waitless, NEW w \in Workers,
         SaveResult(w) \/ SaveRetry(w) \/ SaveFailure(w)
  PROVE  WritesOwn(w) /\ TakesUp(w)
<1> DEFINE k == loc[w].key
           mem == [loc[w] EXCEPT !.result = "none"]
<1>k. k \in Keys /\ loc[w] \in Locals /\ loc[w].rec \in StepRecords
  BY DEF TypeOK, Locals
<1>m. mem \in Locals /\ Register(mem) \in Locals
  <2>1. mem \in Locals
    BY <1>k DEF Locals
  <2> QED BY <2>1, RegisterType
<1>s. /\ pc[w] = "save" /\ pc[w] \in Locked
      /\ step[k].wake # "pending" /\ loc[w].rec.wake # "pending"
  BY DEF SaveResult, SaveRetry, SaveFailure, Waitless, Locked
<1>w. ASSUME NEW status \in {"running", "completed", "failed"}, NEW wake \in {"none", "pending"},
             Saved(w, status, wake)
      PROVE  WritesOwn(w) /\ step'[k].wake = wake
  <2> DEFINE r == [loc[w].rec EXCEPT !.status = status, !.wake = wake]
  <2>1. r \in StepRecords /\ r.status = status /\ r.wake = wake
    BY <1>k DEF StepRecords
  <2>2. step' = [step EXCEPT ![k] = r]
    BY <1>w DEF Saved
  <2> HIDE DEF r
  <2>3. step'[k] = r
    BY <1>k, <2>2 DEF TypeOK
  <2> QED BY <1>s, <2>1, <2>2, <2>3 DEF WritesOwn
<1>1. CASE SaveResult(w)
  BY <1>1, <1>m, <1>w, AdvanceMoves, MovesLeave, LeavesTakesUp DEF SaveResult
<1>2. CASE SaveFailure(w)
  BY <1>2, <1>m, <1>w, StepFailedMoves, MovesLeave, LeavesTakesUp DEF SaveFailure
<1>3. CASE SaveRetry(w)
  <2>1. CASE Saved(w, "running", "pending") /\ Yield(w, mem)
    BY <1>m, <1>w, <2>1, YieldMoves, MovesLeave, LeavesTakesUp
  <2>2. CASE /\ Saved(w, "running", "none")
             /\ Go(w, "claim", [mem EXCEPT !.rec.attempts = @ + 1])
    <3>1. step'[k].wake = "none" /\ WritesOwn(w)
      BY <1>w, <2>2
    <3>2. /\ pc'[w] = "claim" /\ loc'[w].key = k /\ loc'[w].rec.wake = loc[w].rec.wake
          /\ \A v \in Workers \ {w} : pc'[v] = pc[v] /\ loc'[v] = loc[v]
      BY <1>k, <2>2 DEF Go, TypeOK, Locals, StepRecords
    <3> QED BY <1>s, <3>1, <3>2 DEF TakesUp
  <2> QED BY <1>3, <2>1, <2>2 DEF SaveRetry
<1> QED BY <1>1, <1>2, <1>3

(* Everything else leaves the records alone, but for the clock.            *)
LEMMA SurroundingsWait ==
  ASSUME TypeOK, Waitless,
         \/ LockExpires \/ JobLockLapses \/ StallRecover \/ DelayOver \/ Promote
         \/ RetryJob \/ ExternalCancel \/ RemoveCarrier \/ UNCHANGED vars
         \/ \E k \in Keys : WakeTimeReached(k)
  PROVE  /\ Waitless'
         /\ \A k \in Keys : step[k].wake = "pending" =>
              step'[k] \in {step[k], [step[k] EXCEPT !.wake = "due"]}
<1>1. UNCHANGED <<pc, loc>>
  BY DEF LockExpires, JobLockLapses, StallRecover, DelayOver, Promote, RetryJob,
         ExternalCancel, RemoveCarrier, WakeTimeReached, vars
<1>2. ASSUME NEW k \in Keys, WakeTimeReached(k)
      PROVE  \A j \in Keys :
               \/ step'[j] = step[j]
               \/ step[j].wake = "pending" /\ step'[j] = [step[j] EXCEPT !.wake = "due"]
  BY <1>2 DEF WakeTimeReached, TypeOK
<1>3. \A j \in Keys :
        \/ step'[j] = step[j]
        \/ step[j].wake = "pending" /\ step'[j] = [step[j] EXCEPT !.wake = "due"]
  BY <1>2 DEF LockExpires, JobLockLapses, StallRecover, DelayOver, Promote, RetryJob,
              ExternalCancel, RemoveCarrier, vars, store
<1>4. \A j \in Keys : /\ step'[j].wake = "pending" => step[j].wake = "pending"
                      /\ step[j].wake # "pending" => step'[j] = step[j]
                      /\ step'[j].status = step[j].status
  <2>1. \A j \in Keys : step[j] \in StepRecords
    BY DEF TypeOK
  <2>2. ASSUME NEW j \in Keys
        PROVE  LET due == [step[j] EXCEPT !.wake = "due"]
               IN  due.wake = "due" /\ due.status = step[j].status
    BY <2>1 DEF StepRecords
  <2> QED BY <1>3, <2>2
<1>5. \A v \in Workers : loc[v].key \in Keys
  BY DEF TypeOK, Locals
<1>6. Waitless'
  BY <1>1, <1>4, <1>5 DEF Waitless
<1> QED BY <1>3, <1>6

LEMMA WaitStep ==
  ASSUME TypeOK, SoleTick, Claims, Waitless, [Next]_vars
  PROVE  /\ Waitless'
         /\ \A k \in Keys : step[k].wake = "pending" =>
              step'[k] \in {step[k], [step[k] EXCEPT !.wake = "due"]}
<1>1. ASSUME NEW w \in Workers,
             Work(w) \/ Deliver(w) \/ StallDeath(w) \/ GlueError(w) \/ Crash(w)
      PROVE  WritesOwn(w) /\ TakesUp(w)
  BY <1>1, TickWaits, FreshWaits, ReplayWaits, BodyWaits, SaveWaits DEF Work
<1>2. ASSUME NEW w \in Workers, WritesOwn(w) /\ TakesUp(w)
      PROVE  /\ Waitless'
             /\ \A k \in Keys : step[k].wake = "pending" =>
                  step'[k] \in {step[k], [step[k] EXCEPT !.wake = "due"]}
  BY <1>2, OwnWrites
<1> QED BY <1>1, <1>2, SurroundingsWait DEF Next

(* A stored wake time is only ever overtaken by the clock: no early        *)
(* delivery, takeover, settlement or replay runs an attempt or ends a      *)
(* sleep before it.                                                        *)
THEOREM NeverTooEarly ==
  ASSUME Budget["lockLapse"] = 0
  PROVE  Spec => NoEarlyWake
<1>1. Init => Waitless
  BY DEF Init, Waitless, NoStep
<1>2. TypeOK /\ SoleTick /\ Claims /\ Waitless /\ [Next]_vars => Waitless'
  BY WaitStep
<1>3. TypeOK /\ SoleTick /\ Claims /\ Waitless /\ [Next]_vars =>
        [\A k \in Keys : step[k].wake = "pending" =>
           step'[k] \in {step[k], [step[k] EXCEPT !.wake = "due"]}]_vars
  BY WaitStep
<1> QED BY <1>1, <1>2, <1>3, LockProtects, PTL DEF Spec, NoEarlyWake

=============================================================================
