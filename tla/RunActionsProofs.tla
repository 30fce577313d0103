-------------------------- MODULE RunActionsProofs --------------------------
(***************************************************************************)
(* What an operator may do to a run through its handle, for every          *)
(* processor, number of workers, budget of faults and list of calls, as    *)
(* long as the instance lock does not lapse under a live worker and the    *)
(* calls come one after the other.                                         *)
(*                                                                         *)
(* A completed record survives all of it.  A worker inside the lock may    *)
(* find the record it is about to write reset or deleted, never settled by *)
(* somebody else: the weaker half of Claims is what the calls leave of it. *)
(* A call resets only what was failed when it looked; nothing but a reset  *)
(* ends that, so with one call at a time it is failed still.               *)
(*                                                                         *)
(* That the status of a failed run tells the truth about its rollbacks     *)
(* rests on what a tick's memory says of the records (Knows), on records   *)
(* that leave no rollback out of reach of a replay (Reached), and on a     *)
(* failed run being left alone by every tick until it is reopened.         *)
(***************************************************************************)
EXTENDS RunActions, FinishProofs

Settled == {"completed", "failed"}
Writing == {"claim", "body", "save", "wake", "awake"}

(* What is left of Claims when records may be reset and deleted.           *)
OpenClaims ==
  /\ \A w \in Workers :
       /\ pc[w] \in Writing => step[loc[w].key].status \notin Settled
       /\ pc[w] \in Writing \ {"wake"} => loc[w].rec.status \notin Settled
       /\ pc[w] = "wake" => step[loc[w].key].wake # "pending"
       /\ pc[w] = "awake" => loc[w].rec.wake # "pending"
  /\ \A k \in Keys : step[k].status \in Settled => step[k].wake # "pending"

(* What a call is about to reset is failed.                                *)
SeenFailed ==
  \A c \in Callers : call[c].at = "reset" =>
    \A k \in call[c].failed : step[k].status = "failed"

(* Calls come one after the other.                                         *)
OneCall == \A c, d \in Callers : c = d

(* Of the step records, what a worker does is one of these.                *)
WritesOpen(w) ==
  \/ step' = step
  \/ /\ pc[w] \in Locked /\ step[loc[w].key].status \notin Settled
     /\ \E r \in StepRecords :
          /\ r.status \in Settled => r.wake # "pending"
          /\ step' = [step EXCEPT ![loc[w].key] = r]

(* It goes to where it will write only on a record that is not settled.    *)
TakesOpen(w) ==
  /\ Lone(w)
  /\ pc'[w] \in Writing => step'[loc'[w].key].status \notin Settled
  /\ pc'[w] \in Writing \ {"wake"} => loc'[w].rec.status \notin Settled
  /\ pc'[w] = "wake" => step'[loc'[w].key].wake # "pending"
  /\ pc'[w] = "awake" => loc'[w].rec.wake # "pending"

LEMMA MovesOpen ==
  ASSUME TypeOK, NEW w \in Workers, Moves(w)
  PROVE  TakesOpen(w)
  BY DEF Moves, Calm, Go, TypeOK, TakesOpen, Lone, Writing

LEMMA LeavesOpen ==
  ASSUME TypeOK, NEW w \in Workers, Leaves(w), pc'[w] \notin {"wake", "awake"}
  PROVE  TakesOpen(w)
  BY DEF Leaves, TakesOpen, Lone, Writing

(* Such a step of the one worker inside the lock keeps settled records.    *)
LEMMA OpenStep ==
  ASSUME TypeOK, SoleTick, OpenClaims, NEW w \in Workers, WritesOpen(w), TakesOpen(w)
  PROVE  /\ OpenClaims'
         /\ \A k \in Keys : step[k].status \in Settled => step'[k] = step[k]
<1>k. loc[w].key \in Keys /\ \A v \in Workers : loc[v].key \in Keys
  BY DEF TypeOK, Locals
<1>1. CASE step' = step
  BY <1>1 DEF OpenClaims, TakesOpen, Lone
<1>2. ASSUME pc[w] \in Locked, step[loc[w].key].status \notin Settled, NEW r \in StepRecords,
             r.status \in Settled => r.wake # "pending",
             step' = [step EXCEPT ![loc[w].key] = r]
      PROVE  /\ OpenClaims'
             /\ \A k \in Keys : step[k].status \in Settled => step'[k] = step[k]
  <2>1. step'[loc[w].key] = r /\ \A k \in Keys \ {loc[w].key} : step'[k] = step[k]
    BY <1>k, <1>2 DEF TypeOK
  <2>2. \A v \in Workers \ {w} : pc[v] \notin Writing
    BY <1>2 DEF SoleTick, Locked, Writing
  <2>3. \A k \in Keys : step'[k].status \in Settled => step'[k].wake # "pending"
    BY <1>2, <2>1 DEF OpenClaims
  <2>4. ASSUME NEW v \in Workers
        PROVE  /\ pc'[v] \in Writing => step'[loc'[v].key].status \notin Settled
               /\ pc'[v] \in Writing \ {"wake"} => loc'[v].rec.status \notin Settled
               /\ pc'[v] = "wake" => step'[loc'[v].key].wake # "pending"
               /\ pc'[v] = "awake" => loc'[v].rec.wake # "pending"
    <3>1. CASE v = w
      BY <3>1 DEF TakesOpen
    <3>2. CASE v # w
      BY <2>2, <3>2 DEF TakesOpen, Lone, Writing
    <3> QED BY <3>1, <3>2
  <2>5. OpenClaims'
    BY <2>3, <2>4 DEF OpenClaims
  <2> QED BY <1>2, <2>1, <2>5
<1> QED BY <1>1, <1>2 DEF WritesOpen

(* The actions of a worker, one group at a time.                           *)
LEMMA TickOpen ==
  ASSUME TypeOK, NEW w \in Workers,
         \/ Deliver(w) \/ Acquire(w) \/ Contended(w) \/ Begin(w) \/ Release(w)
         \/ Park(w) \/ Return(w) \/ Orphan(w) \/ StallDeath(w) \/ Crash(w) \/ GlueError(w)
         \/ MarkYielded(w) \/ EnterFailure(w) \/ MarkCompensating(w) \/ CompleteRun(w)
         \/ SettleTerminal(w) \/ FailFast(w) \/ CancelRun(w) \/ Refused(w)
  PROVE  WritesOpen(w) /\ TakesOpen(w)
<1>1. step' = step
  BY DEF Deliver, Acquire, Contended, Begin, Release, Park, Return, Orphan, Crash, GlueError,
         StallDeath, MarkYielded, EnterFailure, MarkCompensating, CompleteRun,
         SettleTerminal, FailFast, CancelRun, TerminalAt, Refused, store
<1>2. CASE GlueError(w)
  BY <1>1, <1>2, ClassifyMoves, MovesOpen DEF GlueError, TypeOK, WritesOpen
<1>3. CASE Crash(w)
  BY <1>1, <1>3 DEF Crash, Go, TypeOK, TakesOpen, WritesOpen, Lone, Writing
<1>4. CASE EnterFailure(w) \/ MarkCompensating(w)
  <2>1. loc[w] \in Locals
    BY DEF TypeOK
  <2>2. [loc[w] EXCEPT !.todo = loc[w].regs] \in Locals
    BY <2>1 DEF Locals
  <2>3. Moves(w)
    BY <1>4, <2>1, <2>2, CompensateMoves
       DEF EnterFailure, MarkCompensating, StartCompensation, Moves, Calm, Places, Locked
  <2> QED BY <1>1, <2>3, MovesOpen DEF WritesOpen
<1>5. CASE \/ Deliver(w) \/ Acquire(w) \/ Contended(w) \/ Begin(w) \/ Release(w)
           \/ Park(w) \/ Return(w) \/ Orphan(w) \/ StallDeath(w)
           \/ MarkYielded(w) \/ CompleteRun(w)
           \/ SettleTerminal(w) \/ FailFast(w) \/ CancelRun(w) \/ Refused(w)
  <2>1. pc'[w] \notin {"wake", "awake"}
    BY <1>5 DEF Deliver, Acquire, Contended, Begin, Release, Park, Return, Orphan, StallDeath,
         MarkYielded, CompleteRun, SettleTerminal, FailFast, CancelRun, TerminalAt, Refused,
         Go, TypeOK
  <2>2. Leaves(w)
    BY <1>5, TickLeaves
  <2> QED BY <1>1, <2>1, <2>2, LeavesOpen DEF WritesOpen
<1> QED BY <1>2, <1>3, <1>4, <1>5

LEMMA FreshOpen ==
  ASSUME TypeOK, NEW w \in Workers, FreshStep(w) \/ FreshSleep(w)
  PROVE  WritesOpen(w) /\ TakesOpen(w)
<1> DEFINE k == loc[w].key
<1>k. k \in Keys /\ loc[w] \in Locals /\ pc[w] \in Locked
  BY DEF FreshStep, FreshSleep, Entering, TypeOK, Locals, Locked
<1>n. ASSUME NEW wake \in {"none", "pending", "due"}
      PROVE  /\ NewStep(inst, wake) \in StepRecords
             /\ NewStep(inst, wake).status \notin Settled /\ NewStep(inst, wake).wake = wake
  BY DEF NewStep, StepRecords, TypeOK, Instances, Settled
<1>w. step[k].status \notin Settled
  <2>1. step[k].status = "none"
    BY DEF FreshStep, FreshSleep, Entering, BeginStep, Exists
  <2> QED BY <2>1 DEF Settled
<1>1. CASE FreshSleep(w)
  <2>1. PICK wake \in {"pending", "due"} :
          /\ step' = [step EXCEPT ![k] = NewStep(inst, wake)]
          /\ Yield(w, loc[w]) \/ (wake = "due" /\ Go(w, "wake", loc[w]))
    BY <1>1 DEF FreshSleep
  <2>2. step'[k] = NewStep(inst, wake)
    BY <1>k, <2>1 DEF TypeOK
  <2>3. TakesOpen(w)
    <3>1. CASE Yield(w, loc[w])
      BY <3>1, <1>k, YieldMoves, MovesOpen
    <3>2. CASE wake = "due" /\ Go(w, "wake", loc[w])
      <4>1. /\ pc'[w] = "wake" /\ loc'[w] = loc[w]
            /\ \A v \in Workers \ {w} : pc'[v] = pc[v] /\ loc'[v] = loc[v]
        BY <3>2 DEF Go, TypeOK
      <4> QED BY <1>n, <2>2, <3>2, <4>1 DEF TakesOpen, Lone, Writing
    <3> QED BY <2>1, <3>1, <3>2
  <2> QED BY <1>k, <1>n, <1>w, <2>1, <2>3 DEF WritesOpen
<1>2. CASE FreshStep(w)
  <2> DEFINE r == NewStep(inst, "none")
  <2>1. /\ pc'[w] = "body" /\ loc'[w].key = k /\ step'[k] = r /\ loc'[w].rec = r
        /\ step' = [step EXCEPT ![k] = r]
        /\ \A v \in Workers \ {w} : pc'[v] = pc[v] /\ loc'[v] = loc[v]
    BY <1>2, <1>k DEF FreshStep, Go, TypeOK, Locals
  <2>2. r \in StepRecords /\ r.status \notin Settled
    BY <1>n
  <2> HIDE DEF r
  <2> QED BY <1>k, <1>w, <2>1, <2>2 DEF WritesOpen, TakesOpen, Lone, Writing
<1> QED BY <1>1, <1>2

LEMMA ReplayOpen ==
  ASSUME TypeOK, NEW w \in Workers, ReplaySettled(w) \/ ExistingStep(w)
  PROVE  WritesOpen(w) /\ TakesOpen(w)
<1> DEFINE mem == loc[w]
           k == loc[w].key
<1>m. mem \in Locals /\ Register(mem) \in Locals /\ k \in Keys /\ step[k] \in StepRecords
  BY RegisterType DEF TypeOK, Locals
<1>u. step' = step
  BY DEF ReplaySettled, ExistingStep, store
<1>1. ASSUME Advance(w, Register(mem)) \/ StepFailed(w, mem) \/ Yield(w, mem)
      PROVE  TakesOpen(w)
  BY <1>1, <1>m, AdvanceMoves, StepFailedMoves, YieldMoves, MovesOpen
<1>2. ASSUME Go(w, "enter", mem)
      PROVE  TakesOpen(w)
  BY <1>2, <1>m, MovesOpen DEF Moves, Calm, Places, Locked
<1>3. ASSUME Resumable(k, step[k]), Go(w, "wake", mem)
      PROVE  TakesOpen(w)
  <2>1. /\ pc'[w] = "wake" /\ loc'[w] = mem
        /\ \A v \in Workers \ {w} : pc'[v] = pc[v] /\ loc'[v] = loc[v]
    BY <1>3 DEF Go, TypeOK
  <2> QED BY <1>3, <1>u, <2>1 DEF TakesOpen, Lone, Resumable, MustWait, Settled,
                                        Writing
<1>4. ASSUME Resumable(k, step[k]),
             Go(w, "claim", [mem EXCEPT !.rec = [step[k] EXCEPT !.attempts = @ + 1,
                                                               !.wake = "none"]])
      PROVE  TakesOpen(w)
  <2> DEFINE rec == [step[k] EXCEPT !.attempts = @ + 1, !.wake = "none"]
  <2>1. rec.status = step[k].status
    BY <1>m DEF StepRecords
  <2>2. /\ pc'[w] = "claim" /\ loc'[w].key = k /\ loc'[w].rec = rec
        /\ \A v \in Workers \ {w} : pc'[v] = pc[v] /\ loc'[v] = loc[v]
    BY <1>4, <1>m DEF Go, TypeOK, Locals
  <2>3. step'[k].status = "running" /\ rec.status = "running"
    BY <1>4, <1>u, <2>1 DEF Resumable
  <2> HIDE DEF rec
  <2> QED BY <2>2, <2>3 DEF TakesOpen, Lone, Settled, Writing
<1>5. TakesOpen(w)
  BY <1>1, <1>2, <1>3, <1>4 DEF ReplaySettled, ExistingStep
<1> QED BY <1>u, <1>5 DEF WritesOpen

LEMMA BodyOpen ==
  ASSUME TypeOK, OpenClaims, NEW w \in Workers,
         ReadSleep(w) \/ WakeUp(w) \/ ClaimAttempt(w) \/ RunBody(w)
  PROVE  WritesOpen(w) /\ TakesOpen(w)
<1> DEFINE k == loc[w].key
<1>k. k \in Keys /\ loc[w] \in Locals /\ loc[w].rec \in StepRecords /\ step[k] \in StepRecords
  BY DEF TypeOK, Locals
<1>1. CASE WakeUp(w)
  <2> DEFINE r == [loc[w].rec EXCEPT !.status = "completed"]
  <2>1. r \in StepRecords /\ r.wake = loc[w].rec.wake
    BY <1>k DEF StepRecords
  <2>2. /\ step' = [step EXCEPT ![k] = r] /\ loc[w].rec.wake # "pending" /\ pc[w] \in Locked
        /\ step[k].status \notin Settled
    BY <1>1 DEF WakeUp, OpenClaims, Locked, Writing
  <2>3. TakesOpen(w)
    BY <1>1, <1>k, AdvanceMoves, MovesOpen DEF WakeUp
  <2> HIDE DEF r
  <2> QED BY <2>1, <2>2, <2>3 DEF WritesOpen
<1>2. CASE ClaimAttempt(w)
  <2>1. /\ pc[w] = "claim" /\ step' = [step EXCEPT ![k] = loc[w].rec]
        /\ pc'[w] = "body" /\ loc'[w].key = k /\ step'[k] = loc[w].rec
        /\ loc'[w].rec = loc[w].rec
        /\ \A v \in Workers \ {w} : pc'[v] = pc[v] /\ loc'[v] = loc[v]
    BY <1>2, <1>k DEF ClaimAttempt, Go, TypeOK
  <2>2. loc[w].rec.status \notin Settled /\ step[k].status \notin Settled
    BY <2>1 DEF OpenClaims, Writing
  <2> QED BY <1>k, <2>1, <2>2 DEF WritesOpen, TakesOpen, Lone, Locked, Writing
<1>3. CASE RunBody(w)
  <2>1. /\ pc[w] = "body" /\ step' = step
        /\ pc'[w] = "save" /\ loc'[w].key = k /\ loc'[w].rec = loc[w].rec
        /\ \A v \in Workers \ {w} : pc'[v] = pc[v] /\ loc'[v] = loc[v]
    BY <1>3, <1>k DEF RunBody, Go, TypeOK, Locals, store
  <2> QED BY <2>1 DEF OpenClaims, WritesOpen, TakesOpen, Lone, Writing
<1>4. CASE ReadSleep(w)
  <2>1. pc[w] = "wake" /\ step' = step
    BY <1>4 DEF ReadSleep, store
  <2>2. step[k].status \notin Settled /\ step[k].wake # "pending"
    BY <2>1 DEF OpenClaims, Writing
  <2>3. CASE Advance(w, loc[w])
    BY <1>k, <2>1, <2>3, AdvanceMoves, MovesOpen DEF WritesOpen
  <2>4. CASE Go(w, "awake", [loc[w] EXCEPT !.rec = step[k]])
    <3>1. /\ pc'[w] = "awake" /\ loc'[w].key = k /\ loc'[w].rec = step[k]
          /\ \A v \in Workers \ {w} : pc'[v] = pc[v] /\ loc'[v] = loc[v]
      BY <1>k, <2>4 DEF Go, TypeOK, Locals
    <3> QED BY <2>1, <2>2, <3>1 DEF WritesOpen, TakesOpen, Lone, Writing
  <2> QED BY <1>4, <2>3, <2>4 DEF ReadSleep
<1> QED BY <1>1, <1>2, <1>3, <1>4

LEMMA SaveOpen ==
  ASSUME TypeOK, OpenClaims, NEW w \in Workers,
         SaveResult(w) \/ SaveRetry(w) \/ SaveFailure(w)
  PROVE  WritesOpen(w) /\ TakesOpen(w)
<1> DEFINE k == loc[w].key
           mem == [loc[w] EXCEPT !.result = "none"]
<1>k. k \in Keys /\ loc[w] \in Locals /\ loc[w].rec \in StepRecords
  BY DEF TypeOK, Locals
<1>m. mem \in Locals /\ Register(mem) \in Locals
  <2>1. mem \in Locals
    BY <1>k DEF Locals
  <2> QED BY <2>1, RegisterType
<1>s. /\ pc[w] = "save" /\ pc[w] \in Locked
      /\ step[k].status \notin Settled /\ loc[w].rec.status \notin Settled
  BY DEF SaveResult, SaveRetry, SaveFailure, OpenClaims, Locked, Writing
<1>w. ASSUME NEW status \in {"running", "completed", "failed"}, NEW wake \in {"none", "pending"},
             Saved(w, status, wake), status \in Settled => wake = "none"
      PROVE  WritesOpen(w) /\ step'[k].status = status
  <2> DEFINE r == [loc[w].rec EXCEPT !.status = status, !.wake = wake]
  <2>1. r \in StepRecords /\ r.status = status /\ r.wake = wake
    BY <1>k DEF StepRecords
  <2>2. step' = [step EXCEPT ![k] = r]
    BY <1>w DEF Saved
  <2> HIDE DEF r
  <2>3. step'[k] = r
    BY <1>k, <2>2 DEF TypeOK
  <2> QED BY <1>s, <1>w, <2>1, <2>2, <2>3 DEF WritesOpen
<1>1. CASE SaveResult(w)
  BY <1>1, <1>m, <1>w, AdvanceMoves, MovesOpen DEF SaveResult
<1>2. CASE SaveFailure(w)
  BY <1>2, <1>m, <1>w, StepFailedMoves, MovesOpen DEF SaveFailure
<1>3. CASE SaveRetry(w)
  <2>1. CASE Saved(w, "running", "pending") /\ Yield(w, mem)
    BY <1>m, <1>w, <2>1, YieldMoves, MovesOpen DEF Settled
  <2>2. CASE /\ Saved(w, "running", "none")
             /\ Go(w, "claim", [mem EXCEPT !.rec.attempts = @ + 1])
    <3>1. step'[k].status = "running" /\ WritesOpen(w)
      BY <1>w, <2>2
    <3>2. /\ pc'[w] = "claim" /\ loc'[w].key = k /\ loc'[w].rec.status = loc[w].rec.status
          /\ \A v \in Workers \ {w} : pc'[v] = pc[v] /\ loc'[v] = loc[v]
      BY <1>k, <2>2 DEF Go, TypeOK, Locals, StepRecords
    <3> QED BY <1>s, <3>1, <3>2 DEF TakesOpen, Lone, Settled, Writing
  <2> QED BY <1>3, <2>1, <2>2 DEF SaveRetry
<1> QED BY <1>1, <1>2, <1>3

(* Everything else leaves the records alone, but for the clock, which      *)
(* moves on only what waits.                                               *)
LEMMA SurroundingsOpen ==
  ASSUME TypeOK, OpenClaims,
         \/ LockExpires \/ JobLockLapses \/ StallRecover \/ DelayOver \/ Promote
         \/ RetryJob \/ ExternalCancel \/ RemoveCarrier \/ UNCHANGED vars
         \/ \E k \in Keys : WakeTimeReached(k)
  PROVE  /\ OpenClaims'
         /\ \A k \in Keys : step[k].status \in Settled => step'[k] = step[k]
<1>1. UNCHANGED <<pc, loc>>
  BY DEF LockExpires, JobLockLapses, StallRecover, DelayOver, Promote, RetryJob,
         ExternalCancel, RemoveCarrier, WakeTimeReached, vars
<1>2. ASSUME NEW k \in Keys, WakeTimeReached(k)
      PROVE  \A j \in Keys :
               \/ step'[j] = step[j]
               \/ step[j].wake = "pending" /\ step'[j] = [step[j] EXCEPT !.wake = "due"]
  BY <1>2 DEF WakeTimeReached, TypeOK
<1>3. \A j \in Keys :
        \/ step'[j] = step[j]
        \/ step[j].wake = "pending" /\ step'[j] = [step[j] EXCEPT !.wake = "due"]
  BY <1>2 DEF LockExpires, JobLockLapses, StallRecover, DelayOver, Promote, RetryJob,
              ExternalCancel, RemoveCarrier, vars, store
<1>4. \A j \in Keys : /\ step'[j].wake = "pending" => step[j].wake = "pending"
                      /\ step[j].wake # "pending" => step'[j] = step[j]
                      /\ step'[j].status = step[j].status
  <2>1. \A j \in Keys : step[j] \in StepRecords
    BY DEF TypeOK
  <2>2. ASSUME NEW j \in Keys
        PROVE  LET due == [step[j] EXCEPT !.wake = "due"]
               IN  due.wake = "due" /\ due.status = step[j].status
    BY <2>1 DEF StepRecords
  <2> QED BY <1>3, <2>2
<1>5. \A v \in Workers : loc[v].key \in Keys
  BY DEF TypeOK, Locals
<1>6. OpenClaims'
  BY <1>1, <1>4, <1>5 DEF OpenClaims
<1> QED BY <1>4, <1>6 DEF OpenClaims

LEMMA OpenInductive ==
  ASSUME TypeOK, SoleTick, OpenClaims, [Next]_vars
  PROVE  /\ OpenClaims'
         /\ \A k \in Keys : step[k].status \in Settled => step'[k] = step[k]
<1>1. ASSUME NEW w \in Workers,
             Work(w) \/ Deliver(w) \/ StallDeath(w) \/ GlueError(w) \/ Crash(w)
      PROVE  WritesOpen(w) /\ TakesOpen(w)
  BY <1>1, TickOpen, FreshOpen, ReplayOpen, BodyOpen, SaveOpen DEF Work
<1>2. ASSUME NEW w \in Workers, WritesOpen(w) /\ TakesOpen(w)
      PROVE  /\ OpenClaims'
             /\ \A k \in Keys : step[k].status \in Settled => step'[k] = step[k]
  BY <1>2, OpenStep
<1> QED BY <1>1, <1>2, SurroundingsOpen DEF Next


---------------------------------------------------------------------------
(* The lock.  No call touches it, so that it is enough by itself.          *)

(* A worker that neither takes nor loses the lock.                         *)
LockStays(w) ==
  /\ Lone(w) /\ lock' = lock
  /\ pc[w] \in Locked \/ pc'[w] \notin Locked

LEMMA LockStaysSole ==
  ASSUME SoleTick, NEW w \in Workers, LockStays(w), faults'["lockLapse"] = 0
  PROVE  SoleTick'
  BY DEF SoleTick, LockStays, Lone

LEMMA WorkerSole ==
  ASSUME TypeOK, SoleTick, NEW w \in Workers,
         Work(w) \/ Deliver(w) \/ StallDeath(w) \/ GlueError(w) \/ Crash(w),
         faults'["lockLapse"] = 0
  PROVE  SoleTick'
<1>a. Lone(w)
  BY WorkersAlone
<1>1. CASE Acquire(w)
  <2>1. lock' = w /\ \A v \in Workers : pc[v] \notin Locked
    BY <1>1, TokenAssumption DEF Acquire, SoleTick
  <2> QED BY <1>a, <2>1 DEF Lone, SoleTick
<1>2. CASE Release(w) \/ Crash(w)
  <2>1. pc'[w] \notin Locked
    BY <1>2 DEF Release, Crash, Go, TypeOK, Locked
  <2>2. \A v \in Workers \ {w} : pc[v] \in Locked => lock' = lock
    BY <1>2 DEF Release, Crash, SoleTick
  <2> QED BY <1>a, <2>1, <2>2 DEF Lone, SoleTick
<1>3. CASE ~Acquire(w) /\ ~Release(w) /\ ~Crash(w)
  <2>1. lock' = lock
    BY <1>3 DEF Work, Deliver, StallDeath, GlueError, Contended, Begin, Park, Return, Orphan,
         ReplaySettled, Refused, FreshStep, FreshSleep, ExistingStep, ReadSleep, WakeUp,
         ClaimAttempt, RunBody, SaveResult, SaveRetry, SaveFailure, MarkYielded, EnterFailure,
         MarkCompensating, CompleteRun, SettleTerminal, FailFast, CancelRun, TerminalAt, store
  <2>2. CASE Deliver(w) \/ StallDeath(w) \/ Contended(w) \/ Park(w) \/ Return(w) \/ Orphan(w)
    <3>1. pc'[w] \notin Locked
      BY <2>2 DEF Deliver, StallDeath, Contended, Park, Return, Orphan, Go, TypeOK, Locked
    <3> QED BY <1>a, <2>1, <3>1, LockStaysSole DEF LockStays
  <2>3. CASE ~(Deliver(w) \/ StallDeath(w) \/ Contended(w) \/ Park(w) \/ Return(w) \/ Orphan(w))
    <3>1. pc[w] \in Locked
      BY <1>3, <2>3 DEF Work, GlueError, Begin, ReplaySettled, Refused, Entering, FreshStep,
           FreshSleep, ExistingStep, ReadSleep, WakeUp, ClaimAttempt, RunBody, SaveResult,
           SaveRetry,
           SaveFailure, MarkYielded, EnterFailure, MarkCompensating, CompleteRun,
           SettleTerminal, FailFast, CancelRun, TerminalAt, Locked
    <3> QED BY <1>a, <2>1, <3>1, LockStaysSole DEF LockStays
  <2> QED BY <2>2, <2>3
<1> QED BY <1>1, <1>2, <1>3

LEMMA SoleStep ==
  ASSUME TypeOK, SoleTick, [Next]_vars
  PROVE  SoleTick'
<1>f. faults'["lockLapse"] = 0
  BY FaultsShrink DEF SoleTick, Faults
<1>1. CASE LockExpires
  <2>1. lock = Lost /\ pc' = pc
    BY <1>1 DEF LockExpires, Strike, SoleTick
  <2>2. \A w \in Workers : pc[w] \notin Locked
    BY <2>1, TokenAssumption DEF SoleTick
  <2> QED BY <1>f, <2>1, <2>2 DEF SoleTick
<1>2. CASE JobLockLapses \/ StallRecover \/ DelayOver \/ Promote \/ RetryJob
           \/ ExternalCancel \/ RemoveCarrier \/ UNCHANGED vars
           \/ \E k \in Keys : WakeTimeReached(k)
  <2>1. lock' = lock /\ pc' = pc
    BY <1>2 DEF JobLockLapses, StallRecover, DelayOver, Promote, RetryJob, ExternalCancel,
         RemoveCarrier, WakeTimeReached, vars, store
  <2> QED BY <1>f, <2>1 DEF SoleTick
<1>3. ASSUME NEW w \in Workers,
             Work(w) \/ Deliver(w) \/ StallDeath(w) \/ GlueError(w) \/ Crash(w)
      PROVE  SoleTick'
  BY <1>3, <1>f, WorkerSole
<1> QED BY <1>1, <1>2, <1>3 DEF Next

---------------------------------------------------------------------------
(* The calls.                                                              *)

(* A call of a handle, or what happens around it.                          *)
Around ==
  \/ \E c \in Callers : \/ \E op \in Ops : Call(c, op)
                        \/ CallStep(c) \/ CallerDies(c)
  \/ JobPruned

(* None of it runs in a worker.                                            *)
LEMMA WorkersStay ==
  ASSUME Around
  PROVE  UNCHANGED <<lock, pc, loc, faults>>
  BY DEF Around, Call, CallStep, CallerDies, JobPruned, ReadSteps, ResetSteps, Reopen,
         FindCarrier, ReadJobState, ReviveJob, MarkCancelled, RemoveJob, ForgetRun, vars, store

(* A deleted state is deleted for good.                                    *)
LEMMA ForgottenStays ==
  ASSUME [ActionsNext]_allVars
  PROVE  forgotten' = forgotten \/ (forgotten' = TRUE /\ Around)
<1>1. CASE Around
  BY <1>1 DEF Around, Call, CallStep, CallerDies, JobPruned, ReadSteps, ResetSteps, Reopen,
              FindCarrier, ReadJobState, ReviveJob, MarkCancelled, RemoveJob, ForgetRun
<1> QED BY <1>1 DEF ActionsNext, Around, actionVars, allVars

LEMMA CallTypes ==
  ASSUME TypeOK, call \in [Callers -> CallStates], left \in Nat, Around
  PROVE  TypeOK' /\ call' \in [Callers -> CallStates] /\ left' \in Nat
<1>j. job \in Jobs(Keys \cup {Soon}) /\ inst \in Instances
  BY DEF TypeOK
<1>1. inst' \in Instances
  <2>1. UpdateStatus(inst, "running") \in Instances
        /\ UpdateStatus(inst, "compensating") \in Instances
        /\ Finish(inst, "cancelled") \in Instances /\ NoInstance \in Instances
    BY <1>j, InstanceTypes DEF Live, Terminal, NoInstance, Instances
  <2> QED BY <1>j, <2>1 DEF Around, Call, CallStep, CallerDies, JobPruned, ReadSteps,
        ResetSteps, Reopen, Reentered, FindCarrier, ReadJobState, ReviveJob, MarkCancelled,
        RemoveJob, ForgetRun, vars, store
<1>2. step' \in [Keys -> StepRecords]
  <2>1. NoStep \in StepRecords
    BY DEF NoStep, StepRecords
  <2> QED BY <2>1 DEF TypeOK, Around, Call, CallStep, CallerDies, JobPruned, ReadSteps,
        ResetSteps, Reopen, FindCarrier, ReadJobState, ReviveJob, MarkCancelled,
        RemoveJob, ForgetRun, vars, store
<1>3. job' \in Jobs(Keys \cup {Soon})
  <2>1. /\ Requeued(job) \in Jobs(Keys \cup {Soon}) /\ Gone(job) \in Jobs(Keys \cup {Soon})
        /\ NewJob \in Jobs(Keys \cup {Soon})
    BY <1>j, JobTypes DEF NewJob, Jobs, JobStates
  <2> QED BY <1>j, <2>1 DEF Around, Call, CallStep, CallerDies, JobPruned, ReadSteps,
        ResetSteps, Reopen, FindCarrier, ReadJobState, ReviveJob, MarkCancelled,
        RemoveJob, ForgetRun, vars, store
<1>4. removing' = removing
  <2>1. ASSUME NEW c \in Callers, CallStep(c)
        PROVE  removing' = removing
    BY <2>1 DEF CallStep, ReadSteps, ResetSteps, Reopen, FindCarrier, ReadJobState, ReviveJob,
                MarkCancelled, RemoveJob, ForgetRun, vars
  <2> QED BY <2>1 DEF Around, Call, CallerDies, JobPruned, vars
<1>5. left' \in Nat
  <2>1. ASSUME NEW c \in Callers, CallStep(c)
        PROVE  left' = left
    BY <2>1 DEF CallStep, ReadSteps, ResetSteps, Reopen, FindCarrier, ReadJobState, ReviveJob,
                MarkCancelled, RemoveJob, ForgetRun
  <2>2. ASSUME NEW what, Take(what)
        PROVE  left' \in Nat
    BY <2>2 DEF Take
  <2> QED BY <2>1, <2>2 DEF Around, Call, CallerDies, JobPruned
<1>6. call' \in [Callers -> CallStates]
  <2>n. NoCall \in CallStates
    BY DEF NoCall, CallStates, Ops
  <2>r. \A c \in Callers : call[c] \in CallStates
    OBVIOUS
  <2>c. ASSUME NEW c \in Callers
        PROVE  /\ call[c] \in CallStates
               /\ \A at \in {"none", "steps", "reset", "mark", "carrier", "state", "revive",
                             "cancel", "remove", "forget", "done", "thrown"} :
                    [call[c] EXCEPT !.at = at] \in CallStates
    BY DEF CallStates
  <2>1. CASE JobPruned
    BY <2>1 DEF JobPruned
  <2>2. ASSUME NEW c \in Callers, NEW op \in Ops, Call(c, op)
        PROVE  call' \in [Callers -> CallStates]
    <3>1. FirstCall(op) \in {"carrier", "steps", "cancel", "remove"}
      BY DEF FirstCall, Ops
    <3>2. [NoCall EXCEPT !.op = op, !.at = FirstCall(op)] \in CallStates
      BY <2>n, <3>1 DEF CallStates
    <3> QED BY <2>2, <3>2 DEF Call, Enter
  <2>3. ASSUME NEW c \in Callers, CallerDies(c)
        PROVE  call' \in [Callers -> CallStates]
    BY <2>n, <2>3 DEF CallerDies, Enter
  <2>4. ASSUME NEW c \in Callers, ReadSteps(c)
        PROVE  call' \in [Callers -> CallStates]
    <3>1. ASSUME NEW S \in SUBSET Keys
          PROVE  [call[c] EXCEPT !.at = "reset", !.failed = S] \in CallStates
      <4>1. call[c] \in CallStates
        BY <2>r
      <4> QED BY <4>1 DEF CallStates
    <3>2. Resets(call[c].op) \in SUBSET Keys
      BY DEF Resets
    <3> QED BY <2>4, <3>1, <3>2 DEF ReadSteps, Enter
  <2>5. ASSUME NEW c \in Callers, FindCarrier(c) \/ ReadJobState(c)
        PROVE  call' \in [Callers -> CallStates]
    <3>1. ASSUME NEW seen \in JobStates \cup {"unknown"}
          PROVE  [call[c] EXCEPT !.at = "revive", !.seen = seen] \in CallStates
      <4>1. call[c] \in CallStates
        BY <2>r
      <4> QED BY <4>1 DEF CallStates
    <3>2. job.state \in JobStates
      BY <1>j DEF Jobs
    <3>3. [call[c] EXCEPT !.at = "state"] \in CallStates
      BY <2>c
    <3>4. "gone" \in JobStates
      BY DEF JobStates
    <3>5. \E rec \in CallStates : Enter(c, rec)
      BY <2>5, <3>1, <3>2, <3>3, <3>4 DEF FindCarrier, ReadJobState
    <3> QED BY <3>5 DEF Enter
  <2>6. ASSUME NEW c \in Callers,
               \/ ResetSteps(c) \/ Reopen(c) \/ ReviveJob(c) \/ MarkCancelled(c)
               \/ RemoveJob(c) \/ ForgetRun(c)
        PROVE  call' \in [Callers -> CallStates]
    BY <2>c, <2>6 DEF ResetSteps, Reopen, ReviveJob, MarkCancelled, RemoveJob, ForgetRun,
                      At, Enter
  <2> QED BY <2>1, <2>2, <2>3, <2>4, <2>5, <2>6 DEF Around, CallStep
<1> QED BY <1>1, <1>2, <1>3, <1>4, <1>5, <1>6, WorkersStay DEF TypeOK

LEMMA ActionsTypeStep ==
  ASSUME ActionsTypeOK, [ActionsNext]_allVars
  PROVE  ActionsTypeOK'
<1> USE DEF ActionsTypeOK
<1>1. CASE [Next]_vars /\ UNCHANGED actionVars
  BY <1>1, NextType DEF actionVars
<1>2. CASE Around
  BY <1>2, CallTypes, ForgottenStays
<1> QED BY <1>1, <1>2 DEF ActionsNext, Around, allVars

(* Type correctness, with the calls: whatever an operator does through the *)
(* handle of run.ts leaves in the store what a tick expects to find.       *)
THEOREM ActionsTyped == ActionsSpec => []ActionsTypeOK
<1>1. ActionsInit => ActionsTypeOK
  <2>1. NoCall \in CallStates
    BY DEF NoCall, CallStates, Ops
  <2> QED BY <2>1, InitType, AllowanceAssumption DEF ActionsInit, ActionsTypeOK
<1>2. ActionsTypeOK /\ [ActionsNext]_allVars => ActionsTypeOK'
  BY ActionsTypeStep
<1> QED BY <1>1, <1>2, PTL DEF ActionsSpec

---------------------------------------------------------------------------
(* What is completed stays.                                                *)

ActionsInv == ActionsTypeOK /\ SoleTick /\ OpenClaims /\ SeenFailed

(* A call leaves a completed record alone unless it deletes the run, and   *)
(* what it means to reset is failed.                                       *)
LEMMA CallOpen ==
  ASSUME OneCall, ActionsInv, Around
  PROVE  /\ OpenClaims' /\ SeenFailed'
         /\ \A k \in Keys : step[k].status = "completed" =>
              \/ step'[k] = step[k]
              \/ \E c \in Callers : call[c].at = "forget" /\ call'[c].at = "done"
<1> USE DEF ActionsInv, ActionsTypeOK
<1>w. UNCHANGED <<pc, loc>> /\ \A w \in Workers : loc[w].key \in Keys
  BY WorkersStay DEF TypeOK, Locals
<1>o. \A c, d \in Callers : c = d
  BY DEF OneCall
<1>n. NoStep.status \notin Settled /\ NoStep.wake = "none"
  BY DEF NoStep, Settled
<1>1. ASSUME NEW c \in Callers, ResetSteps(c)
      PROVE  /\ OpenClaims' /\ SeenFailed'
             /\ \A k \in Keys : step[k].status = "completed" => step'[k] = step[k]
  <2>1. \A k \in Keys : step'[k] = IF k \in call[c].failed THEN NoStep ELSE step[k]
    BY <1>1 DEF ResetSteps
  <2>2. \A k \in call[c].failed : step[k].status = "failed"
    BY <1>1 DEF ResetSteps, SeenFailed
  <2>3. OpenClaims'
    BY <1>n, <1>w, <2>1 DEF OpenClaims
  <2>4. call'[c].at = "mark"
    BY <1>1 DEF ResetSteps, At, Enter, CallStates
  <2> QED BY <1>o, <2>1, <2>2, <2>3, <2>4 DEF SeenFailed
<1>2. ASSUME NEW c \in Callers, ForgetRun(c)
      PROVE  /\ OpenClaims' /\ SeenFailed'
             /\ call[c].at = "forget" /\ call'[c].at = "done"
  <2>1. \A k \in Keys : step'[k] = NoStep
    BY <1>2 DEF ForgetRun
  <2>2. OpenClaims'
    BY <1>n, <1>w, <2>1 DEF OpenClaims
  <2>3. call[c].at = "forget" /\ call'[c].at = "done"
    BY <1>2 DEF ForgetRun, At, Enter, CallStates
  <2> QED BY <1>o, <2>2, <2>3 DEF SeenFailed
<1>3. ASSUME step' = step
      PROVE  OpenClaims'
  BY <1>w, <1>3 DEF OpenClaims
<1>4. ASSUME NEW c \in Callers, ReadSteps(c)
      PROVE  step' = step /\ SeenFailed'
  <2>1. step' = step /\ call'[c].failed = Resets(call[c].op)
    BY <1>4 DEF ReadSteps, Enter, CallStates, vars
  <2> QED BY <1>o, <2>1 DEF SeenFailed, Resets
<1>5. ASSUME NEW c \in Callers,
             \/ \E op \in Ops : Call(c, op)
             \/ CallerDies(c) \/ Reopen(c) \/ FindCarrier(c) \/ ReadJobState(c) \/ ReviveJob(c)
             \/ MarkCancelled(c) \/ RemoveJob(c)
      PROVE  step' = step /\ SeenFailed'
  <2>1. step' = step
    BY <1>5 DEF Call, CallerDies, Reopen, FindCarrier, ReadJobState, ReviveJob,
                MarkCancelled, RemoveJob, vars, store
  <2>2. call'[c].at # "reset"
    <3>1. CASE (\E op \in Ops : Call(c, op)) \/ CallerDies(c)
      <4>1. \A op \in Ops : FirstCall(op) # "reset"
        BY DEF FirstCall, Ops
      <4>2. \A op \in Ops : [NoCall EXCEPT !.op = op, !.at = FirstCall(op)].at # "reset"
        BY <4>1 DEF NoCall
      <4>3. \E rec : rec.at # "reset" /\ Enter(c, rec)
        BY <3>1, <4>2 DEF Call, CallerDies, NoCall
      <4> QED BY <4>3 DEF Enter
    <3>2. CASE FindCarrier(c) \/ ReadJobState(c)
      BY <3>2 DEF FindCarrier, ReadJobState, Enter, CallStates
    <3>3. CASE Reopen(c) \/ ReviveJob(c) \/ MarkCancelled(c) \/ RemoveJob(c)
      <4>1. PICK place \in {"carrier", "done", "thrown", "remove", "forget"} : At(c, place)
        BY <3>3 DEF Reopen, ReviveJob, MarkCancelled, RemoveJob
      <4> QED BY <4>1 DEF At, Enter, CallStates
    <3> QED BY <1>5, <3>1, <3>2, <3>3
  <2> QED BY <1>o, <2>1, <2>2 DEF SeenFailed
<1>6. CASE JobPruned
  BY <1>3, <1>6 DEF JobPruned, SeenFailed, store
<1> QED BY <1>1, <1>2, <1>3, <1>4, <1>5, <1>6 DEF Around, CallStep

LEMMA ActionsStep ==
  ASSUME OneCall, ActionsInv, [ActionsNext]_allVars
  PROVE  /\ ActionsInv'
         /\ \A k \in Keys : step[k].status = "completed" =>
              \/ step'[k] = step[k]
              \/ \E c \in Callers : call[c].at = "forget" /\ call'[c].at = "done"
<1> USE DEF ActionsInv
<1>t. ActionsTypeOK' /\ TypeOK
  BY ActionsTypeStep DEF ActionsTypeOK
<1>1. CASE [Next]_vars /\ UNCHANGED actionVars
  <2>1. SoleTick'
    BY <1>1, <1>t, SoleStep
  <2>2. /\ OpenClaims'
        /\ \A k \in Keys : step[k].status \in Settled => step'[k] = step[k]
    BY <1>1, <1>t, OpenInductive
  <2>3. SeenFailed'
    BY <1>1, <2>2 DEF SeenFailed, actionVars, Settled, ActionsTypeOK, CallStates
  <2> QED BY <1>t, <2>1, <2>2, <2>3 DEF Settled
<1>2. CASE Around
  <2>1. SoleTick'
    BY <1>2, WorkersStay DEF SoleTick
  <2> QED BY <1>t, <1>2, <2>1, CallOpen
<1> QED BY <1>1, <1>2 DEF ActionsNext, Around, allVars

(* It holds at first.                                                     *)
LEMMA ActionsBegin ==
  ASSUME Budget["lockLapse"] = 0, ActionsInit
  PROVE  ActionsInv
<1>1. NoCall \in CallStates
  BY DEF NoCall, CallStates, Ops
<1>2. SoleTick /\ OpenClaims
  BY SoleInit DEF ActionsInit, Init, OpenClaims, Claims, Settled, Writing, NoStep
<1> QED BY <1>1, <1>2, InitType, AllowanceAssumption
        DEF ActionsInit, ActionsTypeOK, ActionsInv, SeenFailed, NoCall

(* A retry goes on from the failure point: while calls come one after the  *)
(* other and the instance lock does not lapse, a completed step or         *)
(* rollback keeps its record until the run is deleted, whatever is called  *)
(* and wherever a caller or a worker dies (run.ts).                        *)
THEOREM CompletedKept ==
  ASSUME Budget["lockLapse"] = 0, OneCall
  PROVE  ActionsSpec => DoneStays
<1>1. ActionsInit => ActionsInv
  BY ActionsBegin
<1>2. ActionsInv /\ [ActionsNext]_allVars => ActionsInv'
  BY ActionsStep
<1>3. ActionsInv /\ [ActionsNext]_allVars =>
        [\A k \in Keys : step[k].status = "completed" =>
           \/ step'[k] = step[k]
           \/ \E c \in Callers : call[c].at = "forget" /\ call'[c].at = "done"]_allVars
  BY ActionsStep
<1> QED BY <1>1, <1>2, <1>3, PTL DEF ActionsSpec, DoneStays

---------------------------------------------------------------------------
(* What the status says of the rollbacks.                                  *)

(* Completed steps with a rollback, and those that were undone.            *)
Due == {j \in Undoable : step[Main(j)].status = "completed"}
Undone(j) == step[Undo(j)].status = "completed"

(* The processor can be at step i.                                         *)
Passed(i) ==
  \A j \in 1..(i - 1) : \/ step[Main(j)].status = "completed"
                        \/ j \in Optional /\ step[Main(j)].status = "failed"

(* A replay gets to every step that still has to be undone: a retry, which *)
(* opens gaps among the records, begins where all are undone.              *)
Reached == \A j \in Due : Passed(j) \/ Undone(j)

(* What a tick's memory says of the rollbacks.  In the processor:          *)
Ahead(m) ==
  /\ m.todo = {} /\ ~m.undoFailed /\ m.regs \subseteq Due
  /\ Passed(m.key[2]) /\ \A j \in Due : j < m.key[2] => j \in m.regs

(* When the processor is left:                                             *)
Gathered(m) ==
  /\ m.todo = {} /\ ~m.undoFailed /\ m.regs \subseteq Due
  /\ \A j \in Due : j \in m.regs \/ Undone(j)

(* In the failure sequence, with a report of what is over.                 *)
Reports(m) ==
  /\ m.todo \subseteq Due
  /\ \A j \in Due \ m.todo : Undone(j) \/ m.undoFailed
  /\ m.undoFailed => \E j \in Due \ m.todo : step[Undo(j)].status = "failed"

OnStep(m) ==
  \/ m.key[1] = "main" /\ Ahead(m)
  \/ m.key[1] = "compensation" /\ Reports(m) /\ m.key[2] \in m.todo
  \/ m.key[1] = "failure" /\ Reports(m) /\ m.todo = {}

(* The memory m of a tick at place p.                                      *)
Knows(p, m) ==
  /\ p \in {"orphan", "acquire", "begin"} =>
       m.key = Main(1) /\ m.regs = {} /\ m.todo = {} /\ ~m.undoFailed
  /\ p \in {"step"} \cup Writing => OnStep(m)
  /\ p \in {"wake", "awake"} => IsSleep(m.key) /\ step[m.key].status = "running"
  /\ p \in {"enter", "mark"} => Gathered(m)
  /\ p = "failfast" => \A j \in Due : Undone(j)
  /\ p = "settle" => Reports(m) /\ m.todo = {}

KnowingTicks == \A w \in Workers : Knows(pc[w], loc[w])

(* No tick works on a run whose rollbacks are over.                        *)
Resting == \A w \in Workers : pc[w] \notin Driving
RestsFailed == inst.status \in {"failed", "compensation_failed"} => Resting

(* What a call may rely on until it has reopened the run.                  *)
Reopening ==
  \A c \in Callers :
    /\ call[c].at \in {"steps", "reset", "mark"} =>
         /\ inst.status \in Terminal /\ Resting
         /\ call[c].op \in {"retry", "retryCompensation"}
         /\ call[c].op = "retry" => \A j \in Due : Undone(j)
    /\ call[c].at = "reset" /\ call[c].op = "retryCompensation" =>
         \A k \in call[c].failed : k[1] # "main"

(* The processor does not throw between two steps.                         *)
NoGlueErrors == faults["transient"] = 0 /\ faults["fatal"] = 0

(* Once the state was deleted the rest is of no interest.                  *)
TruthInv ==
  /\ ActionsInv /\ NoGlueErrors
  /\ ~forgotten => Reached /\ KnowingTicks /\ RestsFailed /\ Reopening /\ TellsUndo

(* A storage key is what its phase and place make it.                      *)
LEMMA PairKeys ==
  ASSUME NEW k \in Keys
  PROVE  /\ k[1] = "main" => k = Main(k[2]) /\ k[2] \in 1..N
         /\ k[1] = "compensation" => k = Undo(k[2]) /\ k[2] \in Undoable
         /\ k[1] = "failure" => k = OnFailure
         /\ k[1] \in {"main", "compensation", "failure"}
  BY DEF Keys, Main, Undo, OnFailure

(* The keys of the processor's steps and of their rollbacks.               *)
LEMMA StepKeys ==
  /\ \A j \in Undoable : j \in 1..N /\ j \in Nat
  /\ N \in Nat /\ 1 \in 1..N
  /\ \A j \in 1..N : Main(j) \in Keys
  /\ \A j \in Undoable : Undo(j) \in Keys
  BY KeyFacts, ProcessorAssumption

---------------------------------------------------------------------------
(* The step at the key of a tick is settled: what its memory says then.    *)

Past(m) ==
  /\ m.key[1] = "main" /\ m.todo = {} /\ ~m.undoFailed /\ m.regs \subseteq Due
  /\ Passed(m.key[2] + 1) /\ \A j \in Due : j <= m.key[2] => j \in m.regs

After(m) ==
  \/ Past(m)
  \/ m.key[1] = "compensation" /\ Reports([m EXCEPT !.todo = @ \ {m.key[2]}])
  \/ m.key[1] = "failure" /\ Reports(m) /\ m.todo = {}

AfterFailure(m) ==
  \/ m.key[1] = "main" /\ m.key[2] \in Optional /\ Past(m)
  \/ m.key[1] = "main" /\ m.key[2] \notin Optional /\ Gathered(m)
  \/ /\ m.key[1] = "compensation"
     /\ Reports([m EXCEPT !.todo = @ \ {m.key[2]}, !.undoFailed = TRUE])
  \/ m.key[1] = "failure" /\ Reports(m) /\ m.todo = {}

(* A completed step is behind the tick, its rollback registered.           *)
LEMMA AfterCompleted ==
  \A m \in Locals :
    OnStep(m) /\ step[m.key].status = "completed" =>
      /\ After(Register(m))
      /\ IsSleep(m.key) => After(m)
<1> SUFFICES ASSUME NEW m \in Locals, OnStep(m), step[m.key].status = "completed"
             PROVE  /\ After(Register(m))
                    /\ IsSleep(m.key) => After(m)
  OBVIOUS
<1>k. m.key \in Keys
  BY DEF Locals
<1>1. CASE m.key[1] = "main" /\ Ahead(m)
  <2> DEFINE i == m.key[2]
  <2>1. i \in 1..N /\ step[Main(i)].status = "completed"
    BY <1>1, <1>k, PairKeys
  <2>2. Passed(i + 1)
    BY <2>1, <1>1 DEF Ahead, Passed
  <2>3. CASE i \in Undoable
    <3>1. Register(m) = [m EXCEPT !.regs = m.regs \cup {i}] /\ i \in Due
      BY <1>1, <2>1, <2>3 DEF Register, Due
    <3>2. \A j \in Due : j <= i => j \in m.regs \cup {i}
      BY <1>1, <2>1, StepKeys DEF Ahead, Due
    <3>3. Past(Register(m))
      BY <1>1, <2>2, <3>1, <3>2 DEF Ahead, Past, Locals
    <3>4. ~IsSleep(m.key)
      BY <2>3, ProcessorAssumption DEF IsSleep
    <3> QED BY <3>3, <3>4 DEF After
  <2>4. CASE i \notin Undoable
    <3>1. Register(m) = m
      BY <1>1, <2>4 DEF Register
    <3>2. \A j \in Due : j <= i => j \in m.regs
      BY <1>1, <2>1, <2>4, StepKeys DEF Ahead, Due
    <3> QED BY <1>1, <2>2, <3>1, <3>2 DEF Ahead, Past, After
  <2> QED BY <2>3, <2>4
<1>2. CASE m.key[1] = "compensation" /\ Reports(m) /\ m.key[2] \in m.todo
  <2>1. Register(m) = m /\ m.key[2] \in Undoable /\ Undone(m.key[2])
    BY <1>2, <1>k, PairKeys DEF Register, Undone
  <2>2. Reports([m EXCEPT !.todo = @ \ {m.key[2]}])
    BY <1>2, <2>1 DEF Reports, Locals, Undone
  <2> QED BY <1>2, <2>1, <2>2 DEF After
<1>3. CASE m.key[1] = "failure" /\ Reports(m) /\ m.todo = {}
  BY <1>3 DEF After, Register
<1> QED BY <1>1, <1>2, <1>3 DEF OnStep

(* A step that did not pass bounds what is left to undo.                   *)
LEMMA AfterBarrier ==
  \A m \in Locals :
    /\ m.key[1] = "main" /\ Ahead(m) /\ Reached
    /\ step[m.key].status # "completed"
    /\ step[m.key].status = "failed" => m.key[2] \notin Optional
    => Gathered(m)
<1> SUFFICES ASSUME NEW m \in Locals, m.key[1] = "main", Ahead(m), Reached,
                    step[m.key].status # "completed",
                    step[m.key].status = "failed" => m.key[2] \notin Optional
             PROVE  Gathered(m)
  OBVIOUS
<1> DEFINE i == m.key[2]
<1>1. i \in 1..N /\ m.key = Main(i)
  BY PairKeys DEF Locals
<1>2. ASSUME NEW j \in Due, ~Undone(j)
      PROVE  j \in m.regs
  <2>1. j \in 1..N /\ Passed(j) /\ j # i
    BY <1>1, <1>2, StepKeys DEF Reached, Due
  <2>2. ~(i < j)
    BY <1>1, <2>1 DEF Passed
  <2> QED BY <1>1, <2>1, <2>2 DEF Ahead
<1> QED BY <1>2 DEF Ahead, Gathered

(* A failed one is past, too, or ends the processor with everything that   *)
(* is due at hand.                                                         *)
LEMMA AfterFailed ==
  \A m \in Locals :
    OnStep(m) /\ Reached /\ step[m.key].status = "failed" => AfterFailure(m)
<1> SUFFICES ASSUME NEW m \in Locals, OnStep(m), Reached, step[m.key].status = "failed"
             PROVE  AfterFailure(m)
  OBVIOUS
<1>k. m.key \in Keys
  BY DEF Locals
<1>1. CASE m.key[1] = "main" /\ Ahead(m) /\ m.key[2] \in Optional
  <2> DEFINE i == m.key[2]
  <2>1. i \in 1..N /\ step[Main(i)].status = "failed"
    BY <1>1, <1>k, PairKeys
  <2>2. Passed(i + 1)
    BY <1>1, <2>1 DEF Ahead, Passed
  <2>3. \A j \in Due : j <= i => j \in m.regs
    BY <1>1, <2>1, StepKeys DEF Ahead, Due
  <2> QED BY <1>1, <2>2, <2>3 DEF Ahead, Past, AfterFailure
<1>2. CASE m.key[1] = "main" /\ Ahead(m) /\ m.key[2] \notin Optional
  BY <1>2, AfterBarrier DEF AfterFailure
<1>3. CASE m.key[1] = "compensation" /\ Reports(m) /\ m.key[2] \in m.todo
  <2>1. m.key[2] \in Due /\ step[Undo(m.key[2])].status = "failed"
    BY <1>3, <1>k, PairKeys DEF Reports
  <2>2. Reports([m EXCEPT !.todo = @ \ {m.key[2]}, !.undoFailed = TRUE])
    BY <1>3, <2>1 DEF Reports, Locals
  <2> QED BY <1>3, <2>2 DEF AfterFailure
<1>4. CASE m.key[1] = "failure" /\ Reports(m) /\ m.todo = {}
  BY <1>4 DEF AfterFailure
<1> QED BY <1>1, <1>2, <1>3, <1>4 DEF OnStep

(* The same about the state a step ends in.                                *)
LEMMA AfterCompletedNext ==
  (\A m \in Locals :
     OnStep(m) /\ step[m.key].status = "completed" =>
       /\ After(Register(m))
       /\ IsSleep(m.key) => After(m))'
  BY AfterCompleted, PTL

(* Of a step that did not pass,                                            *)
LEMMA AfterBarrierNext ==
  (\A m \in Locals :
     /\ m.key[1] = "main" /\ Ahead(m) /\ Reached
     /\ step[m.key].status # "completed"
     /\ step[m.key].status = "failed" => m.key[2] \notin Optional
     => Gathered(m))'
  BY AfterBarrier, PTL

(* and of a failed one.                                                    *)
LEMMA AfterFailedNext ==
  (\A m \in Locals :
     OnStep(m) /\ Reached /\ step[m.key].status = "failed" => AfterFailure(m))'
  BY AfterFailed, PTL

---------------------------------------------------------------------------
(* Every continuation lands a tick where its memory is right.              *)

Lands(w) == \E p \in Locked \ {"begin"}, m \in Locals : Go(w, p, m) /\ Knows(p, m)'

(* runRollbacks goes on to a rollback that is due, to onFailure, or to a   *)
(* settlement with nothing left to undo.                                   *)
LEMMA CompensateLands ==
  ASSUME NEW w \in Workers, NEW mem \in Locals, Compensate(w, mem), Reports(mem)'
  PROVE  Lands(w)
<1>1. ASSUME NEW i \in LastCalled(mem.todo), Go(w, "step", [mem EXCEPT !.key = Undo(i)])
      PROVE  Lands(w)
  <2> DEFINE m == [mem EXCEPT !.key = Undo(i)]
  <2>1. i \in mem.todo /\ i \in Undoable
    BY DEF LastCalled, Locals
  <2>2. m \in Locals
    BY <2>1, KeyFacts DEF Locals
  <2>3. Reports(m)'
    BY DEF Reports, Locals
  <2>4. OnStep(m)'
    BY <2>1, <2>3 DEF OnStep, Locals, Undo
  <2>5. Knows("step", m)'
    BY <2>4 DEF Knows
  <2> QED BY <1>1, <2>2, <2>5 DEF Lands, Locked
<1>2. ASSUME mem.todo = {}, Go(w, "step", [mem EXCEPT !.key = OnFailure])
      PROVE  Lands(w)
  <2> DEFINE m == [mem EXCEPT !.key = OnFailure]
  <2>1. m \in Locals
    BY KeyFacts DEF Locals
  <2>2. Reports(m)'
    BY DEF Reports, Locals
  <2>3. OnStep(m)'
    BY <1>2, <2>2 DEF OnStep, Locals, OnFailure
  <2>4. Knows("step", m)'
    BY <2>3 DEF Knows
  <2> QED BY <1>2, <2>1, <2>4 DEF Lands, Locked
<1>3. ASSUME mem.todo = {}, Go(w, "settle", mem)
      PROVE  Lands(w)
  <2>1. Knows("settle", mem)'
    BY <1>3 DEF Knows, Writing
  <2> QED BY <1>3, <2>1 DEF Lands, Locked
<1> QED BY <1>1, <1>2, <1>3 DEF Compensate

(* Past a settled step, the next one begins with the rollbacks so far.     *)
LEMMA AdvanceLands ==
  ASSUME NEW w \in Workers, NEW mem \in Locals, Advance(w, mem), After(mem)'
  PROVE  Lands(w)
<1>k. mem.key \in Keys /\ mem.key[1] \in {"main", "compensation", "failure"}
  BY KeyFacts DEF Locals
<1>1. CASE mem.key[1] = "main"
  <2> DEFINE i == mem.key[2]
  <2>0. Past(mem)' /\ i \in 1..N
    BY <1>k, <1>1, PairKeys DEF After
  <2>1. CASE i < N /\ Go(w, "step", [mem EXCEPT !.key = Main(i + 1)])
    <3> DEFINE m == [mem EXCEPT !.key = Main(i + 1)]
    <3>1. i + 1 \in 1..N
      BY <2>0, <2>1, ProcessorAssumption
    <3>2. m \in Locals
      BY <3>1, KeyFacts DEF Locals
    <3>3. (\A j \in Due : j \in Nat)'
      BY StepKeys DEF Due
    <3>4. Ahead(m)'
      BY <2>0, <3>3 DEF Past, Ahead, Locals, Main
    <3>5. Knows("step", m)'
      BY <3>4 DEF Knows, OnStep, Locals, Main
    <3> QED BY <2>1, <3>2, <3>5 DEF Lands, Locked
  <2>2. CASE i = N /\ Go(w, IF mem.entered THEN "enter" ELSE "complete", mem)
    <3>1. (\A j \in Due : j <= N)'
      BY ProcessorAssumption DEF Due
    <3>2. Gathered(mem)'
      BY <2>0, <2>2, <3>1 DEF Past, Gathered
    <3>3. Knows("enter", mem)' /\ Knows("complete", mem)'
      BY <3>2 DEF Knows, Writing
    <3> QED BY <2>2, <3>3 DEF Lands, Locked
  <2> QED BY <1>1, <2>1, <2>2 DEF Advance
<1>2. CASE mem.key[1] = "compensation"
  <2> DEFINE m == [mem EXCEPT !.todo = @ \ {mem.key[2]}]
  <2>1. m \in Locals
    BY DEF Locals
  <2>2. Reports(m)' /\ Compensate(w, m)
    BY <1>2 DEF After, Past, Advance
  <2> HIDE DEF m
  <2> QED BY <2>1, <2>2, CompensateLands
<1>3. CASE mem.key[1] = "failure"
  <2>1. Knows("settle", mem)'
    BY <1>3 DEF After, Past, Knows, Writing
  <2> QED BY <1>3, <2>1 DEF Advance, Lands, Locked
<1> QED BY <1>k, <1>1, <1>2, <1>3

(* So it does past a failed one, unless the failure ends the processor.    *)
LEMMA StepFailedLands ==
  ASSUME NEW w \in Workers, NEW mem \in Locals, StepFailed(w, mem), AfterFailure(mem)'
  PROVE  Lands(w)
<1>k. mem.key[1] \in {"main", "compensation", "failure"}
  BY KeyFacts DEF Locals
<1>1. CASE mem.key[1] = "main" /\ mem.key[2] \in Optional
  <2>1. After(mem)' /\ Advance(w, mem)
    BY <1>1 DEF AfterFailure, After, StepFailed
  <2> QED BY <2>1, AdvanceLands
<1>2. CASE mem.key[1] = "main" /\ mem.key[2] \notin Optional
  <2>1. Gathered(mem)' /\ Classify(w, mem, FALSE)
    BY <1>2 DEF AfterFailure, StepFailed
  <2>2. Knows("enter", mem)'
    BY <2>1 DEF Knows, Writing
  <2>3. mem.regs = {} => Knows("failfast", mem)'
    BY <2>1 DEF Gathered, Knows, Writing
  <2> QED BY <2>1, <2>2, <2>3 DEF Classify, Lands, Locked
<1>3. CASE mem.key[1] = "compensation"
  <2> DEFINE m == [mem EXCEPT !.todo = @ \ {mem.key[2]}, !.undoFailed = TRUE]
  <2>1. m \in Locals
    BY DEF Locals
  <2>2. Reports(m)' /\ Compensate(w, m)
    BY <1>3 DEF AfterFailure, StepFailed
  <2> HIDE DEF m
  <2> QED BY <2>1, <2>2, CompensateLands
<1>4. CASE mem.key[1] = "failure"
  <2>1. Knows("settle", mem)' /\ Go(w, "settle", mem)
    BY <1>4 DEF AfterFailure, StepFailed, Knows, Writing
  <2> QED BY <2>1 DEF Lands, Locked
<1> QED BY <1>k, <1>1, <1>2, <1>3, <1>4

(* A yield takes nothing along.                                            *)
LEMMA YieldLands ==
  ASSUME NEW w \in Workers, NEW mem \in Locals, Yield(w, mem)
  PROVE  Lands(w)
<1>1. [mem EXCEPT !.out = "yield"] \in Locals
  BY DEF Locals
<1>2. \A m : Knows("yielded", m)' /\ Knows("release", m)'
  BY DEF Knows, Writing
<1> QED BY <1>1, <1>2 DEF Yield, Lands, Locked

---------------------------------------------------------------------------
(* The actions of a worker.                                                *)

(* A step of w settles at most the record at its own key.                  *)
Touches(k) ==
  /\ \A j \in Keys \ {k} : step'[j].status = step[j].status
  /\ step[k].status \in Settled => step'[k].status = step[k].status

(* That is what the writes of a worker come to.                            *)
LEMMA WritesTouch ==
  ASSUME TypeOK, NEW w \in Workers, WritesOpen(w)
  PROVE  Touches(loc[w].key)
  BY DEF WritesOpen, Touches, TypeOK

(* That breaks nothing of what the tick knew before it.                    *)
LEMMA KnowsOn ==
  ASSUME Reached, NEW m \in Locals, OnStep(m), Touches(m.key)
  PROVE  OnStep(m)' /\ Reached'
<1> DEFINE i == m.key[2]
<1>k. m.key \in Keys
  BY DEF Locals
<1>1. \A k \in Keys : step[k].status \in Settled => step'[k].status = step[k].status
  BY DEF Touches
<1>2. \A j \in 1..N : Passed(j) => Passed(j)'
  <2> SUFFICES ASSUME NEW j \in 1..N, Passed(j), NEW l \in 1..(j - 1)
               PROVE  \/ step'[Main(l)].status = "completed"
                      \/ l \in Optional /\ step'[Main(l)].status = "failed"
    BY DEF Passed
  <2>1. l \in 1..N
    BY StepKeys
  <2> QED BY <1>1, <2>1, StepKeys DEF Passed, Settled
<1>3. /\ \A j \in Undoable : j \in Due => j \in Due'
      /\ \A j \in Undoable : Undone(j) => Undone(j)'
  BY <1>1, StepKeys DEF Due, Undone, Settled
<1>4. Due \subseteq Due' /\ Due \subseteq Undoable /\ Due' \subseteq Undoable
  BY <1>3 DEF Due
<1>5. CASE m.key[1] = "main" /\ Ahead(m)
  <2>1. i \in 1..N /\ m.key = Main(i)
    BY <1>5, <1>k, PairKeys
  <2>2. \A j \in Due' : j \in Due \/ j = i
    <3>1. ASSUME NEW j \in Undoable, j # i
          PROVE  step'[Main(j)].status = step[Main(j)].status
      <4>1. Main(j) \in Keys /\ Main(j) # m.key
        BY <2>1, <3>1, StepKeys DEF Main
      <4> QED BY <4>1 DEF Touches
    <3> QED BY <3>1 DEF Due
  <2>3. Passed(i)'
    BY <1>2, <1>5, <2>1 DEF Ahead
  <2>4. OnStep(m)'
    BY <1>4, <1>5, <2>1, <2>2, <2>3 DEF OnStep, Ahead
  <2>5. Reached'
    BY <1>2, <1>3, <1>4, <2>2, <2>3, StepKeys DEF Reached
  <2> QED BY <2>4, <2>5
<1>6. CASE m.key[1] # "main" /\ Reports(m)
  <2>1. ASSUME NEW j \in Undoable
        PROVE  step'[Main(j)].status = step[Main(j)].status
    <3>1. Main(j) \in Keys /\ Main(j) # m.key
      BY <1>6, StepKeys DEF Main
    <3> QED BY <3>1 DEF Touches
  <2>2. Due' = Due
    BY <2>1 DEF Due
  <2>3. Reached'
    BY <1>2, <1>3, <1>4, <2>2, StepKeys DEF Reached
  <2>4. ASSUME NEW j \in Due \ {i}
        PROVE  step'[Undo(j)].status = step[Undo(j)].status
    <3>1. j \in Undoable
      BY <1>4
    <3>2. Undo(j) \in Keys /\ Undo(j) # m.key
      BY <2>4, <3>1, StepKeys DEF Undo
    <3> QED BY <3>2 DEF Touches
  <2>5. CASE m.key[1] = "compensation" /\ i \in m.todo
    <3>1. Reports(m)'
      BY <1>3, <1>4, <1>6, <2>2, <2>4, <2>5 DEF Reports
    <3> QED BY <2>3, <2>5, <3>1 DEF OnStep
  <2>6. CASE m.key[1] = "failure" /\ m.todo = {}
    <3>1. ASSUME NEW j \in Due
          PROVE  step'[Undo(j)].status = step[Undo(j)].status
      <4>1. j \in Undoable
        BY <1>4
      <4>2. Undo(j) \in Keys /\ Undo(j) # m.key
        BY <2>6, <4>1, StepKeys DEF Undo
      <4> QED BY <4>2 DEF Touches
    <3>2. Reports(m)'
      BY <1>6, <2>2, <3>1 DEF Reports, Undone
    <3> QED BY <2>3, <2>6, <3>2 DEF OnStep
  <2> QED BY <1>6, <2>5, <2>6 DEF OnStep
<1> QED BY <1>5, <1>6 DEF OnStep

(* A tick that lands knows.                                                *)
LEMMA LandsKnowing ==
  ASSUME TypeOK, NEW w \in Workers, Lands(w)
  PROVE  Knows(pc[w], loc[w])'
<1>1. PICK p \in Locked \ {"begin"}, m \in Locals : Go(w, p, m) /\ Knows(p, m)'
  BY DEF Lands
<1>2. pc'[w] = p /\ loc'[w] = m
  BY <1>1 DEF Go, TypeOK
<1> QED BY <1>1, <1>2

(* Nothing is asked of a tick that is over, or about to be.                *)
LEMMA LeavesKnowing ==
  ASSUME NEW p \in {"idle", "park", "return", "release", "cancelling", "yielded"}, NEW m
  PROVE  Knows(p, m)'
  BY DEF Knows, Writing

(* A delivery or a new tick knows nothing yet and starts at the first      *)
(* step; whoever leaves the lock need not know.                            *)
LEMMA OutsideKnows ==
  ASSUME TypeOK, Reached, NEW w \in Workers, Knows(pc[w], loc[w]),
         \/ Deliver(w) \/ StallDeath(w) \/ Acquire(w) \/ Contended(w) \/ Begin(w)
         \/ Release(w) \/ Park(w) \/ Return(w) \/ Orphan(w) \/ Crash(w)
  PROVE  step' = step /\ Reached' /\ Knows(pc[w], loc[w])'
<1>s. step' = step
  BY DEF Deliver, StallDeath, Acquire, Contended, Begin, Release, Park, Return, Orphan, Crash,
         store
<1>r. Reached'
  BY <1>s DEF Reached, Due, Passed, Undone
<1>1. CASE Deliver(w) \/ StallDeath(w)
  <2>1. /\ pc'[w] \in {"acquire", "orphan"}
        /\ \E mode, attempt : loc'[w] = Tick(mode, attempt)
    BY <1>1 DEF Deliver, StallDeath, Go, TypeOK
  <2> QED BY <1>s, <1>r, <2>1 DEF Knows, Tick, Writing
<1>2. CASE Acquire(w) \/ (Orphan(w) /\ inst.status \in Live)
  <2>1. /\ pc'[w] \in {"acquire", "begin"} /\ loc'[w] = loc[w]
        /\ pc[w] \in {"acquire", "orphan"}
    BY <1>2 DEF Acquire, Orphan, Go, TypeOK, Live, Terminal
  <2> QED BY <1>s, <1>r, <2>1 DEF Knows, Writing
<1>3. CASE Begin(w)
  <2>1. PICK m \in Locals : m = loc[w]
    BY DEF TypeOK
  <2>2. m.key = Main(1) /\ m.regs = {} /\ m.todo = {} /\ ~m.undoFailed
    BY <1>3, <2>1 DEF Begin, Knows
  <2>3. CASE \E e \in BOOLEAN : Go(w, "step", [m EXCEPT !.entered = e])
    <3>1. PICK e \in BOOLEAN : Go(w, "step", [m EXCEPT !.entered = e])
      BY <2>3
    <3> DEFINE n == [m EXCEPT !.entered = e]
    <3>2. /\ n \in Locals /\ n.key = Main(1) /\ n.regs = {} /\ n.todo = {} /\ ~n.undoFailed
      BY <2>2 DEF Locals
    <3>3. Passed(1)' /\ (\A j \in Due : ~(j < 1))'
      BY StepKeys DEF Passed, Due
    <3> HIDE DEF n
    <3>4. Knows("step", n)'
      BY <3>2, <3>3 DEF Knows, OnStep, Ahead, Main
    <3> QED BY <1>s, <1>r, <3>1, <3>2, <3>4, LandsKnowing DEF Lands, Locked, n
  <2>4. CASE pc'[w] = "release"
    BY <1>s, <1>r, <2>4, LeavesKnowing
  <2> QED BY <1>3, <2>1, <2>3, <2>4 DEF Begin, Go, TypeOK
<1>4. CASE \/ Contended(w) \/ Release(w) \/ Park(w) \/ Return(w) \/ Crash(w)
           \/ (Orphan(w) /\ inst.status \notin Live)
  <2>1. pc'[w] \in {"idle", "park", "return"}
    BY <1>4 DEF Contended, Release, Park, Return, Crash, Orphan, Go, TypeOK
  <2> QED BY <1>s, <1>r, <2>1, LeavesKnowing
<1> QED BY <1>1, <1>2, <1>3, <1>4

(* The failure sequence begins with what the processor registered.         *)
LEMMA StatusKnows ==
  ASSUME TypeOK, Reached, NEW w \in Workers, Knows(pc[w], loc[w]),
         \/ Refused(w) \/ MarkYielded(w) \/ EnterFailure(w) \/ MarkCompensating(w)
         \/ CompleteRun(w) \/ SettleTerminal(w) \/ FailFast(w) \/ CancelRun(w)
  PROVE  step' = step /\ Reached' /\ Knows(pc[w], loc[w])'
<1>s. step' = step
  BY DEF Refused, MarkYielded, EnterFailure, MarkCompensating, CompleteRun, SettleTerminal,
         FailFast, CancelRun, TerminalAt, store
<1>r. Reached'
  BY <1>s DEF Reached, Due, Passed, Undone
<1>1. CASE EnterFailure(w) \/ MarkCompensating(w)
  <2>1. PICK m \in Locals : m = loc[w]
    BY DEF TypeOK
  <2>2. Gathered(m)
    BY <1>1, <2>1 DEF EnterFailure, MarkCompensating, Knows
  <2>3. Gathered(m)'
    BY <1>s, <2>2 DEF Gathered, Due, Undone
  <2>4. CASE Go(w, "mark", m)
    <3>1. Knows("mark", m)'
      BY <2>3 DEF Knows, Writing
    <3> QED BY <1>s, <1>r, <2>4, <3>1, LandsKnowing DEF Lands, Locked
  <2>5. CASE Compensate(w, [m EXCEPT !.todo = m.regs])
    <3> DEFINE n == [m EXCEPT !.todo = m.regs]
    <3>1. n \in Locals
      BY DEF Locals
    <3>2. Reports(n)'
      BY <2>3 DEF Gathered, Reports, Locals
    <3> HIDE DEF n
    <3>3. Compensate(w, n)
      BY <2>5 DEF n
    <3> QED BY <1>s, <1>r, <3>1, <3>2, <3>3, CompensateLands, LandsKnowing
  <2> QED BY <1>1, <2>1, <2>4, <2>5 DEF EnterFailure, MarkCompensating, StartCompensation
<1>2. CASE \/ Refused(w) \/ MarkYielded(w) \/ CompleteRun(w) \/ SettleTerminal(w)
           \/ FailFast(w) \/ CancelRun(w)
  <2>1. pc'[w] \in {"release", "cancelling"}
    BY <1>2 DEF Refused, MarkYielded, CompleteRun, SettleTerminal, FailFast, CancelRun,
                TerminalAt, Go, TypeOK
  <2> QED BY <1>s, <1>r, <2>1, LeavesKnowing
<1> QED BY <1>1, <1>2

(* What a tick knows at a step does not hang on its copy of the record.    *)
LEMMA OnStepCopy ==
  ASSUME NEW m \in Locals, NEW n \in Locals, OnStep(m)',
         n.key = m.key, n.regs = m.regs, n.todo = m.todo, n.undoFailed = m.undoFailed
  PROVE  OnStep(n)'
  BY DEF OnStep, Ahead, Reports

(* The attempt at a step is made with that knowledge,                      *)
LEMMA WritingLands ==
  ASSUME NEW w \in Workers, NEW m \in Locals, OnStep(m)',
         NEW p \in {"claim", "body", "save"}, Go(w, p, m)
  PROVE  Lands(w)
<1>1. Knows(p, m)'
  BY DEF Knows, Writing
<1> QED BY <1>1 DEF Lands, Locked

(* and so is the end of a sleep.                                           *)
LEMMA AsleepLands ==
  ASSUME NEW w \in Workers, NEW m \in Locals, OnStep(m)', IsSleep(m.key),
         NEW p \in {"wake", "awake"}, Go(w, p, m), step'[m.key].status = "running"
  PROVE  Lands(w)
<1>1. Knows(p, m)'
  BY DEF Knows, Writing, IsSleep
<1> QED BY <1>1 DEF Lands, Locked

(* A replayed record, or one whose next attempt is due.                    *)
LEMMA ReplayKnows ==
  ASSUME TypeOK, Reached, NEW w \in Workers, Knows(pc[w], loc[w]),
         ReplaySettled(w) \/ ExistingStep(w)
  PROVE  Reached' /\ Knows(pc[w], loc[w])'
<1>1. PICK m \in Locals : m = loc[w]
  BY DEF TypeOK
<1>2. pc[w] = "step" /\ step' = step
  BY DEF ReplaySettled, ExistingStep, Entering, store
<1>3. OnStep(m)' /\ Reached'
  <2>1. OnStep(m) /\ Touches(m.key)
    BY <1>1, <1>2 DEF Knows, Touches
  <2> QED BY <2>1, KnowsOn
<1>4. Register(m) \in Locals /\ m.key \in Keys /\ m.rec \in StepRecords
  BY RegisterType DEF Locals
<1>5. CASE step[m.key].status = "completed" /\ Advance(w, Register(m))
  <2>1. After(Register(m))'
    BY <1>2, <1>3, <1>5, AfterCompletedNext
  <2> QED BY <1>3, <1>4, <1>5, <2>1, AdvanceLands, LandsKnowing
<1>6. CASE step[m.key].status = "failed" /\ StepFailed(w, m)
  <2>1. AfterFailure(m)'
    BY <1>2, <1>3, <1>6, AfterFailedNext
  <2> QED BY <1>3, <1>6, <2>1, StepFailedLands, LandsKnowing
<1>7. CASE m.key[1] = "main" /\ step[m.key].status \in {"none", "running"} /\ Go(w, "enter", m)
  <2>1. Ahead(m)'
    BY <1>3, <1>7 DEF OnStep
  <2>2. Gathered(m)'
    BY <1>2, <1>3, <1>7, <2>1, AfterBarrierNext
  <2>3. Knows("enter", m)'
    BY <2>2 DEF Knows, Writing
  <2> QED BY <1>3, <1>7, <2>3, LandsKnowing DEF Lands, Locked
<1>8. CASE Yield(w, m)
  BY <1>3, <1>8, YieldLands, LandsKnowing
<1>9. CASE Go(w, "claim", [m EXCEPT !.rec = [step[m.key] EXCEPT !.attempts = @ + 1,
                                                               !.wake = "none"]])
  <2> DEFINE rec == [step[m.key] EXCEPT !.attempts = @ + 1, !.wake = "none"]
             n == [m EXCEPT !.rec = rec]
  <2>1. rec \in StepRecords
    BY <1>4, NextAttemptType DEF TypeOK
  <2> HIDE DEF rec
  <2>2. /\ n \in Locals /\ n.key = m.key /\ n.regs = m.regs /\ n.todo = m.todo
        /\ n.undoFailed = m.undoFailed
    BY <2>1 DEF Locals
  <2>3. Go(w, "claim", n)
    BY <1>9 DEF rec
  <2> HIDE DEF n
  <2> QED BY <1>3, <2>2, <2>3, OnStepCopy, WritingLands, LandsKnowing
<1>10. CASE step[m.key].status = "running" /\ IsSleep(m.key) /\ Go(w, "wake", m)
  BY <1>2, <1>3, <1>10, AsleepLands, LandsKnowing
<1>11. CASE ReplaySettled(w)
  <2>1. \/ step[m.key].status = "completed" /\ Advance(w, Register(m))
        \/ step[m.key].status = "failed" /\ StepFailed(w, m)
        \/ m.key[1] = "main" /\ step[m.key].status \in {"none", "running"} /\ Go(w, "enter", m)
    BY <1>1, <1>11 DEF ReplaySettled, ReplayOnly
  <2> QED BY <2>1, <1>5, <1>6, <1>7
<1>12. CASE ExistingStep(w)
  <2>1. \/ step[m.key].status = "completed" /\ Advance(w, Register(m))
        \/ step[m.key].status = "failed" /\ StepFailed(w, m)
        \/ Yield(w, m)
        \/ Go(w, "claim", [m EXCEPT !.rec = [step[m.key] EXCEPT !.attempts = @ + 1,
                                                                !.wake = "none"]])
        \/ step[m.key].status = "running" /\ IsSleep(m.key) /\ Go(w, "wake", m)
    BY <1>1, <1>12 DEF ExistingStep, Resumable
  <2> QED BY <2>1, <1>5, <1>6, <1>8, <1>9, <1>10
<1> QED BY <1>11, <1>12

(* A new one.                                                              *)
LEMMA FreshKnows ==
  ASSUME TypeOK, Reached, NEW w \in Workers, Knows(pc[w], loc[w]),
         FreshStep(w) \/ FreshSleep(w)
  PROVE  Reached' /\ Knows(pc[w], loc[w])'
<1>1. PICK m \in Locals : m = loc[w]
  BY DEF TypeOK
<1>2. pc[w] = "step"
  BY DEF FreshStep, FreshSleep, Entering
<1>3. OnStep(m)' /\ Reached'
  <2>1. OnStep(m) /\ Touches(m.key)
    BY <1>1, <1>2, FreshOpen, WritesTouch DEF Knows
  <2> QED BY <2>1, KnowsOn
<1>4. CASE Yield(w, m)
  BY <1>3, <1>4, YieldLands, LandsKnowing
<1>5. CASE Go(w, "body", [m EXCEPT !.rec = NewStep(inst, "none")])
  <2> DEFINE n == [m EXCEPT !.rec = NewStep(inst, "none")]
  <2>1. NewStep(inst, "none") \in StepRecords
    BY DEF NewStep, StepRecords, TypeOK, Instances
  <2>2. /\ n \in Locals /\ n.key = m.key /\ n.regs = m.regs /\ n.todo = m.todo
        /\ n.undoFailed = m.undoFailed
    BY <2>1 DEF Locals
  <2>3. Go(w, "body", n)
    BY <1>5
  <2> HIDE DEF n
  <2> QED BY <1>3, <2>2, <2>3, OnStepCopy, WritingLands, LandsKnowing
<1>6. CASE /\ step' = [step EXCEPT ![m.key] = NewStep(inst, "due")]
           /\ IsSleep(m.key) /\ Go(w, "wake", m)
  <2>1. step'[m.key].status = "running"
    BY <1>6 DEF NewStep, TypeOK, Locals
  <2> QED BY <1>3, <1>6, <2>1, AsleepLands, LandsKnowing
<1> QED BY <1>1, <1>3, <1>4, <1>5, <1>6 DEF FreshStep, FreshSleep

(* A sleep that is over.                                                   *)
LEMMA ReadKnows ==
  ASSUME TypeOK, Reached, NEW w \in Workers, Knows(pc[w], loc[w]), ReadSleep(w)
  PROVE  Reached' /\ Knows(pc[w], loc[w])'
<1>1. PICK m \in Locals : m = loc[w]
  BY DEF TypeOK
<1>2. pc[w] = "wake" /\ step' = step
  BY DEF ReadSleep, store
<1>3. OnStep(m)' /\ Reached'
  <2>1. OnStep(m) /\ Touches(m.key)
    BY <1>1, <1>2 DEF Knows, Touches, Writing
  <2> QED BY <2>1, KnowsOn
<1>4. IsSleep(m.key) /\ step[m.key].status = "running"
  BY <1>1, <1>2 DEF Knows
<1>5. PICK rec \in StepRecords : rec = step[m.key]
  BY DEF TypeOK, Locals
<1>6. PICK n \in Locals : n = [m EXCEPT !.rec = rec]
  BY DEF Locals
<1>7. n.key = m.key /\ n.regs = m.regs /\ n.todo = m.todo /\ n.undoFailed = m.undoFailed
  BY <1>6 DEF Locals
<1>8. Go(w, "awake", n)
  BY <1>1, <1>4, <1>5, <1>6 DEF ReadSleep
<1>9. OnStep(n)'
  BY <1>3, <1>7, OnStepCopy
<1>10. IsSleep(n.key) /\ step'[n.key].status = "running"
  BY <1>2, <1>4, <1>7
<1> QED BY <1>3, <1>8, <1>9, <1>10, AsleepLands, LandsKnowing

(* The attempt itself.                                                     *)
LEMMA BodyKnows ==
  ASSUME TypeOK, Reached, OpenClaims, NEW w \in Workers, Knows(pc[w], loc[w]),
         WakeUp(w) \/ ClaimAttempt(w) \/ RunBody(w)
  PROVE  Reached' /\ Knows(pc[w], loc[w])'
<1>1. PICK m \in Locals : m = loc[w]
  BY DEF TypeOK
<1>2. pc[w] \in {"awake", "claim", "body"}
  BY DEF WakeUp, ClaimAttempt, RunBody
<1>3. OnStep(m)' /\ Reached'
  <2>1. OnStep(m) /\ Touches(m.key)
    BY <1>1, <1>2, BodyOpen, WritesTouch DEF Knows, Writing
  <2> QED BY <2>1, KnowsOn
<1>4. CASE WakeUp(w)
  <2>1. IsSleep(m.key) /\ m.key \in Keys
    BY <1>1, <1>4 DEF WakeUp, Knows, Locals
  <2>2. step'[m.key].status = "completed" /\ Advance(w, m)
    BY <1>1, <1>4, <2>1 DEF WakeUp, TypeOK, Locals, StepRecords
  <2>3. After(m)'
    BY <1>3, <2>1, <2>2, AfterCompletedNext DEF IsSleep
  <2> QED BY <1>3, <2>2, <2>3, AdvanceLands, LandsKnowing
<1>5. CASE ClaimAttempt(w)
  BY <1>1, <1>3, <1>5, WritingLands, LandsKnowing DEF ClaimAttempt
<1>6. CASE RunBody(w)
  <2>1. PICK result \in {"ok", "again", "failed"} : Go(w, "save", [m EXCEPT !.result = result])
    BY <1>1, <1>6 DEF RunBody
  <2> DEFINE n == [m EXCEPT !.result = result]
  <2>2. /\ n \in Locals /\ n.key = m.key /\ n.regs = m.regs /\ n.todo = m.todo
        /\ n.undoFailed = m.undoFailed
    BY DEF Locals
  <2>3. Go(w, "save", n)
    BY <2>1
  <2> HIDE DEF n
  <2> QED BY <1>3, <2>2, <2>3, OnStepCopy, WritingLands, LandsKnowing
<1> QED BY <1>3, <1>4, <1>5, <1>6

(* Its result.                                                             *)
LEMMA SaveKnows ==
  ASSUME TypeOK, Reached, OpenClaims, NEW w \in Workers, Knows(pc[w], loc[w]),
         SaveResult(w) \/ SaveRetry(w) \/ SaveFailure(w)
  PROVE  Reached' /\ Knows(pc[w], loc[w])'
<1>1. PICK m \in Locals : m = loc[w]
  BY DEF TypeOK
<1>2. pc[w] = "save"
  BY DEF SaveResult, SaveRetry, SaveFailure
<1>3. OnStep(m)' /\ Reached'
  <2>1. OnStep(m) /\ Touches(m.key)
    BY <1>1, <1>2, SaveOpen, WritesTouch DEF Knows, Writing
  <2> QED BY <2>1, KnowsOn
<1>4. PICK n \in Locals : n = [m EXCEPT !.result = "none"]
  BY DEF Locals
<1>5. OnStep(n)' /\ n.key \in Keys /\ n.key = m.key
  <2>1. /\ n.key = m.key /\ n.regs = m.regs /\ n.todo = m.todo
        /\ n.undoFailed = m.undoFailed
    BY <1>4 DEF Locals
  <2> QED BY <1>3, <2>1, OnStepCopy DEF Locals
<1>s. ASSUME NEW status, NEW wake, Saved(w, status, wake)
      PROVE  step'[n.key].status = status
  BY <1>1, <1>5, <1>s DEF Saved, TypeOK, Locals, StepRecords
<1>6. CASE SaveResult(w)
  <2>1. step'[n.key].status = "completed" /\ Advance(w, Register(n))
    BY <1>1, <1>4, <1>6, <1>s DEF SaveResult
  <2>2. After(Register(n))' /\ Register(n) \in Locals
    BY <1>5, <2>1, AfterCompletedNext, RegisterType
  <2> QED BY <1>3, <2>1, <2>2, AdvanceLands, LandsKnowing
<1>7. CASE SaveFailure(w)
  <2>1. step'[n.key].status = "failed" /\ StepFailed(w, n)
    BY <1>1, <1>4, <1>7, <1>s DEF SaveFailure
  <2>2. AfterFailure(n)'
    BY <1>3, <1>5, <2>1, AfterFailedNext
  <2> QED BY <1>3, <2>1, <2>2, StepFailedLands, LandsKnowing
<1>8. CASE SaveRetry(w)
  <2>1. CASE Yield(w, n)
    BY <1>3, <2>1, YieldLands, LandsKnowing
  <2>2. CASE Go(w, "claim", [n EXCEPT !.rec.attempts = @ + 1])
    <3> DEFINE r == [n EXCEPT !.rec.attempts = @ + 1]
    <3>1. /\ r \in Locals /\ r.key = n.key /\ r.regs = n.regs /\ r.todo = n.todo
          /\ r.undoFailed = n.undoFailed
      BY DEF Locals, StepRecords
    <3>2. Go(w, "claim", r)
      BY <2>2
    <3> HIDE DEF r
    <3> QED BY <1>3, <1>5, <3>1, <3>2, OnStepCopy, WritingLands, LandsKnowing
  <2> QED BY <1>1, <1>4, <1>8, <2>1, <2>2 DEF SaveRetry
<1> QED BY <1>6, <1>7, <1>8

---------------------------------------------------------------------------
(* A step of the runtime.                                                  *)

SameStatuses == \A k \in Keys : step'[k].status = step[k].status

(* All of this is about the statuses of the records alone.                 *)
LEMMA SameKnows ==
  ASSUME SameStatuses
  PROVE  /\ Due' = Due /\ \A j \in Undoable : Undone(j)' <=> Undone(j)
         /\ Reached => Reached'
         /\ \A w \in Workers, p \in Places, m \in Locals : Knows(p, m) => Knows(p, m)'
<1>1. Due' = Due /\ \A j \in Undoable : Undone(j)' <=> Undone(j)
  BY StepKeys DEF SameStatuses, Due, Undone
<1>2. \A i \in 1..N : Passed(i)' <=> Passed(i)
  <2>1. \A i \in 1..N : \A j \in 1..(i - 1) : Main(j) \in Keys
    BY StepKeys, ProcessorAssumption
  <2> QED BY <2>1 DEF SameStatuses, Passed
<1>3. \A j \in Due : j \in 1..N /\ j \in Undoable
  BY StepKeys DEF Due
<1>4. Reached => Reached'
  BY <1>1, <1>2, <1>3 DEF Reached
<1>5. ASSUME NEW p \in Places, NEW m \in Locals, Knows(p, m)
      PROVE  Knows(p, m)'
  <2>1. Gathered(m) => Gathered(m)'
    BY <1>1, <1>3 DEF Gathered
  <2>2. Reports(m) => Reports(m)'
    <3>1. \A j \in Due : step'[Undo(j)].status = step[Undo(j)].status
      BY <1>3, StepKeys DEF SameStatuses
    <3> QED BY <1>1, <1>3, <3>1 DEF Reports
  <2>3. m.key[1] = "main" /\ Ahead(m) => Ahead(m)'
    <3>1. m.key[1] = "main" => m.key[2] \in 1..N
      BY PairKeys DEF Locals
    <3> QED BY <1>1, <1>2, <3>1 DEF Ahead
  <2>4. OnStep(m) => OnStep(m)'
    BY <2>2, <2>3 DEF OnStep
  <2>5. m.key \in Keys
    BY DEF Locals
  <2> QED BY <1>1, <1>3, <1>5, <2>1, <2>2, <2>4, <2>5 DEF Knows, SameStatuses
<1> QED BY <1>1, <1>4, <1>5

(* What is known outside the part a tick drives is in its memory.          *)
LEMMA RestKnows ==
  ASSUME NEW p \in Places \ Driving, NEW m, Knows(p, m)
  PROVE  Knows(p, m)'
  BY DEF Knows, Driving, Locked, Writing

(* A step of one worker leaves every tick with the truth: the others are   *)
(* outside the lock while it writes.                                       *)
LEMMA WorkerKnows ==
  ASSUME TypeOK, SoleTick, OpenClaims, NoGlueErrors, Reached, KnowingTicks, NEW w \in Workers,
         Work(w) \/ Deliver(w) \/ StallDeath(w) \/ GlueError(w) \/ Crash(w)
  PROVE  Reached' /\ KnowingTicks'
<1>1. Knows(pc[w], loc[w])
  BY DEF KnowingTicks
<1>2. ~GlueError(w)
  BY DEF GlueError, Strike, NoGlueErrors
<1>3. Reached' /\ Knows(pc[w], loc[w])'
  BY <1>1, <1>2, OutsideKnows, StatusKnows, ReplayKnows, FreshKnows, ReadKnows, BodyKnows,
     SaveKnows DEF Work
<1>4. ASSUME NEW v \in Workers \ {w}
      PROVE  Knows(pc[v], loc[v])'
  <2>1. pc'[v] = pc[v] /\ loc'[v] = loc[v]
    BY WorkersAlone DEF Lone
  <2>2. PICK p \in Places, m \in Locals : p = pc[v] /\ m = loc[v]
    BY DEF TypeOK
  <2>3. Knows(p, m)
    BY <2>2 DEF KnowingTicks
  <2>4. step' = step \/ pc[w] \in Locked
    BY TickOpen, FreshOpen, ReplayOpen, BodyOpen, SaveOpen DEF Work, WritesOpen
  <2>5. CASE step' = step
    BY <2>1, <2>2, <2>3, <2>5, SameKnows DEF SameStatuses
  <2>6. CASE pc[w] \in Locked
    <3>1. p \notin Driving
      BY <2>2, <2>6 DEF SoleTick, Driving
    <3> QED BY <2>1, <2>2, <2>3, <3>1, RestKnows
  <2> QED BY <2>4, <2>5, <2>6
<1> QED BY <1>3, <1>4 DEF KnowingTicks

(* The clock, BullMQ and a cancel leave the statuses of the records alone. *)
LEMMA SurroundingsSame ==
  ASSUME TypeOK,
         \/ LockExpires \/ JobLockLapses \/ StallRecover \/ DelayOver \/ Promote
         \/ RetryJob \/ ExternalCancel \/ RemoveCarrier \/ UNCHANGED vars
         \/ \E k \in Keys : WakeTimeReached(k)
  PROVE  /\ SameStatuses /\ pc' = pc /\ loc' = loc
         /\ \/ inst' = inst
            \/ inst'.status = "cancelled"
<1>1. /\ UNCHANGED <<pc, loc>> /\ (inst' = inst \/ inst' = Finish(inst, "cancelled"))
  BY DEF LockExpires, JobLockLapses, StallRecover, DelayOver, Promote, RetryJob,
         ExternalCancel, RemoveCarrier, WakeTimeReached, vars, store
<1>2. Finish(inst, "cancelled").status = "cancelled"
  BY DEF Finish, TypeOK, Instances
<1>3. SameStatuses
  <2>1. CASE step' = step
    BY <2>1 DEF SameStatuses
  <2>2. ASSUME NEW k \in Keys, WakeTimeReached(k)
        PROVE  SameStatuses
    <3>1. step[k] \in StepRecords /\ step' = [step EXCEPT ![k].wake = "due"]
      BY <2>2 DEF WakeTimeReached, TypeOK
    <3> QED BY <3>1 DEF SameStatuses, StepRecords, TypeOK
  <2> QED BY <2>1, <2>2 DEF LockExpires, JobLockLapses, StallRecover, DelayOver, Promote,
                           RetryJob, ExternalCancel, RemoveCarrier, vars, store
<1> QED BY <1>1, <1>2, <1>3

(* A step of the runtime keeps the memories of all ticks true.             *)
LEMMA NextKnows ==
  ASSUME TypeOK, SoleTick, OpenClaims, NoGlueErrors, Reached, KnowingTicks, [Next]_vars
  PROVE  Reached' /\ KnowingTicks'
<1>1. CASE SameStatuses /\ pc' = pc /\ loc' = loc
  <2>1. ASSUME NEW w \in Workers
        PROVE  Knows(pc[w], loc[w])'
    <3>1. PICK p \in Places, m \in Locals : p = pc[w] /\ m = loc[w]
      BY DEF TypeOK
    <3>2. Knows(p, m)
      BY <3>1 DEF KnowingTicks
    <3> QED BY <1>1, <3>1, <3>2, SameKnows
  <2> QED BY <1>1, <2>1, SameKnows DEF KnowingTicks
<1> QED BY <1>1, WorkerKnows, SurroundingsSame DEF Next

---------------------------------------------------------------------------
(* What is over stays over, and ends with the truth.                       *)

Failures == {"failed", "compensation_failed"}

(* Nothing but a cancel touches a finished run nobody works on.            *)
LEMMA RestStep ==
  ASSUME TypeOK, Resting, inst.status \in Terminal, [Next]_vars
  PROVE  Resting' /\ SameStatuses /\ (inst' = inst \/ inst'.status = "cancelled")
<1>1. ASSUME NEW w \in Workers,
             Work(w) \/ Deliver(w) \/ StallDeath(w) \/ GlueError(w) \/ Crash(w)
      PROVE  Resting' /\ SameStatuses /\ inst' = inst
  <2>1. pc[w] \notin Driving
    BY DEF Resting
  <2>2. \/ Acquire(w) \/ Contended(w) \/ Release(w) \/ Park(w) \/ Return(w) \/ Orphan(w)
        \/ Deliver(w) \/ StallDeath(w) \/ Crash(w) \/ Begin(w)
    BY <1>1, <2>1, WhileDriving DEF Work
  <2>3. inst' = inst /\ pc'[w] \notin Driving
    <3>1. CASE Begin(w)
      <4>1. BeginTick(inst) = inst
        BY DEF BeginTick, Exists, Terminal
      <4>2. inst' = inst /\ pc'[w] = "release"
        BY <3>1, <4>1 DEF Begin, Go, TypeOK
      <4> QED BY <4>2 DEF Driving
    <3>2. CASE ~Begin(w)
      BY <2>2, <3>2, NotDriving
    <3> QED BY <3>1, <3>2
  <2>4. step' = step
    BY <2>2 DEF Acquire, Contended, Release, Park, Return, Orphan, Deliver, StallDeath, Crash,
                Begin, store
  <2>5. Lone(w)
    BY <1>1, WorkersAlone
  <2> QED BY <2>3, <2>4, <2>5 DEF Resting, SameStatuses, Lone
<1>2. CASE SameStatuses /\ pc' = pc /\ (inst' = inst \/ inst'.status = "cancelled")
  BY <1>2 DEF Resting
<1> QED BY <1>1, <1>2, SurroundingsSame DEF Next

(* A run fails in one of two ways, and both know of the rollbacks.         *)
LEMMA FailsTruly ==
  ASSUME TypeOK, SoleTick, KnowingTicks, NEW w \in Workers, SettleTerminal(w) \/ FailFast(w),
         inst.status \notin Failures, inst'.status \in Failures
  PROVE  Resting' /\ TellsUndo'
<1>1. PICK m \in Locals : m = loc[w]
  BY DEF TypeOK
<1>2. Knows(pc[w], m)
  BY <1>1 DEF KnowingTicks
<1>3. pc[w] \in {"settle", "failfast"} /\ pc'[w] = "release" /\ step' = step
  BY DEF SettleTerminal, FailFast, TerminalAt, Go, TypeOK
<1>4. Resting'
  <2>1. \A v \in Workers \ {w} : pc'[v] = pc[v] /\ pc[v] \notin Driving
    BY <1>3, WorkersAlone DEF Lone, SoleTick, Driving, Locked, Work
  <2> QED BY <1>3, <2>1 DEF Resting, Driving
<1>5. \A s \in Failures : Finish(inst, s).status = s
  BY DEF Finish, TypeOK, Instances
<1>6. CASE SettleTerminal(w)
  <2>1. Reports(m) /\ m.todo = {}
    BY <1>2, <1>6 DEF Knows, SettleTerminal, TerminalAt
  <2>2. inst'.status = IF m.undoFailed THEN "compensation_failed" ELSE "failed"
    BY <1>1, <1>5, <1>6 DEF SettleTerminal, TerminalAt, Failures
  <2>3. CASE m.undoFailed
    <3>1. PICK j \in Due : step[Undo(j)].status = "failed"
      BY <2>1, <2>3 DEF Reports
    <3>2. /\ j \in Undoable /\ step'[Main(j)].status = "completed"
          /\ step'[Undo(j)].status # "completed"
      BY <1>3, <3>1 DEF Due
    <3> QED BY <1>4, <2>2, <2>3, <3>2 DEF TellsUndo
  <2>4. CASE ~m.undoFailed
    <3>1. \A j \in Due : step'[Undo(j)].status = "completed"
      BY <1>3, <2>1, <2>4 DEF Reports, Undone
    <3> QED BY <1>3, <1>4, <2>2, <2>4, <3>1 DEF TellsUndo, Due
  <2> QED BY <2>3, <2>4
<1>7. CASE FailFast(w)
  <2>1. \A j \in Due : Undone(j)
    BY <1>2, <1>7 DEF Knows, FailFast, TerminalAt
  <2>2. inst'.status = "failed"
    BY <1>5, <1>7 DEF FailFast, TerminalAt, Failures
  <2> QED BY <1>3, <1>4, <2>1, <2>2 DEF TellsUndo, Due, Undone
<1> QED BY <1>6, <1>7

(* Nothing else makes a run fail.                                          *)
LEMMA FailingStep ==
  ASSUME TypeOK, SoleTick, KnowingTicks, [Next]_vars,
         inst.status \notin Failures, inst'.status \in Failures
  PROVE  Resting' /\ TellsUndo'
<1>n. inst' # inst /\ inst'.status \notin Live \cup {"completed", "cancelled"}
  BY DEF Failures, Live
<1>1. ASSUME NEW w \in Workers,
             Work(w) \/ Deliver(w) \/ StallDeath(w) \/ GlueError(w) \/ Crash(w)
      PROVE  SettleTerminal(w) \/ FailFast(w)
  <2>1. ~(\/ Acquire(w) \/ Contended(w) \/ Release(w) \/ Park(w) \/ Return(w) \/ Orphan(w)
          \/ Deliver(w) \/ StallDeath(w) \/ Crash(w))
    BY <1>n, NotDriving
  <2>2. ~(\/ ReplaySettled(w) \/ Refused(w) \/ ExistingStep(w) \/ ReadSleep(w) \/ WakeUp(w)
          \/ ClaimAttempt(w) \/ RunBody(w) \/ SaveResult(w) \/ SaveRetry(w) \/ SaveFailure(w) \/ GlueError(w)
          \/ EnterFailure(w))
    BY <1>n DEF ReplaySettled, Refused, ExistingStep, ReadSleep, WakeUp, ClaimAttempt, RunBody,
                SaveResult, SaveRetry, SaveFailure, GlueError, EnterFailure, store
  <2>3. ~Begin(w)
    <3>1. BeginTick(inst) = inst \/ BeginTick(inst).status \in Live
      BY DEF BeginTick, Exists, TypeOK, Instances, Live
    <3> QED BY <1>n, <3>1 DEF Begin
  <2>4. ~(FreshStep(w) \/ FreshSleep(w))
    <3>1. AllocSeq(inst).status = inst.status
      BY DEF AllocSeq, TypeOK, Instances
    <3> QED BY <3>1 DEF FreshStep, FreshSleep
  <2>5. ~(MarkYielded(w) \/ MarkCompensating(w))
    <3>1. \A s \in {"yielded", "compensating"} :
            UpdateStatus(inst, s) = inst \/ UpdateStatus(inst, s).status = s
      BY DEF UpdateStatus, Terminal, TypeOK, Instances
    <3> QED BY <1>n, <3>1 DEF MarkYielded, MarkCompensating, Live
  <2>6. ~(CompleteRun(w) \/ CancelRun(w))
    <3>1. \A s \in {"completed", "cancelled"} : Finish(inst, s).status = s
      BY DEF Finish, TypeOK, Instances
    <3> QED BY <1>n, <3>1 DEF CompleteRun, CancelRun, TerminalAt
  <2> QED BY <1>1, <2>1, <2>2, <2>3, <2>4, <2>5, <2>6 DEF Work
<1>2. \E w \in Workers : SettleTerminal(w) \/ FailFast(w)
  BY <1>n, <1>1, SurroundingsSame DEF Next
<1> QED BY <1>2, FailsTruly

(* A step of the runtime keeps the truth.                                  *)
LEMMA RuntimeTruth ==
  ASSUME TypeOK, SoleTick, KnowingTicks, RestsFailed, Reopening, TellsUndo,
         [Next]_vars, call' = call
  PROVE  RestsFailed' /\ Reopening' /\ TellsUndo'
<1>1. CASE inst.status \in Terminal /\ Resting
  <2>1. Resting' /\ SameStatuses /\ (inst' = inst \/ inst'.status = "cancelled")
    BY <1>1, RestStep
  <2>2. Due' = Due /\ \A j \in Undoable : Undone(j)' <=> Undone(j)
    BY <2>1, SameKnows
  <2>3. Due \subseteq Undoable
    BY DEF Due
  <2>4. Reopening'
    <3>1. inst'.status \in Terminal
      BY <1>1, <2>1 DEF Terminal
    <3> QED BY <2>1, <2>2, <2>3, <3>1 DEF Reopening
  <2>5. \A i \in Undoable : /\ step'[Main(i)].status = step[Main(i)].status
                            /\ step'[Undo(i)].status = step[Undo(i)].status
    BY <2>1, StepKeys DEF SameStatuses
  <2>6. TellsUndo'
    BY <2>1, <2>5 DEF TellsUndo
  <2> QED BY <2>1, <2>4, <2>6 DEF RestsFailed
<1>2. CASE ~(inst.status \in Terminal /\ Resting)
  <2>1. inst.status \notin Failures
    BY <1>2 DEF RestsFailed, Failures, Terminal
  <2>2. Reopening'
    BY <1>2 DEF Reopening
  <2>3. CASE inst'.status \in Failures
    BY <2>1, <2>2, <2>3, FailingStep DEF RestsFailed
  <2>4. CASE inst'.status \notin Failures
    BY <2>2, <2>4 DEF RestsFailed, TellsUndo, Failures
  <2> QED BY <2>3, <2>4
<1> QED BY <1>1, <1>2

---------------------------------------------------------------------------
(* The calls.                                                              *)

(* A reset leaves what is completed as it is, and a retried compensation   *)
(* leaves the forward steps alone.                                         *)
LEMMA ResetTruth ==
  ASSUME ActionsInv, Reached, KnowingTicks, Reopening, TellsUndo,
         NEW c \in Callers, ResetSteps(c)
  PROVE  /\ Due' = Due /\ \A j \in Undoable : Undone(j)' <=> Undone(j)
         /\ Reached' /\ KnowingTicks' /\ TellsUndo'
<1> USE DEF ActionsInv, ActionsTypeOK
<1>1. /\ inst' = inst /\ pc' = pc /\ loc' = loc
      /\ \A k \in Keys : step'[k] = IF k \in call[c].failed THEN NoStep ELSE step[k]
      /\ \A k \in call[c].failed : step[k].status = "failed"
      /\ Resting
      /\ call[c].op \in {"retry", "retryCompensation"}
      /\ call[c].op = "retry" => \A j \in Due : Undone(j)
      /\ call[c].op = "retryCompensation" => \A k \in call[c].failed : k[1] # "main"
  BY DEF ResetSteps, SeenFailed, Reopening
<1>2. \A k \in Keys : step'[k].status = "completed" <=> step[k].status = "completed"
  BY <1>1 DEF NoStep
<1>3. Due' = Due /\ \A j \in Undoable : Undone(j)' <=> Undone(j)
  BY <1>2, StepKeys DEF Due, Undone
<1>4. Due \subseteq Undoable
  BY DEF Due
<1>5. Reached'
  <2>1. CASE call[c].op = "retry"
    BY <1>1, <1>3, <1>4, <2>1 DEF Reached
  <2>2. CASE call[c].op = "retryCompensation"
    <3>1. \A i \in 1..N : step'[Main(i)] = step[Main(i)]
      <4>1. \A i \in 1..N : Main(i) \in Keys /\ Main(i)[1] = "main"
        BY StepKeys DEF Main
      <4> QED BY <1>1, <2>2, <4>1
    <3>2. \A j \in Due : Passed(j) => Passed(j)'
      <4>1. \A j \in Due : j \in 1..N /\ \A l \in 1..(j - 1) : l \in 1..N
        BY <1>4, StepKeys, ProcessorAssumption
      <4> QED BY <3>1, <4>1 DEF Passed
    <3> QED BY <1>3, <1>4, <3>2 DEF Reached
  <2> QED BY <1>1, <2>1, <2>2
<1>6. ASSUME NEW w \in Workers
      PROVE  Knows(pc[w], loc[w])'
  <2>1. PICK p \in Places, m \in Locals : p = pc[w] /\ m = loc[w]
    BY DEF TypeOK
  <2>2. Knows(p, m) /\ p \notin Driving
    BY <1>1, <2>1 DEF KnowingTicks, Resting
  <2> QED BY <1>1, <2>1, <2>2, RestKnows
<1>7. TellsUndo'
  BY <1>1, <1>2, StepKeys DEF TellsUndo
<1> QED BY <1>3, <1>5, <1>6, <1>7 DEF KnowingTicks

(* Every other call leaves the records alone and makes nothing failed.     *)
LEMMA CallStays ==
  ASSUME ActionsInv, Around, ~forgotten', \A c \in Callers : ~ResetSteps(c)
  PROVE  /\ step' = step /\ pc' = pc /\ loc' = loc
         /\ inst' = inst \/ inst'.status \notin Failures
<1> USE DEF ActionsInv, ActionsTypeOK
<1>1. \A c \in Callers : ~ForgetRun(c)
  BY DEF ForgetRun
<1>2. \A s \in {"running", "compensating"} :
        UpdateStatus(inst, s) = inst \/ UpdateStatus(inst, s).status = s
  BY DEF UpdateStatus, Terminal, TypeOK, Instances
<1>3. Finish(inst, "cancelled").status = "cancelled"
  BY DEF Finish, TypeOK, Instances
<1>4. inst' = inst \/ inst'.status \notin Failures
  <2>1. ASSUME NEW c \in Callers, Reopen(c)
        PROVE  inst' = inst \/ inst'.status \notin Failures
    BY <1>2, <2>1 DEF Reopen, Reentered, Failures
  <2>2. ASSUME NEW c \in Callers, MarkCancelled(c)
        PROVE  inst' = inst \/ inst'.status \notin Failures
    BY <1>3, <2>2 DEF MarkCancelled, Failures
  <2> QED BY <1>1, <2>1, <2>2 DEF Around, Call, CallStep, CallerDies, JobPruned, ReadSteps,
        FindCarrier, ReadJobState, ReviveJob, RemoveJob, vars, store
<1>5. step' = step
  BY <1>1 DEF Around, Call, CallStep, CallerDies, JobPruned, ReadSteps, Reopen,
        FindCarrier, ReadJobState, ReviveJob, MarkCancelled, RemoveJob, vars, store
<1> QED BY <1>4, <1>5, WorkersStay

(* A retry begins on a failed run whose rollbacks are all done, a retried  *)
(* compensation on one that failed; both go on with what they found.       *)
LEMMA CallReopens ==
  ASSUME OneCall, ~forgotten', ActionsInv, Reached, KnowingTicks, RestsFailed,
         Reopening, TellsUndo, Around
  PROVE  Reopening'
<1> USE DEF ActionsInv, ActionsTypeOK
<1>o. \A c, d \in Callers : c = d
  BY DEF OneCall
<1>s. pc' = pc
  BY WorkersStay
<1>1. ASSUME NEW c \in Callers, NEW op \in Ops, Call(c, op)
      PROVE  Reopening'
  <2> DEFINE rec == [NoCall EXCEPT !.op = op, !.at = FirstCall(op)]
  <2>1. /\ call'[c] = rec /\ inst' = inst /\ step' = step
        /\ inst.status \in Accepts(op)
    BY <1>1 DEF Call, Enter, vars
  <2>2. rec.op = op /\ rec.at = FirstCall(op)
    BY DEF NoCall
  <2>3. FirstCall(op) \in {"carrier", "cancel", "remove"} \/ op \in {"retry", "retryCompensation"}
    BY DEF FirstCall, Ops
  <2>4. FirstCall(op) \in {"carrier", "steps", "cancel", "remove"}
    BY DEF FirstCall, Ops
  <2>5. ASSUME op \in {"retry", "retryCompensation"}
        PROVE  /\ inst'.status \in Terminal /\ Resting'
               /\ op = "retry" => \A j \in Due' : Undone(j)'
    <3>1. inst.status = IF op = "retry" THEN "failed" ELSE "compensation_failed"
      BY <2>1, <2>5 DEF Accepts
    <3>2. Resting
      BY <3>1 DEF RestsFailed
    <3>3. op = "retry" => \A j \in Due : Undone(j)
      BY <3>1 DEF TellsUndo, Due, Undone
    <3> QED BY <1>s, <2>1, <3>1, <3>2, <3>3 DEF Terminal, Resting, Due, Undone
  <2> HIDE DEF rec
  <2> QED BY <1>o, <2>1, <2>2, <2>3, <2>4, <2>5 DEF Reopening
<1>2. ASSUME NEW c \in Callers, CallerDies(c)
      PROVE  Reopening'
  <2>1. call'[c].op = "resume" /\ call'[c].at = "none"
    BY <1>2 DEF CallerDies, Enter, NoCall
  <2> QED BY <1>o, <2>1 DEF Reopening
<1>3. ASSUME NEW c \in Callers, ReadSteps(c)
      PROVE  Reopening'
  <2>1. /\ call[c].at = "steps" /\ call'[c].at = "reset" /\ call'[c].op = call[c].op
        /\ call'[c].failed = Resets(call[c].op) /\ inst' = inst /\ step' = step
    BY <1>3 DEF ReadSteps, Enter, CallStates, vars
  <2>2. call[c].op = "retryCompensation" => \A k \in call'[c].failed : k[1] # "main"
    BY <2>1 DEF Resets
  <2> QED BY <1>o, <1>s, <2>1, <2>2 DEF Reopening, Resting, Due, Undone
<1>4. ASSUME NEW c \in Callers, ResetSteps(c)
      PROVE  Reopening'
  <2>1. /\ call[c].at = "reset" /\ call'[c].at = "mark" /\ call'[c].op = call[c].op
        /\ inst' = inst
    BY <1>4 DEF ResetSteps, At, Enter, CallStates
  <2>2. Due' = Due /\ (\A j \in Undoable : Undone(j)' <=> Undone(j)) /\ Due \subseteq Undoable
    BY <1>4, ResetTruth DEF Due
  <2> QED BY <1>o, <1>s, <2>1, <2>2 DEF Reopening, Resting
<1>5. ASSUME NEW c \in Callers,
             \/ Reopen(c) \/ FindCarrier(c) \/ ReadJobState(c) \/ ReviveJob(c)
             \/ MarkCancelled(c) \/ RemoveJob(c)
      PROVE  Reopening'
  <2>1. call'[c].op = call[c].op
    <3>1. CASE FindCarrier(c) \/ ReadJobState(c)
      <4>1. call[c] \in CallStates
        OBVIOUS
      <4>2. /\ [call[c] EXCEPT !.at = "state"].op = call[c].op
            /\ \A seen : [call[c] EXCEPT !.at = "revive", !.seen = seen].op = call[c].op
        BY <4>1 DEF CallStates
      <4>3. \/ Enter(c, [call[c] EXCEPT !.at = "state"])
            \/ \E seen : Enter(c, [call[c] EXCEPT !.at = "revive", !.seen = seen])
        <5>1. CASE FindCarrier(c) /\ job.state = "gone"
          BY <5>1 DEF FindCarrier
        <5>2. CASE FindCarrier(c) /\ job.state # "gone"
          BY <5>2 DEF FindCarrier
        <5>3. CASE ReadJobState(c)
          BY <5>3 DEF ReadJobState
        <5> QED BY <3>1, <5>1, <5>2, <5>3
      <4>4. ASSUME NEW rec, Enter(c, rec)
            PROVE  call'[c] = rec
        BY <4>4 DEF Enter
      <4> QED BY <4>2, <4>3, <4>4
    <3>2. CASE Reopen(c) \/ ReviveJob(c) \/ MarkCancelled(c) \/ RemoveJob(c)
      <4>1. PICK place \in {"carrier", "done", "thrown", "remove", "forget"} : At(c, place)
        BY <3>2 DEF Reopen, ReviveJob, MarkCancelled, RemoveJob
      <4> QED BY <4>1 DEF At, Enter, CallStates
    <3> QED BY <1>5, <3>1, <3>2
  <2>2. call'[c].at \in {"carrier", "state", "revive", "done", "thrown", "remove", "forget"}
    <3>1. CASE FindCarrier(c) \/ ReadJobState(c)
      <4>1. call[c] \in CallStates
        OBVIOUS
      <4>2. /\ [call[c] EXCEPT !.at = "state"].at = "state"
            /\ \A seen : [call[c] EXCEPT !.at = "revive", !.seen = seen].at = "revive"
        BY <4>1 DEF CallStates
      <4>3. \/ Enter(c, [call[c] EXCEPT !.at = "state"])
            \/ \E seen : Enter(c, [call[c] EXCEPT !.at = "revive", !.seen = seen])
        <5>1. CASE FindCarrier(c) /\ job.state = "gone"
          BY <5>1 DEF FindCarrier
        <5>2. CASE FindCarrier(c) /\ job.state # "gone"
          BY <5>2 DEF FindCarrier
        <5>3. CASE ReadJobState(c)
          BY <5>3 DEF ReadJobState
        <5> QED BY <3>1, <5>1, <5>2, <5>3
      <4>4. ASSUME NEW rec, Enter(c, rec)
            PROVE  call'[c] = rec
        BY <4>4 DEF Enter
      <4> QED BY <4>2, <4>3, <4>4
    <3>2. CASE Reopen(c) \/ ReviveJob(c) \/ MarkCancelled(c) \/ RemoveJob(c)
      <4>1. PICK place \in {"carrier", "done", "thrown", "remove", "forget"} : At(c, place)
        BY <3>2 DEF Reopen, ReviveJob, MarkCancelled, RemoveJob
      <4> QED BY <4>1 DEF At, Enter, CallStates
    <3> QED BY <1>5, <3>1, <3>2
  <2> QED BY <1>o, <2>1, <2>2 DEF Reopening
<1>6. ASSUME NEW c \in Callers
      PROVE  ~ForgetRun(c)
  BY DEF ForgetRun
<1>7. CASE JobPruned
  BY <1>7, <1>s DEF JobPruned, Reopening, Resting, Due, Undone, store
<1> QED BY <1>1, <1>2, <1>3, <1>4, <1>5, <1>6, <1>7 DEF Around, CallStep

(* A call keeps the truth.                                                 *)
LEMMA CallTruth ==
  ASSUME OneCall, ~forgotten', ActionsInv, Reached, KnowingTicks, RestsFailed,
         Reopening, TellsUndo, Around
  PROVE  Reached' /\ KnowingTicks' /\ RestsFailed' /\ Reopening' /\ TellsUndo'
<1>1. Reopening'
  BY CallReopens
<1>2. ASSUME NEW c \in Callers, ResetSteps(c)
      PROVE  Reached' /\ KnowingTicks' /\ RestsFailed' /\ TellsUndo'
  <2>1. inst' = inst /\ pc' = pc
    BY <1>2 DEF ResetSteps
  <2> QED BY <1>2, <2>1, ResetTruth DEF RestsFailed, Resting
<1>3. CASE \A c \in Callers : ~ResetSteps(c)
  <2>1. /\ step' = step /\ pc' = pc /\ loc' = loc
        /\ inst' = inst \/ inst'.status \notin Failures
    BY <1>3, CallStays
  <2>2. Reached' /\ KnowingTicks'
    <3>1. ASSUME NEW w \in Workers
          PROVE  Knows(pc[w], loc[w])'
      <4>1. PICK p \in Places, m \in Locals : p = pc[w] /\ m = loc[w]
        BY DEF ActionsInv, ActionsTypeOK, TypeOK
      <4>2. Knows(p, m)
        BY <4>1 DEF KnowingTicks
      <4> QED BY <2>1, <4>1, <4>2, SameKnows DEF SameStatuses
    <3> QED BY <2>1, <3>1, SameKnows DEF SameStatuses, KnowingTicks
  <2>3. RestsFailed'
    BY <2>1 DEF RestsFailed, Resting, Failures
  <2>4. TellsUndo'
    BY <2>1 DEF TellsUndo, Failures
  <2> QED BY <1>1, <2>2, <2>3, <2>4
<1> QED BY <1>1, <1>2, <1>3

(* So the invariant is inductive.                                          *)
LEMMA TruthStep ==
  ASSUME OneCall, TruthInv, [ActionsNext]_allVars
  PROVE  TruthInv'
<1> USE DEF TruthInv
<1>n. NoGlueErrors'
  <2>1. CASE [Next]_vars
    BY <2>1, FaultsShrink DEF NoGlueErrors, Faults, ActionsInv, ActionsTypeOK
  <2>2. CASE Around
    BY <2>2, WorkersStay DEF NoGlueErrors
  <2> QED BY <2>1, <2>2 DEF ActionsNext, Around, allVars
<1>f. forgotten => forgotten'
  BY ForgottenStays
<1>1. ActionsInv'
  BY ActionsStep
<1>2. CASE ~forgotten' /\ [Next]_vars /\ UNCHANGED actionVars
  <2>1. TypeOK /\ SoleTick /\ OpenClaims /\ call' = call
    BY <1>2 DEF ActionsInv, ActionsTypeOK, actionVars
  <2> QED BY <1>1, <1>2, <1>f, <1>n, <2>1, NextKnows, RuntimeTruth
<1>3. CASE ~forgotten' /\ Around
  BY <1>1, <1>3, <1>f, <1>n, CallTruth
<1> QED BY <1>1, <1>2, <1>3, <1>n DEF ActionsNext, Around, allVars

(* The status of a failed run tells the truth about its rollbacks, however *)
(* often it was retried, resumed or cancelled and wherever a caller or a   *)
(* worker died (runtime.ts, run.ts), until it is deleted: while calls come *)
(* one after the other, the instance lock does not lapse under a live      *)
(* worker, and the processor throws nothing but the errors of its steps.   *)
THEOREM StatusTrue ==
  ASSUME Budget["lockLapse"] = 0, Budget["transient"] = 0, Budget["fatal"] = 0,
         OneCall
  PROVE  ActionsSpec => []StatusTellsUndo
<1>1. ActionsInit => TruthInv
  <2> SUFFICES ASSUME ActionsInit
               PROVE  TruthInv
    OBVIOUS
  <2>1. ActionsInv
    BY ActionsBegin
  <2>2. /\ inst.status = "absent" /\ \A k \in Keys : step[k].status = "none"
        /\ \A w \in Workers : pc[w] = "idle"
        /\ \A c \in Callers : call[c].op = "resume" /\ call[c].at = "none"
        /\ faults = Budget
    BY DEF ActionsInit, Init, NoInstance, NoStep, NoCall
  <2>3. Reached
    BY <2>2, StepKeys DEF Reached, Due
  <2>4. KnowingTicks
    BY <2>2 DEF KnowingTicks, Knows, Writing
  <2>5. RestsFailed /\ Reopening /\ TellsUndo /\ NoGlueErrors
    BY <2>2 DEF RestsFailed, Reopening, TellsUndo, NoGlueErrors
  <2> QED BY <2>1, <2>3, <2>4, <2>5 DEF TruthInv
<1>2. TruthInv /\ [ActionsNext]_allVars => TruthInv'
  BY TruthStep
<1>3. TruthInv => StatusTellsUndo
  BY DEF TruthInv, StatusTellsUndo
<1> QED BY <1>1, <1>2, <1>3, PTL DEF ActionsSpec
=============================================================================
