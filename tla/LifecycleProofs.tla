--------------------------- MODULE LifecycleProofs ---------------------------
(***************************************************************************)
(* A run keeps the promise of RunLifecycle, for every processor, number of *)
(* workers and number of crashes, yields and early deliveries.             *)
(*                                                                         *)
(* What makes it so is the replay: a tick walks the processor from its     *)
(* first step and passes a step only when its record is settled, so what a *)
(* worker holds in memory (the rollbacks it registered, those left to run, *)
(* the report) is at every place what the records in the store say.        *)
(*                                                                         *)
(* The last section is about the other end: under the faults it names, a   *)
(* run that gives up has a step that failed, a fatal error, or a job that  *)
(* died to show for it.                                                    *)
(***************************************************************************)
EXTENDS DurableRuntime, DurableRuntimeProofs, FinishProofs

(* The faults the promise is made under.  What is left out is what breaks  *)
(* it: a lapse of the instance lock, a cancel, an error thrown between two *)
(* steps, and, when workers may die, a second life of a job that died of a *)
(* stall, by a retry or by a tick that outlives its job lock.              *)
NoSecondLife == Budget["retry"] = 0 /\ Budget["jobLapse"] = 0

Undisturbed ==
  /\ Budget["lockLapse"] = 0 /\ Budget["cancel"] = 0
  /\ Budget["transient"] = 0 /\ Budget["fatal"] = 0
  /\ Budget["crash"] = 0 \/ NoSecondLife

---------------------------------------------------------------------------
(* What the records say.                                                   *)

Settled(k) == step[k].status \in {"completed", "failed"}

(* Rollbacks that have to run if the run gives up.                         *)
Due == {j \in Undoable : step[Main(j)].status = "completed"}

(* The processor can be at step i.                                         *)
Passed(i) ==
  \A j \in 1..(i - 1) : \/ step[Main(j)].status = "completed"
                        \/ j \in Optional /\ step[Main(j)].status = "failed"

(* A failed step the processor does not survive.                           *)
Barrier == \E i \in (1..N) \ Optional : step[Main(i)].status = "failed"

GaveUp == inst.status \in {"compensating", "failed", "compensation_failed"}

(* Steps are recorded in the processor's order, and numbered in it.        *)
InOrder ==
  /\ \A i \in 1..N : step[Main(i)].status # "none" => Passed(i)
  /\ \A i, j \in 1..N :
       i < j /\ step[Main(i)].status # "none" /\ step[Main(j)].status # "none"
         => step[Main(i)].seq < step[Main(j)].seq
  /\ \A k \in Keys :
       IF step[k].status = "none" THEN step[k].wake = "none"
       ELSE step[k].seq <= inst.stepSeq /\ Exists(inst)

(* Rollbacks are recorded newest first, of completed steps and of a run    *)
(* that gave up; onFailure after them; and a failed run is through both.   *)
Undoes ==
  /\ \A i \in Undoable : step[Undo(i)].status # "none" =>
       /\ GaveUp /\ i \in Due
       /\ \A j \in Due : j > i => Settled(Undo(j))
  /\ step[OnFailure].status # "none" =>
       GaveUp /\ HasOnFailure /\ \A j \in Due : Settled(Undo(j))
  /\ inst.status \in {"failed", "compensation_failed"} =>
       /\ \A j \in Due : Settled(Undo(j))
       /\ HasOnFailure => Settled(OnFailure)

---------------------------------------------------------------------------
(* What a tick's memory says, by the phase it is in.                       *)

Fresh(m) == m.key = Main(1) /\ m.regs = {} /\ m.todo = {} /\ ~m.undoFailed

(* In the processor, with the rollbacks of the steps before it registered. *)
Forward(m) ==
  /\ m.key[1] = "main" /\ m.todo = {} /\ ~m.undoFailed
  /\ m.regs = {j \in Due : j < m.key[2]} /\ Passed(m.key[2])
  /\ inst.status \in {"running", "compensating"}
  /\ m.entered <=> inst.status = "compensating"

ForwardLive(m) == Forward(m) /\ m.mode = "normal" /\ inst.status = "running"

(* In the failure sequence, with a report of the rollbacks that are over.  *)
Swept(m) ==
  /\ inst.status = "compensating"
  /\ m.regs = Due /\ m.todo \subseteq Due
  /\ \A j \in Due \ m.todo : Settled(Undo(j))
  /\ m.undoFailed <=> \E j \in Due \ m.todo : step[Undo(j)].status = "failed"

Undoing(m) ==
  /\ m.key[1] = "compensation" /\ Swept(m)
  /\ m.key[2] \in m.todo /\ \A j \in m.todo : j <= m.key[2]

Telling(m) == m.key[1] = "failure" /\ Swept(m) /\ m.todo = {} /\ HasOnFailure

At(m) == Forward(m) \/ Undoing(m) \/ Telling(m)

(* Between the processor and the failure sequence.                         *)
GivesUp(m) ==
  /\ m.todo = {} /\ ~m.undoFailed /\ m.regs = Due
  /\ Barrier \/ m.mode = "settle"
  /\ inst.status \in {"running", "compensating"}

(* The memory m of a tick at place p.                                      *)
Sound(p, m) ==
  /\ p \in {"orphan", "acquire", "begin"} => Fresh(m)
  /\ p = "step" => At(m)
  /\ p \in {"claim", "body", "save"} =>
       /\ ForwardLive(m) \/ Undoing(m) \/ Telling(m)
       /\ m.rec.seq = step[m.key].seq
  /\ p \in {"wake", "awake", "yielded"} => ForwardLive(m)
  /\ p \in {"wake", "awake"} => IsSleep(m.key)
  /\ p \in {"enter", "mark", "failfast"} => GivesUp(m)
  /\ p \in {"mark", "failfast"} => inst.status = "running"
  /\ p = "failfast" => Due = {} /\ ~HasOnFailure
  /\ p = "settle" => Swept(m) /\ m.todo = {} /\ (HasOnFailure => Settled(OnFailure))
  /\ p = "complete" => inst.status = "running" /\ Passed(N + 1)
  /\ p = "release" => m.mode = "normal" \/ inst.status # "compensating"
  /\ p \notin {"retriable", "cancelling"}

SoundTicks == \A w \in Workers : Sound(pc[w], loc[w])

---------------------------------------------------------------------------
(* What the job says.                                                      *)

Within == ~removing /\ \A f \in Faults : faults[f] <= Budget[f]

JobHeld ==
  Budget["jobLapse"] = 0 =>
    \A w \in Workers : pc[w] # "idle" /\ loc[w].mode = "normal" => Claimed(job, w)

JobDead ==
  Budget["retry"] = 0 =>
    \A w \in Workers : pc[w] # "idle" /\ loc[w].mode = "settle" => job.state = "failed"

SettlingTick == \E w \in Workers : pc[w] \in Driving /\ loc[w].mode = "settle"

(* Why a compensating run never goes forward again: a tick that replays it *)
(* is stopped by the step that failed, or there is no such tick.           *)
Decided ==
  inst.status = "compensating" =>
    Barrier \/ SettlingTick \/ (NoSecondLife /\ job.state = "failed")

Promised ==
  Within /\ InOrder /\ Undoes /\ SoundTicks /\ JobHeld /\ JobDead /\ Decided

---------------------------------------------------------------------------
(* The step at the key of a tick is settled: what holds of the memory with *)
(* which the tick goes on.                                                 *)

(* All of it is as before, and the step counts as passed.                  *)
Past(m) ==
  /\ m.key[1] = "main" /\ m.todo = {} /\ ~m.undoFailed
  /\ m.regs = {j \in Due : j < m.key[2] + 1} /\ Passed(m.key[2] + 1)
  /\ inst.status \in {"running", "compensating"}
  /\ m.entered <=> inst.status = "compensating"

After(m) ==
  \/ Past(m)
  \/ m.key[1] = "compensation" /\ Swept([m EXCEPT !.todo = @ \ {m.key[2]}])
  \/ m.key[1] = "failure" /\ Swept(m) /\ m.todo = {} /\ Settled(OnFailure)

AfterFailure(m) ==
  \/ m.key[1] = "main" /\ m.key[2] \in Optional /\ Past(m)
  \/ /\ m.key[1] = "main" /\ m.key[2] \notin Optional /\ GivesUp(m)
     /\ m.entered <=> inst.status = "compensating"
  \/ /\ m.key[1] = "compensation"
     /\ Swept([m EXCEPT !.todo = @ \ {m.key[2]}, !.undoFailed = TRUE])
  \/ m.key[1] = "failure" /\ Swept(m) /\ m.todo = {} /\ Settled(OnFailure)

LEMMA PairKeys ==
  ASSUME NEW k \in Keys
  PROVE  /\ k[1] = "main" => k = Main(k[2]) /\ k[2] \in 1..N
         /\ k[1] = "compensation" => k = Undo(k[2]) /\ k[2] \in Undoable
         /\ k[1] = "failure" => k = OnFailure
         /\ k[1] \in {"main", "compensation", "failure"}
  BY DEF Keys, Main, Undo, OnFailure

LEMMA DueSteps ==
  ASSUME NEW j \in Due
  PROVE  j \in Nat /\ j \in 1..N /\ j \in Undoable /\ step[Main(j)].status = "completed"
  BY ProcessorAssumption DEF Due

LEMMA AfterCompleted ==
  \A m \in Locals :
    At(m) /\ step[m.key].status = "completed" => After(Register(m))
<1> SUFFICES ASSUME NEW m \in Locals, At(m), step[m.key].status = "completed"
             PROVE  After(Register(m))
  OBVIOUS
<1>k. m.key \in Keys
  BY DEF Locals
<1>1. CASE Forward(m)
  <2> DEFINE i == m.key[2]
  <2>1. i \in 1..N /\ step[Main(i)].status = "completed"
    BY <1>1, <1>k, PairKeys DEF Forward
  <2>2. Passed(i + 1)
    BY <2>1, <1>1 DEF Forward, Passed
  <2>3. Register(m) = [m EXCEPT !.regs = {j \in Due : j < i + 1}]
    <3>1. CASE i \in Undoable
      <4>1. i \in Due /\ i \in Nat
        BY <2>1, <3>1 DEF Due
      <4>2. {j \in Due : j < i} \cup {i} = {j \in Due : j < i + 1}
        BY <2>1, <4>1, DueSteps
      <4> QED BY <3>1, <4>2, <1>1 DEF Register, Forward
    <3>2. CASE i \notin Undoable
      <4>1. {j \in Due : j < i} = {j \in Due : j < i + 1}
        BY <2>1, <3>2, DueSteps
      <4> QED BY <3>2, <4>1, <1>1 DEF Register, Forward, Locals
    <3> QED BY <3>1, <3>2
  <2>4. Past(Register(m))
    BY <1>1, <2>2, <2>3 DEF Forward, Past, Locals
  <2> QED BY <2>4 DEF After
<1>2. CASE Undoing(m)
  <2>1. Register(m) = m /\ m.key[2] \in Undoable /\ step[Undo(m.key[2])].status = "completed"
    BY <1>2, <1>k, PairKeys DEF Undoing, Register
  <2>2. Swept([m EXCEPT !.todo = @ \ {m.key[2]}])
    BY <1>2, <2>1 DEF Undoing, Swept, Locals, Settled
  <2> QED BY <1>2, <2>1, <2>2 DEF After, Undoing
<1>3. CASE Telling(m)
  BY <1>3, <1>k, PairKeys DEF Telling, After, Register, Settled
<1> QED BY <1>1, <1>2, <1>3 DEF At

LEMMA AfterFailed ==
  \A m \in Locals :
    At(m) /\ InOrder /\ step[m.key].status = "failed" => AfterFailure(m)
<1> SUFFICES ASSUME NEW m \in Locals, At(m), InOrder, step[m.key].status = "failed"
             PROVE  AfterFailure(m)
  OBVIOUS
<1>k. m.key \in Keys
  BY DEF Locals
<1>1. CASE Forward(m)
  <2> DEFINE i == m.key[2]
  <2>1. i \in 1..N /\ step[Main(i)].status = "failed"
    BY <1>1, <1>k, PairKeys DEF Forward
  <2>2. CASE i \in Optional
    <3>1. Passed(i + 1)
      BY <2>1, <2>2, <1>1 DEF Forward, Passed
    <3>2. {j \in Due : j < i} = {j \in Due : j < i + 1}
      BY <2>1, DueSteps
    <3> QED BY <1>1, <2>2, <3>1, <3>2 DEF Forward, Past, AfterFailure
  <2>3. CASE i \notin Optional
    <3>1. {j \in Due : j < i} = Due
      <4>1. ASSUME NEW j \in Due, j > i
            PROVE  FALSE
        <5>1. Passed(j) /\ j \in 1..N /\ i \in 1..(j - 1)
          BY <2>1, <4>1, DueSteps DEF InOrder
        <5> QED BY <2>1, <2>3, <5>1 DEF Passed
      <4> QED BY <2>1, <4>1, DueSteps
    <3>2. Barrier
      BY <2>1, <2>3 DEF Barrier
    <3> QED BY <1>1, <2>3, <3>1, <3>2 DEF Forward, GivesUp, AfterFailure
  <2> QED BY <2>2, <2>3
<1>2. CASE Undoing(m)
  <2>1. m.key[2] \in Due /\ step[Undo(m.key[2])].status = "failed"
    BY <1>2, <1>k, PairKeys DEF Undoing, Swept
  <2>2. Swept([m EXCEPT !.todo = @ \ {m.key[2]}, !.undoFailed = TRUE])
    BY <1>2, <2>1 DEF Undoing, Swept, Locals, Settled
  <2> QED BY <1>2, <2>2 DEF AfterFailure, Undoing
<1>3. CASE Telling(m)
  BY <1>3, <1>k, PairKeys DEF Telling, AfterFailure, Settled
<1> QED BY <1>1, <1>2, <1>3 DEF At

(* The first step that is not settled bounds what can have completed.      *)
LEMMA AfterUnsettled ==
  \A m \in Locals :
    Forward(m) /\ InOrder /\ step[m.key].status \in {"none", "running"} => m.regs = Due
<1> SUFFICES ASSUME NEW m \in Locals, Forward(m), InOrder,
                    step[m.key].status \in {"none", "running"}
             PROVE  m.regs = Due
  OBVIOUS
<1>1. m.key[2] \in 1..N /\ step[Main(m.key[2])].status \in {"none", "running"}
  BY PairKeys DEF Forward, Locals
<1>2. ASSUME NEW j \in Due, ~(j < m.key[2])
      PROVE  FALSE
  <2>1. j \in 1..N /\ j # m.key[2] /\ Passed(j)
    BY <1>1, <1>2, ProcessorAssumption DEF Due, InOrder
  <2> QED BY <1>1, <1>2, <2>1 DEF Passed
<1> QED BY <1>2 DEF Forward

(* The same facts about the state a step ends in.                          *)
LEMMA AfterCompletedNext ==
  (\A m \in Locals : At(m) /\ step[m.key].status = "completed" => After(Register(m)))'
  BY AfterCompleted, PTL

LEMMA AfterFailedNext ==
  (\A m \in Locals :
     At(m) /\ InOrder /\ step[m.key].status = "failed" => AfterFailure(m))'
  BY AfterFailed, PTL

---------------------------------------------------------------------------
(* Every continuation lands a tick where its memory is sound.              *)

Lands(w, mode) ==
  \E p \in Locked \ {"begin"}, m \in Locals :
    Go(w, p, m) /\ Sound(p, m)' /\ m.mode = mode

(* The rollbacks left to run were called in the order of their numbers.    *)
Called(S) ==
  \A i, j \in S : i < j => step[Main(i)].seq < step[Main(j)].seq

LEMMA DueCalled ==
  ASSUME InOrder
  PROVE  Called(Due)
  BY DueSteps DEF InOrder, Called

LEMMA CompensateLands ==
  ASSUME TypeOK, NEW w \in Workers, NEW mem \in Locals, Compensate(w, mem),
         Swept(mem)', Called(mem.todo)
  PROVE  Lands(w, mem.mode)
<1>t. mem.todo \subseteq Undoable
  BY DEF Locals
<1>1. ASSUME NEW i \in LastCalled(mem.todo), Go(w, "step", [mem EXCEPT !.key = Undo(i)])
      PROVE  Lands(w, mem.mode)
  <2> DEFINE m == [mem EXCEPT !.key = Undo(i)]
  <2>1. /\ i \in mem.todo /\ i \in Undoable
        /\ \A j \in mem.todo : step[Main(j)].seq <= step[Main(i)].seq
    BY <1>t DEF LastCalled
  <2>2. ASSUME NEW j \in mem.todo, i < j
        PROVE  FALSE
    <3>1. step[Main(i)].seq < step[Main(j)].seq
      BY <2>1, <2>2 DEF Called
    <3>2. step[Main(i)].seq \in Nat /\ step[Main(j)].seq \in Nat
      BY <1>t, <2>1, KeyFacts, ProcessorAssumption DEF TypeOK, StepRecords
    <3> QED BY <2>1, <3>1, <3>2
  <2>3. \A j \in mem.todo : j <= i
    BY <1>t, <2>1, <2>2, ProcessorAssumption
  <2>4. m \in Locals /\ m.mode = mem.mode
    BY <2>1, KeyFacts DEF Locals
  <2>5. Swept(m)'
    BY DEF Swept, Locals
  <2>6. Undoing(m)'
    BY <2>1, <2>3, <2>5 DEF Undoing, Locals, Undo
  <2>7. Sound("step", m)'
    BY <2>6 DEF Sound, At
  <2> QED BY <1>1, <2>4, <2>7 DEF Lands, Locked
<1>2. ASSUME mem.todo = {}, HasOnFailure, Go(w, "step", [mem EXCEPT !.key = OnFailure])
      PROVE  Lands(w, mem.mode)
  <2> DEFINE m == [mem EXCEPT !.key = OnFailure]
  <2>1. m \in Locals /\ m.mode = mem.mode
    BY KeyFacts DEF Locals
  <2>2. Swept(m)'
    BY DEF Swept, Locals
  <2>3. Telling(m)'
    BY <1>2, <2>2 DEF Telling, Locals, OnFailure
  <2>4. Sound("step", m)'
    BY <2>3 DEF Sound, At
  <2> QED BY <1>2, <2>1, <2>4 DEF Lands, Locked
<1>3. ASSUME mem.todo = {}, ~HasOnFailure, Go(w, "settle", mem)
      PROVE  Lands(w, mem.mode)
  <2>1. Sound("settle", mem)'
    BY <1>3 DEF Sound
  <2> QED BY <1>3, <2>1 DEF Lands, Locked
<1> QED BY <1>1, <1>2, <1>3 DEF Compensate

LEMMA AdvanceLands ==
  ASSUME TypeOK, NEW w \in Workers, NEW mem \in Locals, Advance(w, mem),
         After(mem)', Called(mem.todo), mem.mode = "normal" /\ mem.entered => Barrier'
  PROVE  Lands(w, mem.mode)
<1>k. mem.key \in Keys /\ mem.key[1] \in {"main", "compensation", "failure"}
  BY KeyFacts DEF Locals
<1>1. CASE mem.key[1] = "main"
  <2> DEFINE i == mem.key[2]
  <2>0. Past(mem)' /\ i \in 1..N
    BY <1>k, <1>1, PairKeys DEF After
  <2>1. CASE i < N /\ Go(w, "step", [mem EXCEPT !.key = Main(i + 1)])
    <3> DEFINE m == [mem EXCEPT !.key = Main(i + 1)]
    <3>1. i + 1 \in 1..N
      BY <2>0, <2>1, ProcessorAssumption
    <3>2. m \in Locals /\ m.mode = mem.mode
      BY <3>1, KeyFacts DEF Locals
    <3>3. Forward(m)'
      BY <2>0 DEF Past, Forward, Locals, Main
    <3>4. Sound("step", m)'
      BY <3>3 DEF Sound, At
    <3> QED BY <2>1, <3>2, <3>4 DEF Lands, Locked
  <2>2. CASE i = N /\ Go(w, IF mem.entered THEN "enter" ELSE "complete", mem)
    <3>1. CASE mem.entered
      <4>1. (\A j \in Due : j < N + 1)'
        BY ProcessorAssumption DEF Due
      <4>2. GivesUp(mem)'
        BY <2>0, <2>2, <3>1, <4>1 DEF Past, GivesUp, Locals
      <4>3. Sound("enter", mem)'
        BY <4>2 DEF Sound
      <4> QED BY <2>2, <3>1, <4>3 DEF Lands, Locked
    <3>2. CASE ~mem.entered
      <4>1. Sound("complete", mem)'
        BY <2>0, <2>2, <3>2 DEF Past, Sound
      <4> QED BY <2>2, <3>2, <4>1 DEF Lands, Locked
    <3> QED BY <3>1, <3>2
  <2> QED BY <1>1, <2>1, <2>2 DEF Advance
<1>2. CASE mem.key[1] = "compensation"
  <2> DEFINE m == [mem EXCEPT !.todo = @ \ {mem.key[2]}]
  <2>1. m \in Locals /\ m.mode = mem.mode /\ Called(m.todo)
    BY DEF Locals, Called
  <2>2. Swept(m)'
    BY <1>2 DEF After, Past
  <2>3. Compensate(w, m)
    BY <1>2 DEF Advance
  <2> HIDE DEF m
  <2> QED BY <2>1, <2>2, <2>3, CompensateLands
<1>3. CASE mem.key[1] = "failure"
  <2>1. Sound("settle", mem)'
    BY <1>3 DEF After, Past, Sound
  <2> QED BY <1>3, <2>1 DEF Advance, Lands, Locked
<1> QED BY <1>k, <1>1, <1>2, <1>3

LEMMA StepFailedLands ==
  ASSUME TypeOK, NEW w \in Workers, NEW mem \in Locals, StepFailed(w, mem),
         AfterFailure(mem)', Called(mem.todo), mem.mode = "normal" /\ mem.entered => Barrier'
  PROVE  Lands(w, mem.mode)
<1>k. mem.key \in Keys /\ mem.key[1] \in {"main", "compensation", "failure"}
  BY KeyFacts DEF Locals
<1>1. CASE mem.key[1] = "main" /\ mem.key[2] \in Optional
  <2>1. After(mem)' /\ Advance(w, mem)
    BY <1>1 DEF AfterFailure, After, StepFailed
  <2> QED BY <2>1, AdvanceLands
<1>2. CASE mem.key[1] = "main" /\ mem.key[2] \notin Optional
  <2>1. /\ GivesUp(mem)' /\ (mem.entered <=> (inst.status = "compensating")')
        /\ Classify(w, mem, FALSE)
    BY <1>2 DEF AfterFailure, StepFailed
  <2>2. CASE Go(w, "enter", mem)
    <3>1. Sound("enter", mem)'
      BY <2>1 DEF Sound
    <3> QED BY <2>2, <3>1 DEF Lands, Locked
  <2>3. CASE ~mem.entered /\ mem.regs = {} /\ ~HasOnFailure /\ Go(w, "failfast", mem)
    <3>1. Sound("failfast", mem)'
      BY <2>1, <2>3 DEF Sound, GivesUp
    <3> QED BY <2>3, <3>1 DEF Lands, Locked
  <2> QED BY <2>1, <2>2, <2>3 DEF Classify
<1>3. CASE mem.key[1] = "compensation"
  <2> DEFINE m == [mem EXCEPT !.todo = @ \ {mem.key[2]}, !.undoFailed = TRUE]
  <2>1. m \in Locals /\ m.mode = mem.mode /\ Called(m.todo)
    BY DEF Locals, Called
  <2>2. Swept(m)'
    BY <1>3 DEF AfterFailure
  <2>3. Compensate(w, m)
    BY <1>3 DEF StepFailed
  <2> HIDE DEF m
  <2> QED BY <2>1, <2>2, <2>3, CompensateLands
<1>4. CASE mem.key[1] = "failure"
  <2>1. Sound("settle", mem)'
    BY <1>4 DEF AfterFailure, Sound
  <2> QED BY <1>4, <2>1 DEF StepFailed, Lands, Locked
<1> QED BY <1>k, <1>1, <1>2, <1>3, <1>4

(* A yield: the processor's leaves the run yielded, the failure sequence's *)
(* leaves it compensating.                                                 *)
LEMMA YieldLands ==
  ASSUME NEW w \in Workers, NEW mem \in Locals, Yield(w, mem), mem.mode = "normal",
         mem.key[1] = "main" => ForwardLive(mem)'
  PROVE  Lands(w, mem.mode)
<1> DEFINE m == [mem EXCEPT !.out = "yield"]
<1>m. m \in Locals /\ m.mode = mem.mode
  BY DEF Locals
<1>1. CASE mem.key[1] = "main"
  <2>1. ForwardLive(m)'
    BY <1>1 DEF ForwardLive, Forward, Locals
  <2>2. Sound("yielded", m)'
    BY <2>1 DEF Sound
  <2> QED BY <1>1, <1>m, <2>2 DEF Yield, Lands, Locked
<1>2. CASE mem.key[1] # "main"
  <2>1. Sound("release", m)'
    BY <1>m DEF Sound
  <2> QED BY <1>2, <1>m, <2>1 DEF Yield, Lands, Locked
<1> QED BY <1>1, <1>2

---------------------------------------------------------------------------
(* What a tick writes.  At the step it is at, it makes a record or writes  *)
(* over one that is running; in the processor, it does so only while the   *)
(* run is running.                                                         *)
Writes(m, r) ==
  /\ step' = [step EXCEPT ![m.key] = r]
  /\ r \in StepRecords /\ r.status # "none" /\ inst'.status = inst.status
  /\ \/ /\ step[m.key].status = "none"
        /\ inst'.stepSeq = inst.stepSeq + 1 /\ r.seq = inst'.stepSeq
     \/ /\ step[m.key].status = "running"
        /\ inst'.stepSeq = inst.stepSeq /\ r.seq = step[m.key].seq
  /\ m.key[1] = "main" => inst.status = "running"

LEMMA DistinctKeys ==
  /\ \A i, j : Main(i) = Main(j) => i = j
  /\ \A i, j : Undo(i) = Undo(j) => i = j
  /\ \A i, j : Main(i) # Undo(j) /\ Main(i) # OnFailure /\ Undo(j) # OnFailure
  BY DEF Main, Undo, OnFailure

(* A write leaves every other record as it was.                            *)
LEMMA WriteElsewhere ==
  ASSUME TypeOK, NEW m \in Locals, NEW r, Writes(m, r)
  PROVE  /\ m.key \in Keys /\ step'[m.key] = r
         /\ \A k \in Keys \ {m.key} : step'[k] = step[k]
         /\ step[m.key].status \in {"none", "running"}
         /\ \A i : Passed(i) => Passed(i)'
<1>1. m.key \in Keys
  BY DEF Locals
<1>2. /\ step'[m.key] = r /\ \A k \in Keys \ {m.key} : step'[k] = step[k]
      /\ step[m.key].status \in {"none", "running"}
  BY <1>1 DEF Writes, TypeOK
<1>3. ASSUME NEW i, Passed(i)
      PROVE  Passed(i)'
  <2>1. ASSUME NEW j \in 1..(i - 1), step[Main(j)].status \in {"completed", "failed"}
        PROVE  step'[Main(j)] = step[Main(j)]
    <3>1. CASE Main(j) \in Keys
      BY <1>2, <2>1, <3>1
    <3>2. CASE Main(j) \notin Keys
      BY <1>1, <3>2 DEF Writes, TypeOK
    <3> QED BY <3>1, <3>2
  <2> QED BY <1>3, <2>1 DEF Passed
<1> QED BY <1>1, <1>2, <1>3

LEMMA WriteOrder ==
  ASSUME TypeOK, InOrder, NEW m \in Locals, At(m), NEW r, Writes(m, r)
  PROVE  InOrder'
<1> DEFINE k == m.key
<1>w. /\ k \in Keys /\ step'[k] = r /\ r.status # "none"
      /\ \A j \in Keys \ {k} : step'[j] = step[j]
      /\ step[k].status \in {"none", "running"}
      /\ \A i : Passed(i) => Passed(i)'
  BY WriteElsewhere DEF Writes
<1>n. /\ inst.stepSeq \in Nat /\ inst'.stepSeq \in Nat
      /\ inst'.stepSeq >= inst.stepSeq /\ r.seq <= inst'.stepSeq
      /\ \A j \in Keys : step[j].seq \in Nat
      /\ Exists(inst)'
  <2>1. inst.stepSeq \in Nat /\ \A j \in Keys : step[j].seq \in Nat
    BY DEF TypeOK, Instances, StepRecords
  <2>2. Exists(inst)'
    BY DEF At, Forward, Undoing, Telling, Swept, Writes, Exists
  <2>3. step[k].status = "running" => step[k].seq <= inst.stepSeq
    BY <1>w DEF InOrder
  <2>4. inst'.stepSeq \in Nat /\ inst'.stepSeq >= inst.stepSeq /\ r.seq <= inst'.stepSeq
    BY <2>1, <2>3, <1>w DEF Writes
  <2> QED BY <2>1, <2>2, <2>4
<1>m. \A i \in 1..N : Main(i) \in Keys
  BY KeyFacts
<1>p. k[1] = "main" => Passed(k[2]) /\ k[2] \in 1..N /\ k = Main(k[2])
  BY <1>w, PairKeys DEF At, Forward, Undoing, Telling
<1>1. ASSUME NEW i \in 1..N, step'[Main(i)].status # "none"
      PROVE  Passed(i)'
  <2>1. CASE Main(i) = k
    <3>1. k[1] = "main" /\ k[2] = i
      BY <2>1 DEF Main
    <3> QED BY <1>p, <1>w, <3>1
  <2>2. CASE Main(i) # k
    BY <1>1, <1>w, <1>m, <2>2 DEF InOrder
  <2> QED BY <2>1, <2>2
<1>2. ASSUME NEW i \in 1..N, NEW j \in 1..N, i < j,
             step'[Main(i)].status # "none", step'[Main(j)].status # "none"
      PROVE  step'[Main(i)].seq < step'[Main(j)].seq
  <2>0. step[Main(j)].status # "none" => Main(i) # k
    <3>1. ASSUME step[Main(j)].status # "none", Main(i) = k
          PROVE  FALSE
      <4>1. Passed(j)
        BY <3>1 DEF InOrder
      <4>2. step[Main(i)].status \in {"completed", "failed"}
        BY <1>2, <4>1 DEF Passed
      <4> QED BY <4>2, <3>1, <1>w
    <3> QED BY <3>1
  <2>1. CASE Main(j) = k
    <3>1. Main(i) # k /\ step'[Main(i)] = step[Main(i)] /\ step[Main(i)].status # "none"
      BY <1>2, <1>w, <1>m, <2>1, DistinctKeys
    <3>2. CASE step[k].status = "none"
      <4>1. step[Main(i)].seq <= inst.stepSeq /\ r.seq = inst.stepSeq + 1
        BY <3>1, <3>2, <1>m DEF InOrder, Writes
      <4> QED BY <4>1, <3>1, <2>1, <1>w, <1>n, <1>m
    <3>3. CASE step[k].status = "running"
      <4>1. step[Main(i)].seq < step[Main(j)].seq /\ r.seq = step[k].seq
        BY <1>2, <3>1, <3>3, <2>1 DEF InOrder, Writes
      <4> QED BY <4>1, <3>1, <2>1, <1>w
    <3> QED BY <3>2, <3>3, <1>w
  <2>2. CASE Main(j) # k
    <3>1. step'[Main(j)] = step[Main(j)] /\ Main(i) # k /\ step'[Main(i)] = step[Main(i)]
      BY <1>2, <1>w, <1>m, <2>0, <2>2
    <3> QED BY <1>2, <3>1 DEF InOrder
  <2> QED BY <2>1, <2>2
<1>3. ASSUME NEW j \in Keys
      PROVE  IF step'[j].status = "none" THEN step'[j].wake = "none"
             ELSE step'[j].seq <= inst'.stepSeq /\ Exists(inst)'
  <2>1. CASE j = k
    BY <2>1, <1>w, <1>n
  <2>2. CASE j # k
    <3>1. step'[j] = step[j]
      BY <2>2, <1>w
    <3>2. IF step[j].status = "none" THEN step[j].wake = "none"
          ELSE step[j].seq <= inst.stepSeq
      BY DEF InOrder
    <3> QED BY <3>1, <3>2, <1>n
  <2> QED BY <2>1, <2>2
<1> QED BY <1>1, <1>2, <1>3 DEF InOrder

(* In the failure sequence a write leaves the rollbacks that are due.      *)
LEMMA WriteDue ==
  ASSUME TypeOK, NEW m \in Locals, NEW r, Writes(m, r)
  PROVE  /\ m.key[1] # "main" => Due' = Due
         /\ {j \in Due' : j < m.key[2]} = {j \in Due : j < m.key[2]}
<1>w. /\ m.key \in Keys /\ \A k \in Keys \ {m.key} : step'[k] = step[k]
  BY WriteElsewhere
<1>1. ASSUME NEW j \in Undoable, Main(j) # m.key
      PROVE  step'[Main(j)] = step[Main(j)]
  BY <1>1, <1>w, KeyFacts, ProcessorAssumption
<1>2. ASSUME m.key[1] # "main"
      PROVE  Due' = Due
  BY <1>1, <1>2 DEF Due, Main
<1>3. ASSUME NEW j \in Undoable, j < m.key[2]
      PROVE  Main(j) # m.key
  BY <1>3, ProcessorAssumption DEF Main
<1> QED BY <1>1, <1>2, <1>3 DEF Due

LEMMA WriteAt ==
  ASSUME TypeOK, NEW m \in Locals, At(m), NEW r, Writes(m, r)
  PROVE  /\ At(m)'
         /\ ForwardLive(m) => ForwardLive(m)'
         /\ Undoing(m) => Undoing(m)'
         /\ Telling(m) => Telling(m)'
<1>w. /\ m.key \in Keys /\ inst'.status = inst.status
      /\ \A k \in Keys \ {m.key} : step'[k] = step[k]
      /\ \A i : Passed(i) => Passed(i)'
  BY WriteElsewhere DEF Writes
<1>1. ASSUME Forward(m)
      PROVE  Forward(m)'
  BY <1>1, <1>w, WriteDue DEF Forward
<1>2. ASSUME m.key[1] # "main", m.key[1] = "compensation" => m.key[2] \in m.todo, Swept(m)
      PROVE  Swept(m)'
  <2>1. Due' = Due
    BY <1>2, WriteDue
  <2>2. ASSUME NEW j \in Due \ m.todo
        PROVE  step'[Undo(j)] = step[Undo(j)]
    <3>1. Undo(j) \in Keys /\ Undo(j) # m.key
      BY <1>2, <2>2, DueSteps, KeyFacts DEF Undo
    <3> QED BY <3>1, <1>w
  <2> QED BY <1>2, <1>w, <2>1, <2>2 DEF Swept, Settled
<1>3. ASSUME Undoing(m)
      PROVE  Undoing(m)'
  BY <1>2, <1>3 DEF Undoing
<1>4. ASSUME Telling(m)
      PROVE  Telling(m)'
  BY <1>2, <1>4 DEF Telling
<1> QED BY <1>1, <1>3, <1>4, <1>w DEF At, ForwardLive

LEMMA WriteUndoes ==
  ASSUME TypeOK, Undoes, NEW m \in Locals, At(m), NEW r, Writes(m, r)
  PROVE  Undoes'
<1> DEFINE k == m.key
<1>w. /\ k \in Keys /\ inst'.status = inst.status
      /\ \A j \in Keys \ {k} : step'[j] = step[j]
      /\ step[k].status \in {"none", "running"}
  <2>1. inst'.status = inst.status
    BY DEF Writes
  <2> QED BY <2>1, WriteElsewhere
<1>k. /\ \A i \in Undoable : Undo(i) \in Keys
      /\ OnFailure \in Keys
  BY KeyFacts
<1>1. CASE k[1] = "main"
  <2>1. inst.status = "running"
    BY <1>1 DEF Writes
  <2>2. \A i \in Undoable : step'[Undo(i)] = step[Undo(i)]
    <3>1. \A i : Undo(i) # k
      BY <1>1 DEF Undo
    <3> QED BY <3>1, <1>w, <1>k
  <2>3. step'[OnFailure] = step[OnFailure]
    <3>1. OnFailure # k
      BY <1>1 DEF OnFailure
    <3> QED BY <3>1, <1>w, <1>k
  <2> QED BY <1>w, <2>1, <2>2, <2>3 DEF Undoes, GaveUp
<1>2. CASE k[1] # "main"
  <2>1. Due' = Due /\ inst.status = "compensating" /\ GaveUp'
    BY <1>2, <1>w, WriteDue DEF At, Forward, Undoing, Telling, Swept, GaveUp
  <2>2. CASE k[1] = "compensation"
    <3> DEFINE i == k[2]
    <3>1. k = Undo(i) /\ i \in Undoable /\ i \in Due
      BY <1>w, <2>2, PairKeys DEF At, Forward, Undoing, Telling, Swept
    <3>2. \A j \in Due : j > i => Settled(Undo(j))
      <4>1. Swept(m) /\ \A j \in m.todo : j <= i
        BY <2>2 DEF At, Forward, Undoing, Telling
      <4> QED BY <4>1, <3>1, DueSteps DEF Swept
    <3>3. ~Settled(Undo(i))
      BY <3>1, <1>w DEF Settled
    <3>4. \A j \in Undoable : j # i => step'[Undo(j)] = step[Undo(j)]
      BY <3>1, <1>w, <1>k, DistinctKeys
    <3>5. step'[OnFailure] = step[OnFailure] /\ step[OnFailure].status = "none"
      BY <3>1, <3>3, <1>w, <1>k, DistinctKeys DEF Undoes
    <3>6. ASSUME NEW h \in Undoable, step'[Undo(h)].status # "none"
          PROVE  h \in Due' /\ \A j \in Due' : j > h => Settled(Undo(j))'
      <4>1. CASE h = i
        <5>1. ASSUME NEW j \in Due, j > i
              PROVE  Settled(Undo(j))'
          BY <3>2, <3>4, <5>1, DueSteps DEF Settled
        <5> QED BY <4>1, <3>1, <2>1, <5>1
      <4>2. CASE h # i
        <5>1. h \in Due /\ \A j \in Due : j > h => Settled(Undo(j))
          BY <3>6, <3>4, <4>2 DEF Undoes
        <5>2. ASSUME NEW j \in Due, j > h
              PROVE  Settled(Undo(j))'
          BY <5>1, <5>2, <3>3, <3>4, DueSteps DEF Settled
        <5> QED BY <5>1, <5>2, <2>1
      <4> QED BY <4>1, <4>2
    <3> QED BY <2>1, <1>w, <3>5, <3>6 DEF Undoes
  <2>3. CASE k[1] # "compensation"
    <3>1. k = OnFailure /\ HasOnFailure /\ \A j \in Due : Settled(Undo(j))
      BY <1>w, <1>2, <2>3, PairKeys DEF At, Forward, Undoing, Telling, Swept
    <3>2. \A j \in Undoable : step'[Undo(j)] = step[Undo(j)]
      BY <3>1, <1>w, <1>k, DistinctKeys
    <3>3. \A j \in Due' : Settled(Undo(j))'
      BY <2>1, <3>1, <3>2, DueSteps DEF Settled
    <3>4. \A j \in Undoable : step'[Undo(j)].status # "none" => j \in Due'
      BY <2>1, <3>2 DEF Undoes
    <3> QED BY <1>w, <2>1, <3>1, <3>3, <3>4 DEF Undoes
  <2> QED BY <2>2, <2>3
<1> QED BY <1>1, <1>2

---------------------------------------------------------------------------
(* The same writes are steps of RunLifecycle.                              *)

RunStep == [Lifecycle!RunNext]_(Lifecycle!rvars)

(* What a run shows depends on the statuses of its records alone.          *)
LEMMA ShowsSame ==
  ASSUME inst'.status = inst.status,
         \A i \in 1..N : (step'[Main(i)].status = "completed"
                            <=> step[Main(i)].status = "completed"),
         \A i \in Undoable : \/ step'[Undo(i)].status = step[Undo(i)].status
                             \/ ~Settled(Undo(i)) /\ ~Settled(Undo(i))'
  PROVE  RunStep
<1>1. RunPhase' = RunPhase
  BY DEF RunPhase
<1>2. StepsDone' = StepsDone
  BY DEF StepsDone
<1>3. UndoFate' = UndoFate
  BY DEF UndoFate, Settled
<1> QED BY <1>1, <1>2, <1>3 DEF RunStep, Lifecycle!rvars

LEMMA WriteMainRuns ==
  ASSUME TypeOK, InOrder, NEW m \in Locals, Forward(m), NEW r, Writes(m, r)
  PROVE  RunStep
<1> DEFINE i == m.key[2]
<1>k. m.key = Main(i) /\ i \in 1..N /\ inst.status = "running" /\ inst'.status = inst.status
  BY PairKeys DEF Forward, Locals, Writes
<1>w. /\ step'[Main(i)] = r /\ step[Main(i)].status \in {"none", "running"}
      /\ \A k \in Keys \ {Main(i)} : step'[k] = step[k]
  BY <1>k, WriteElsewhere
<1>m. \A j \in 1..N : j # i => step'[Main(j)] = step[Main(j)]
  BY <1>w, KeyFacts, DistinctKeys
<1>u. \A j \in Undoable : step'[Undo(j)] = step[Undo(j)]
  BY <1>w, KeyFacts, DistinctKeys
<1>1. CASE r.status # "completed"
  <2>1. \A j \in 1..N : (step'[Main(j)].status = "completed"
                           <=> step[Main(j)].status = "completed")
    BY <1>1, <1>w, <1>m
  <2> QED BY <1>k, <1>u, <2>1, ShowsSame
<1>2. CASE r.status = "completed"
  <2>1. RunPhase = "forward" /\ RunPhase' = RunPhase
    BY <1>k DEF RunPhase
  <2>2. UndoFate' = UndoFate
    BY <1>u DEF UndoFate
  <2>3. StepsDone' = StepsDone \cup {i} /\ i \notin StepsDone
    BY <1>2, <1>k, <1>w, <1>m DEF StepsDone
  <2>4. \A j \in 1..(i - 1) : j \in StepsDone \cup Optional
    BY <1>k, ProcessorAssumption DEF Forward, Passed, StepsDone
  <2>5. ASSUME NEW j \in StepsDone
        PROVE  j < i
    <3>1. j \in 1..N /\ j # i /\ Passed(j)
      BY <2>3 DEF StepsDone, InOrder
    <3>2. ~(i < j)
      BY <3>1, <1>k, <1>w DEF Passed
    <3> QED BY <3>1, <3>2, <1>k, ProcessorAssumption
  <2>6. Lifecycle!CompleteStep(i)
    BY <2>1, <2>2, <2>3, <2>4, <2>5 DEF Lifecycle!CompleteStep
  <2> QED BY <1>k, <2>6 DEF RunStep, Lifecycle!RunNext
<1> QED BY <1>1, <1>2

LEMMA WriteUndoRuns ==
  ASSUME TypeOK, NEW m \in Locals, Undoing(m), NEW r, Writes(m, r)
  PROVE  RunStep
<1> DEFINE i == m.key[2]
<1>k. m.key = Undo(i) /\ i \in Undoable /\ i \in Due
  BY PairKeys DEF Undoing, Swept, Locals
<1>s. inst.status = "compensating" /\ inst'.status = inst.status
  BY DEF Undoing, Swept, Writes
<1>w. /\ step'[Undo(i)] = r /\ step[Undo(i)].status \in {"none", "running"}
      /\ \A k \in Keys \ {Undo(i)} : step'[k] = step[k]
      /\ r.status \in {"running", "completed", "failed"}
  <2>1. r.status \in {"running", "completed", "failed"}
    BY DEF Writes, StepRecords
  <2> QED BY <1>k, <2>1, WriteElsewhere
<1>m. \A j \in 1..N : step'[Main(j)] = step[Main(j)]
  BY <1>w, KeyFacts, DistinctKeys
<1>u. \A j \in Undoable : j # i => step'[Undo(j)] = step[Undo(j)]
  BY <1>w, KeyFacts, DistinctKeys
<1>1. CASE r.status = "running"
  <2>1. ~Settled(Undo(i)) /\ ~Settled(Undo(i))'
    BY <1>1, <1>w DEF Settled
  <2> QED BY <1>m, <1>s, <1>u, <2>1, ShowsSame
<1>2. CASE r.status \in {"completed", "failed"}
  <2>1. RunPhase = "undoing" /\ RunPhase' = RunPhase
    BY <1>s DEF RunPhase
  <2>2. StepsDone' = StepsDone
    BY <1>m DEF StepsDone
  <2>3. i \in StepsDone /\ UndoFate[i] = "no"
    BY <1>k, <1>w, ProcessorAssumption DEF StepsDone, Due, UndoFate
  <2>4. ASSUME NEW j \in StepsDone \cap Undoable, j > i
        PROVE  UndoFate[j] # "no"
    <3>0. j \in Due /\ i \in Nat
      <4>1. j \in Due
        BY <2>4 DEF StepsDone, Due
      <4> QED BY <4>1, <1>k, DueSteps
    <3>1. j \in Due /\ j \notin m.todo
      BY <3>0, <2>4, DueSteps DEF Undoing
    <3>2. Settled(Undo(j))
      BY <3>1 DEF Undoing, Swept
    <3> QED BY <3>2, <2>4 DEF UndoFate, Settled
  <2>5. PICK fate \in {"yes", "lost"} :
          fate = IF r.status = "completed" THEN "yes" ELSE "lost"
    OBVIOUS
  <2>6. UndoFate' = [UndoFate EXCEPT ![i] = fate]
    BY <1>2, <1>k, <1>w, <1>u, <2>5 DEF UndoFate
  <2>7. Lifecycle!UndoStep(i)
    BY <2>1, <2>2, <2>3, <2>4, <2>6 DEF Lifecycle!UndoStep
  <2> QED BY <1>k, <2>7 DEF RunStep, Lifecycle!RunNext
<1> QED BY <1>1, <1>2, <1>w

LEMMA WriteRuns ==
  ASSUME TypeOK, InOrder, NEW m \in Locals, At(m), NEW r, Writes(m, r)
  PROVE  RunStep
<1>1. CASE Telling(m)
  <2>1. m.key = OnFailure /\ inst'.status = inst.status
    BY <1>1, PairKeys DEF Telling, Locals, Writes
  <2>2. \A k \in Keys \ {OnFailure} : step'[k] = step[k]
    BY <2>1, WriteElsewhere
  <2>3. /\ \A i \in 1..N : step'[Main(i)] = step[Main(i)]
        /\ \A i \in Undoable : step'[Undo(i)] = step[Undo(i)]
    BY <2>2, KeyFacts, DistinctKeys
  <2> QED BY <2>1, <2>3, ShowsSame
<1> QED BY <1>1, WriteMainRuns, WriteUndoRuns DEF At

---------------------------------------------------------------------------
(* A step of a worker that holds the lock.                                 *)

(* It leaves the records in order, keeps the promise and lands the worker  *)
(* where its memory is sound.                                              *)
Proceeds(w) ==
  /\ pc[w] \in Locked /\ UNCHANGED <<job, removing>>
  /\ Lands(w, loc[w].mode) /\ InOrder' /\ Undoes' /\ RunStep
  /\ inst'.status = "compensating" =>
       inst.status = "compensating" \/ Barrier \/ loc[w].mode = "settle"

(* A tick that may write in the processor meets the failed step first.     *)
Stopped(w) == loc[w].mode = "normal" /\ inst.status = "compensating" => Barrier

LEMMA WriteProceeds ==
  ASSUME TypeOK, InOrder, Undoes, NEW w \in Workers, pc[w] \in Locked,
         NEW m \in Locals, At(m), NEW r, Writes(m, r),
         UNCHANGED <<job, removing>>, Lands(w, loc[w].mode)
  PROVE  Proceeds(w)
<1>1. InOrder' /\ Undoes' /\ RunStep
  BY WriteOrder, WriteUndoes, WriteRuns
<1>2. inst'.status = inst.status
  BY DEF Writes
<1> QED BY <1>1, <1>2 DEF Proceeds

LEMMA QuietProceeds ==
  ASSUME InOrder, Undoes, NEW w \in Workers, pc[w] \in Locked,
         UNCHANGED <<inst, step, job, removing>>, Lands(w, loc[w].mode)
  PROVE  Proceeds(w)
<1>1. InOrder'
  BY DEF InOrder, Passed
<1>2. Undoes'
  BY DEF Undoes, GaveUp, Due, Settled
<1>3. RunStep
  BY ShowsSame
<1> QED BY <1>1, <1>2, <1>3 DEF Proceeds

(* Replaying its way to a step that is not settled, a delivered tick is on *)
(* a run that has not given up.                                            *)
LEMMA ForwardIsLive ==
  ASSUME NEW m \in Locals, Forward(m), InOrder, m.mode = "normal",
         step[m.key].status \in {"none", "running"}, inst.status = "compensating" => Barrier
  PROVE  ForwardLive(m)
<1>1. m.key = Main(m.key[2]) /\ m.key[2] \in 1..N /\ Passed(m.key[2])
  BY PairKeys DEF Forward, Locals
<1>2. ASSUME NEW i \in (1..N) \ Optional, step[Main(i)].status = "failed"
      PROVE  FALSE
  <2>1. Passed(i) /\ i # m.key[2]
    BY <1>1, <1>2 DEF InOrder
  <2>2. ~(m.key[2] < i)
    BY <1>1, <2>1 DEF Passed
  <2>3. ~(i < m.key[2])
    BY <1>1, <1>2 DEF Passed
  <2> QED BY <1>1, <2>1, <2>2, <2>3, ProcessorAssumption
<1> QED BY <1>2 DEF ForwardLive, Forward, Barrier

(* What is common to every memory a tick has at a step.                    *)
LEMMA AtFacts ==
  ASSUME NEW m \in Locals, At(m), InOrder
  PROVE  /\ Called(m.todo) /\ Exists(inst) /\ inst.status # "cancelled"
         /\ inst.status \in {"running", "compensating"}
         /\ m.entered => inst.status = "compensating"
<1>1. m.todo = {} \/ m.todo \subseteq Due
  BY DEF At, Forward, Undoing, Telling, Swept
<1>2. Called(m.todo)
  BY <1>1, DueCalled DEF Called
<1>3. inst.status \in {"running", "compensating"}
  BY DEF At, Forward, Undoing, Telling, Swept
<1>4. m.entered => inst.status = "compensating"
  BY DEF At, Forward, Undoing, Telling, Swept
<1> QED BY <1>2, <1>3, <1>4 DEF Exists

LEMMA RegisterFacts ==
  ASSUME NEW m \in Locals
  PROVE  /\ Register(m) \in Locals /\ Register(m).mode = m.mode
         /\ Register(m).todo = m.todo /\ Register(m).entered = m.entered
<1>1. Register(m) \in Locals
  BY RegisterType
<1> QED BY <1>1 DEF Register, Locals

(* Failed records stay.                                                    *)
LEMMA BarrierStays ==
  ASSUME TypeOK, Claims, [Next]_vars, Barrier
  PROVE  Barrier'
  BY SettledStep, KeyFacts DEF Barrier

(* The tick goes on after a step that is settled, now or since long.       *)
LEMMA SettledLands ==
  ASSUME TypeOK, InOrder, InOrder', NEW w \in Workers, NEW mem \in Locals, At(mem), At(mem)',
         mem.mode = "normal" /\ inst.status = "compensating" => Barrier',
         \/ step'[mem.key].status = "completed" /\ Advance(w, Register(mem))
         \/ step'[mem.key].status = "failed" /\ StepFailed(w, mem)
  PROVE  Lands(w, mem.mode)
<1>f. Called(mem.todo) /\ (mem.entered => inst.status = "compensating")
  BY AtFacts
<1>1. CASE step'[mem.key].status = "completed" /\ Advance(w, Register(mem))
  <2>1. After(Register(mem))'
    BY <1>1, AfterCompletedNext
  <2>2. /\ Register(mem) \in Locals /\ Register(mem).mode = mem.mode
        /\ Register(mem).todo = mem.todo /\ Register(mem).entered = mem.entered
    BY RegisterFacts
  <2> QED BY <1>1, <1>f, <2>1, <2>2, AdvanceLands
<1>2. CASE step'[mem.key].status = "failed" /\ StepFailed(w, mem)
  <2>1. AfterFailure(mem)'
    BY <1>2, AfterFailedNext
  <2> QED BY <1>2, <1>f, <2>1, StepFailedLands
<1> QED BY <1>1, <1>2

(* ctx.step and ctx.sleep, as far as nothing is written.                   *)
LEMMA ReplayProceeds ==
  ASSUME TypeOK, Claims, InOrder, Undoes, SoundTicks, [Next]_vars,
         NEW w \in Workers, Stopped(w),
         ReplaySettled(w) \/ Refused(w) \/ ExistingStep(w) \/ RunBody(w)
  PROVE  Proceeds(w)
<1>0. PICK mem \in Locals : mem = loc[w]
  BY DEF TypeOK
<1> DEFINE k == mem.key
<1>m. mem \in Locals /\ mem = loc[w] /\ k \in Keys /\ Sound(pc[w], mem)
  BY <1>0 DEF Locals, SoundTicks
<1>q. UNCHANGED <<inst, step, job, removing>> /\ pc[w] \in {"step", "body"}
  BY DEF ReplaySettled, Refused, ExistingStep, RunBody, Entering, store
<1>o. InOrder'
  BY <1>q DEF InOrder, Passed
<1>s. \A m \in Locals : /\ At(m) => At(m)'
                        /\ ForwardLive(m) => ForwardLive(m)'
                        /\ Undoing(m) => Undoing(m)'
                        /\ Telling(m) => Telling(m)'
                        /\ GivesUp(m) => GivesUp(m)'
  BY <1>q DEF At, Forward, Undoing, Telling, ForwardLive, Swept, GivesUp, Due, Passed,
              Settled, Barrier
<1>b. mem.mode = "normal" /\ inst.status = "compensating" => Barrier'
  BY <1>m, BarrierStays DEF Stopped
<1>h. Lands(w, mem.mode) => Proceeds(w)
  BY <1>m, <1>q, QuietProceeds DEF Locked
<1>1. CASE RunBody(w)
  <2>1. PICK result \in {"ok", "failed", "again"} :
          Go(w, "save", [mem EXCEPT !.result = result])
    BY <1>1, <1>m DEF RunBody
  <2> DEFINE m == [mem EXCEPT !.result = result]
  <2>2. m \in Locals /\ m.mode = mem.mode
    BY <1>m DEF Locals
  <2>3. /\ ForwardLive(mem) \/ Undoing(mem) \/ Telling(mem)
        /\ mem.rec.seq = step[k].seq
    BY <1>1, <1>m DEF RunBody, Sound
  <2>4. ForwardLive(m)' \/ Undoing(m)' \/ Telling(m)'
    <3>1. ForwardLive(mem)' \/ Undoing(mem)' \/ Telling(mem)'
      BY <1>m, <1>s, <2>3
    <3> QED BY <3>1, <1>m DEF ForwardLive, Forward, Undoing, Telling, Swept, Locals
  <2>5. m.rec.seq = step'[m.key].seq
    BY <1>m, <1>q, <2>3 DEF Locals
  <2>6. Sound("save", m)'
    BY <2>4, <2>5 DEF Sound
  <2> QED BY <1>h, <2>1, <2>2, <2>6 DEF Lands, Locked
<1>2. CASE pc[w] = "step"
  <2>1. At(mem) /\ At(mem)'
    BY <1>2, <1>m, <1>s DEF Sound
  <2>a. /\ Exists(inst) /\ inst.status # "cancelled"
        /\ inst.status \in {"running", "compensating"}
    BY <1>m, <2>1, AtFacts
  <2>2. CASE \/ step[k].status = "completed" /\ Advance(w, Register(mem))
             \/ step[k].status = "failed" /\ StepFailed(w, mem)
    BY <1>b, <1>h, <1>m, <1>o, <1>q, <2>1, <2>2, SettledLands
  <2>3. CASE /\ step[k].status \in {"none", "running"}
             /\ ReplayOnly(w) /\ Go(w, "enter", mem)
    <3>1. Forward(mem) /\ mem.mode = "settle"
      BY <1>m, <2>1, <2>3 DEF ReplayOnly, At, Undoing, Telling
    <3>2. GivesUp(mem)
      BY <1>m, <2>3, <2>a, <3>1, AfterUnsettled DEF GivesUp, Forward
    <3>3. Sound("enter", mem)'
      BY <1>m, <1>s, <3>2 DEF Sound
    <3> QED BY <1>h, <1>m, <2>3, <3>3 DEF Lands, Locked
  <2>4. CASE Refused(w)
    BY <2>4, <2>a DEF Refused, Entering, BeginStep
  <2>f. ASSUME ~ReplayOnly(w), k[1] = "main", step[k].status = "running"
        PROVE  ForwardLive(mem)' /\ mem.mode = "normal"
    <3>1. mem.mode = "normal" /\ Forward(mem)
      BY <1>m, <2>1, <2>f DEF ReplayOnly, Locals, At, Undoing, Telling
    <3> QED BY <1>m, <1>s, <2>f, <3>1, ForwardIsLive DEF Stopped
  <2>5. CASE ~ReplayOnly(w) /\ step[k].status = "running" /\ mem.mode = "normal" /\ Yield(w, mem)
    BY <1>h, <1>m, <2>5, <2>f, YieldLands
  <2>6. CASE /\ ~ReplayOnly(w) /\ step[k].status = "running"
             /\ Go(w, "claim", [mem EXCEPT !.rec = [step[k] EXCEPT !.attempts = @ + 1,
                                                                   !.wake = "none"]])
    <3>1. PICK next \in StepRecords :
            /\ next.seq = step[k].seq
            /\ Go(w, "claim", [mem EXCEPT !.rec = next])
      <4> DEFINE next == [step[k] EXCEPT !.attempts = @ + 1, !.wake = "none"]
      <4>1. step[k] \in StepRecords
        BY <1>m DEF TypeOK
      <4>2. next \in StepRecords
        BY <4>1, NextAttemptType
      <4>3. next.seq = step[k].seq
        BY <4>1 DEF StepRecords
      <4>4. Go(w, "claim", [mem EXCEPT !.rec = next])
        BY <2>6
      <4> HIDE DEF next
      <4> QED BY <4>2, <4>3, <4>4
    <3> DEFINE m == [mem EXCEPT !.rec = next]
    <3>2. m \in Locals /\ m.mode = mem.mode /\ m.key = k /\ m.rec = next
      BY <1>m, <3>1 DEF Locals
    <3>3. ForwardLive(mem)' \/ Undoing(mem)' \/ Telling(mem)'
      BY <2>1, <2>6, <2>f DEF At, Forward
    <3>4. ForwardLive(m)' \/ Undoing(m)' \/ Telling(m)'
      BY <3>3, <1>m DEF ForwardLive, Forward, Undoing, Telling, Swept, Locals
    <3>5. m.rec.seq = step'[m.key].seq
      BY <1>q, <3>1, <3>2
    <3>6. Go(w, "claim", m)
      BY <3>1
    <3>7. Sound("claim", m)'
      BY <3>4, <3>5 DEF Sound
    <3> HIDE DEF m
    <3> QED BY <1>h, <3>2, <3>6, <3>7 DEF Lands, Locked
  <2>7. CASE ~ReplayOnly(w) /\ step[k].status = "running" /\ IsSleep(k) /\ Go(w, "wake", mem)
    <3>1. ForwardLive(mem)'
      BY <2>7, <2>f DEF IsSleep
    <3>2. Sound("wake", mem)'
      BY <2>7, <3>1 DEF Sound, IsSleep
    <3> QED BY <1>h, <1>m, <2>7, <3>2 DEF Lands, Locked
  <2>8. CASE ReplaySettled(w)
    BY <1>m, <2>8, <2>2, <2>3 DEF ReplaySettled
  <2>9. CASE ExistingStep(w)
    BY <1>m, <2>9, <2>2, <2>5, <2>6, <2>7 DEF ExistingStep, Entering, Resumable
  <2>10. ~RunBody(w)
    BY <1>2 DEF RunBody
  <2> QED BY <2>4, <2>8, <2>9, <2>10
<1>3. pc[w] = "body" => RunBody(w)
  BY DEF ReplaySettled, Refused, ExistingStep, Entering
<1> QED BY <1>1, <1>2, <1>3, <1>q

(* The memory of a tick without the fields a write is told from.           *)
LEMMA SameStand ==
  ASSUME NEW m \in Locals, NEW n \in Locals,
         n.mode = m.mode, n.entered = m.entered, n.key = m.key, n.regs = m.regs,
         n.todo = m.todo, n.undoFailed = m.undoFailed
  PROVE  /\ ForwardLive(m) => ForwardLive(n)
         /\ Undoing(m) => Undoing(n)
         /\ Telling(m) => Telling(n)
         /\ At(m) => At(n)
  BY DEF ForwardLive, Forward, Undoing, Telling, Swept, At

LEMMA LiveIsAt ==
  ASSUME NEW m, ForwardLive(m) \/ Undoing(m) \/ Telling(m)
  PROVE  At(m) /\ (m.key[1] = "main" => inst.status = "running")
  BY DEF At, ForwardLive, Undoing, Telling

(* The record of a sleep is there when it is read.                         *)
LEMMA ReadProceeds ==
  ASSUME TypeOK, Claims, InOrder, Undoes, SoundTicks, NEW w \in Workers, ReadSleep(w)
  PROVE  Proceeds(w)
<1>0. PICK mem \in Locals : mem = loc[w]
  BY DEF TypeOK
<1>1. /\ pc[w] = "wake" /\ UNCHANGED <<inst, step, job, removing>>
      /\ step[mem.key].status = "running"
  BY <1>0 DEF ReadSleep, Claims, store
<1>2. PICK rec \in StepRecords : rec = step[mem.key]
  BY DEF TypeOK, Locals
<1>3. PICK m \in Locals : m = [mem EXCEPT !.rec = rec]
  BY DEF Locals
<1>4. /\ m.mode = mem.mode /\ m.entered = mem.entered /\ m.key = mem.key
      /\ m.regs = mem.regs /\ m.todo = mem.todo /\ m.undoFailed = mem.undoFailed
  BY <1>3 DEF Locals
<1>5. ForwardLive(m) /\ IsSleep(m.key)
  BY <1>0, <1>1, <1>4, SameStand DEF SoundTicks, Sound
<1>6. ForwardLive(m)'
  BY <1>1, <1>5 DEF ForwardLive, Forward, Swept, Due, Passed, Settled
<1>7. Sound("awake", m)'
  BY <1>5, <1>6 DEF Sound, IsSleep
<1>8. Go(w, "awake", m)
  BY <1>0, <1>1, <1>2, <1>3 DEF ReadSleep
<1>9. Lands(w, loc[w].mode)
  BY <1>0, <1>4, <1>7, <1>8 DEF Lands, Locked
<1> QED BY <1>1, <1>9, QuietProceeds DEF Locked

(* A new record.                                                           *)
LEMMA FreshProceeds ==
  ASSUME TypeOK, Claims, InOrder, Undoes, SoundTicks,
         NEW w \in Workers, Stopped(w), FreshStep(w) \/ FreshSleep(w)
  PROVE  Proceeds(w)
<1>0. PICK mem \in Locals : mem = loc[w]
  BY DEF TypeOK
<1> DEFINE k == mem.key
<1>m. mem \in Locals /\ mem = loc[w] /\ k \in Keys /\ At(mem)
  BY <1>0 DEF Locals, SoundTicks, Sound, FreshStep, FreshSleep, Entering
<1>e. /\ pc[w] \in Locked /\ UNCHANGED <<job, removing>> /\ inst' = AllocSeq(inst)
      /\ ~ReplayOnly(w) /\ step[k].status = "none"
  BY <1>m DEF FreshStep, FreshSleep, Entering, BeginStep, Locked, Exists
<1>f. k[1] = "main" => ForwardLive(mem)
  <2>1. ASSUME k[1] = "main"
        PROVE  Forward(mem) /\ mem.mode = "normal"
    BY <1>m, <1>e, <2>1 DEF ReplayOnly, Locals, At, Undoing, Telling
  <2> QED BY <1>m, <1>e, <2>1, ForwardIsLive DEF Stopped
<1>l. ForwardLive(mem) \/ Undoing(mem) \/ Telling(mem)
  BY <1>m, <1>f DEF At, Forward
<1>n. ASSUME NEW wake \in {"none", "pending", "due"},
             step' = [step EXCEPT ![k] = NewStep(inst, wake)]
      PROVE  Writes(mem, NewStep(inst, wake))
  <2>1. /\ NewStep(inst, wake) \in StepRecords /\ NewStep(inst, wake).status # "none"
        /\ NewStep(inst, wake).seq = inst.stepSeq + 1
    BY DEF NewStep, StepRecords, TypeOK, Instances
  <2>2. inst'.status = inst.status /\ inst'.stepSeq = inst.stepSeq + 1
    BY <1>e DEF AllocSeq, TypeOK, Instances
  <2>3. k[1] = "main" => inst.status = "running"
    BY <1>f DEF ForwardLive
  <2> QED BY <1>n, <1>e, <2>1, <2>2, <2>3 DEF Writes
<1>h. ASSUME NEW r, Writes(mem, r), Lands(w, mem.mode)
      PROVE  Proceeds(w)
  BY <1>h, <1>m, <1>e, WriteProceeds
<1>1. CASE FreshStep(w)
  <2>1. PICK r : r = NewStep(inst, "none")
    OBVIOUS
  <2> DEFINE m == [mem EXCEPT !.rec = r]
  <2>2. Writes(mem, r) /\ Go(w, "body", m)
    BY <1>1, <1>m, <1>n, <2>1 DEF FreshStep
  <2>3. r \in StepRecords /\ step'[k] = r
    BY <1>m, <2>2, WriteElsewhere DEF Writes
  <2>4. /\ m \in Locals /\ m.rec = r /\ m.mode = mem.mode /\ m.entered = mem.entered
        /\ m.key = k /\ m.regs = mem.regs /\ m.todo = mem.todo /\ m.undoFailed = mem.undoFailed
    BY <1>m, <2>3 DEF Locals
  <2> HIDE DEF m
  <2>5. Writes(m, r)
    BY <2>2, <2>4 DEF Writes
  <2>6. (ForwardLive(m) \/ Undoing(m) \/ Telling(m)) /\ At(m)
    BY <1>l, <1>m, <2>4, SameStand
  <2>7. ForwardLive(m)' \/ Undoing(m)' \/ Telling(m)'
    BY <2>4, <2>5, <2>6, WriteAt
  <2>8. Sound("body", m)'
    BY <2>3, <2>4, <2>7 DEF Sound
  <2> QED BY <1>h, <2>2, <2>4, <2>8 DEF Lands, Locked
<1>2. CASE FreshSleep(w)
  <2>k. k[1] = "main" /\ IsSleep(k) /\ mem.mode = "normal" /\ ForwardLive(mem)
    BY <1>2, <1>m, <1>f DEF FreshSleep, IsSleep, ForwardLive
  <2>1. CASE step' = [step EXCEPT ![k] = NewStep(inst, "pending")] /\ Yield(w, mem)
    <3>1. Writes(mem, NewStep(inst, "pending"))
      BY <1>n, <2>1
    <3>2. ForwardLive(mem)'
      BY <1>m, <2>k, <3>1, WriteAt
    <3> QED BY <1>h, <2>1, <2>k, <3>1, <3>2, YieldLands
  <2>2. CASE step' = [step EXCEPT ![k] = NewStep(inst, "due")] /\ Go(w, "wake", mem)
    <3>1. Writes(mem, NewStep(inst, "due"))
      BY <1>n, <2>2
    <3>2. ForwardLive(mem)'
      BY <1>m, <2>k, <3>1, WriteAt
    <3>3. Sound("wake", mem)'
      BY <2>k, <3>2 DEF Sound, IsSleep
    <3> QED BY <1>h, <2>2, <3>1, <3>3 DEF Lands, Locked
  <2> QED BY <1>2, <1>m, <2>1, <2>2 DEF FreshSleep
<1> QED BY <1>1, <1>2

(* A record written over.                                                  *)
LEMMA OverwriteProceeds ==
  ASSUME TypeOK, Claims, InOrder, Undoes, SoundTicks, [Next]_vars,
         NEW w \in Workers, Stopped(w),
         \/ WakeUp(w) \/ ClaimAttempt(w) \/ SaveResult(w) \/ SaveRetry(w) \/ SaveFailure(w)
  PROVE  Proceeds(w)
<1>0. PICK mem \in Locals : mem = [loc[w] EXCEPT !.result = IF pc[w] = "save" THEN "none" ELSE @]
  BY DEF TypeOK, Locals
<1> DEFINE k == mem.key
<1>p. pc[w] \in {"awake", "claim", "save"}
  BY DEF WakeUp, ClaimAttempt, SaveResult, SaveRetry, SaveFailure
<1>m. /\ mem \in Locals /\ k \in Keys /\ k = loc[w].key /\ mem.rec = loc[w].rec
      /\ mem.mode = loc[w].mode /\ mem.rec \in StepRecords /\ mem.mode \in {"normal", "settle"}
  BY <1>0 DEF Locals, TypeOK
<1>l. ForwardLive(mem) \/ Undoing(mem) \/ Telling(mem)
  <2>1. loc[w] \in Locals /\ (ForwardLive(loc[w]) \/ Undoing(loc[w]) \/ Telling(loc[w]))
    BY <1>p DEF SoundTicks, Sound, TypeOK
  <2>2. /\ mem.entered = loc[w].entered /\ mem.regs = loc[w].regs
        /\ mem.todo = loc[w].todo /\ mem.undoFailed = loc[w].undoFailed
    BY <1>0 DEF Locals, TypeOK
  <2> QED BY <1>m, <2>1, <2>2, SameStand
<1>a. At(mem) /\ (k[1] = "main" => inst.status = "running")
  BY <1>l, LiveIsAt
<1>e. /\ pc[w] \in Locked /\ UNCHANGED <<job, removing, inst>> /\ step[k].status = "running"
      /\ pc[w] \in {"claim", "save"} => mem.rec.status = "running" /\ mem.rec.seq = step[k].seq
  <2>1. UNCHANGED <<job, removing, inst>>
    BY DEF WakeUp, ClaimAttempt, SaveResult, SaveRetry, SaveFailure
  <2>2. Sound(pc[w], loc[w])
    BY DEF SoundTicks
  <2> QED BY <1>p, <1>m, <2>1, <2>2 DEF Claims, Sound, Locked
<1>n. ASSUME NEW r \in StepRecords, r.status # "none", r.seq = step[k].seq,
             step' = [step EXCEPT ![k] = r]
      PROVE  /\ Writes(mem, r) /\ step'[k] = r /\ InOrder'
             /\ At(mem)'
             /\ ForwardLive(mem) => ForwardLive(mem)'
             /\ Undoing(mem) => Undoing(mem)'
             /\ Telling(mem) => Telling(mem)'
             /\ Lands(w, mem.mode) => Proceeds(w)
  <2>1. Writes(mem, r)
    BY <1>n, <1>a, <1>e DEF Writes
  <2>2. step'[k] = r
    BY <1>m, <2>1, WriteElsewhere
  <2>3. InOrder'
    BY <1>m, <1>a, <2>1, WriteOrder
  <2>4. Lands(w, mem.mode) => Proceeds(w)
    BY <1>m, <1>a, <1>e, <2>1, WriteProceeds
  <2> QED BY <1>m, <1>a, <2>1, <2>2, <2>3, <2>4, WriteAt
<1>s. ASSUME NEW status \in {"running", "completed", "failed"},
             NEW wake \in {"none", "pending"}, Saved(w, status, wake), pc[w] = "save"
      PROVE  \E r \in StepRecords :
               /\ r.status = status /\ r.seq = step[k].seq
               /\ step' = [step EXCEPT ![k] = r]
  <2> DEFINE r == [mem.rec EXCEPT !.status = status, !.wake = wake]
  <2>1. r \in StepRecords /\ r.status = status /\ r.seq = mem.rec.seq
    BY <1>m DEF StepRecords
  <2>2. step' = [step EXCEPT ![k] = r]
    BY <1>m, <1>s DEF Saved
  <2> HIDE DEF r
  <2> QED BY <1>e, <1>s, <2>1, <2>2
<1>b. mem.mode = "normal" /\ inst.status = "compensating" => Barrier'
  BY <1>m, BarrierStays DEF Stopped
<1>1. CASE WakeUp(w)
  <2>0. pc[w] = "awake" /\ mem = loc[w] /\ ForwardLive(mem) /\ IsSleep(k)
    <3>1. pc[w] = "awake" /\ Sound(pc[w], loc[w])
      BY <1>1 DEF WakeUp, SoundTicks
    <3>2. mem = loc[w]
      BY <1>0, <3>1 DEF TypeOK, Locals
    <3> QED BY <3>1, <3>2 DEF Sound
  <2>1. PICK r \in StepRecords :
          /\ r.status = "completed" /\ r.seq = step[k].seq
          /\ step' = [step EXCEPT ![k] = r]
    <3> DEFINE r == [step[k] EXCEPT !.status = "completed"]
    <3>1. step[k] \in StepRecords
      BY <1>m DEF TypeOK
    <3>2. r \in StepRecords /\ r.status = "completed" /\ r.seq = step[k].seq
      BY <3>1 DEF StepRecords
    <3>3. step' = [step EXCEPT ![k] = r]
      BY <1>1, <1>m, WakeWrites
    <3> HIDE DEF r
    <3> QED BY <3>2, <3>3
  <2>2. Register(mem) = mem
    BY <2>0, ProcessorAssumption DEF IsSleep, Register
  <2>3. Advance(w, Register(mem))
    BY <1>1, <2>0, <2>2 DEF WakeUp
  <2> QED BY <1>m, <1>a, <1>b, <1>n, <2>1, <2>3, SettledLands
<1>2. CASE ClaimAttempt(w)
  <2>0. pc[w] = "claim" /\ mem = loc[w]
    <3>1. pc[w] = "claim"
      BY <1>2 DEF ClaimAttempt
    <3> QED BY <1>0, <3>1 DEF TypeOK, Locals
  <2>1. step' = [step EXCEPT ![k] = mem.rec] /\ Go(w, "body", mem)
    BY <1>2, <2>0 DEF ClaimAttempt
  <2>2. /\ ForwardLive(mem)' \/ Undoing(mem)' \/ Telling(mem)'
        /\ mem.rec.seq = step'[k].seq
        /\ Lands(w, mem.mode) => Proceeds(w)
    BY <1>m, <1>e, <1>l, <1>n, <2>0, <2>1
  <2>3. Sound("body", mem)'
    BY <2>2 DEF Sound
  <2> QED BY <1>m, <2>1, <2>2, <2>3 DEF Lands, Locked
<1>3. CASE SaveResult(w)
  <2>0. pc[w] = "save" /\ mem = [loc[w] EXCEPT !.result = "none"]
    <3>1. pc[w] = "save"
      BY <1>3 DEF SaveResult
    <3> QED BY <1>0, <3>1
  <2>1. Saved(w, "completed", "none") /\ Advance(w, Register(mem))
    BY <1>3, <2>0 DEF SaveResult
  <2>2. PICK r \in StepRecords :
          /\ r.status = "completed" /\ r.seq = step[k].seq
          /\ step' = [step EXCEPT ![k] = r]
    BY <1>s, <2>0, <2>1
  <2> QED BY <1>m, <1>a, <1>b, <1>n, <2>1, <2>2, SettledLands
<1>4. CASE SaveFailure(w)
  <2>0. pc[w] = "save" /\ mem = [loc[w] EXCEPT !.result = "none"]
    <3>1. pc[w] = "save"
      BY <1>4 DEF SaveFailure
    <3> QED BY <1>0, <3>1
  <2>1. Saved(w, "failed", "none") /\ StepFailed(w, mem)
    BY <1>4, <2>0 DEF SaveFailure
  <2>2. PICK r \in StepRecords :
          /\ r.status = "failed" /\ r.seq = step[k].seq
          /\ step' = [step EXCEPT ![k] = r]
    BY <1>s, <2>0, <2>1
  <2> QED BY <1>m, <1>a, <1>b, <1>n, <2>1, <2>2, SettledLands
<1>5. CASE SaveRetry(w)
  <2>0. pc[w] = "save" /\ mem = [loc[w] EXCEPT !.result = "none"]
    <3>1. pc[w] = "save"
      BY <1>5 DEF SaveRetry
    <3> QED BY <1>0, <3>1
  <2>1. CASE mem.mode = "normal" /\ Saved(w, "running", "pending") /\ Yield(w, mem)
    <3>1. PICK r \in StepRecords :
            /\ r.status = "running" /\ r.seq = step[k].seq
            /\ step' = [step EXCEPT ![k] = r]
      BY <1>s, <2>0, <2>1
    <3>2. k[1] = "main" => ForwardLive(mem)'
      BY <1>l, <1>n, <3>1 DEF Undoing, Telling
    <3> QED BY <1>m, <1>n, <2>1, <3>1, <3>2, YieldLands
  <2>2. CASE /\ mem.mode = "settle" /\ Saved(w, "running", "none")
             /\ Go(w, "claim", [mem EXCEPT !.rec.attempts = @ + 1])
    <3>1. PICK r \in StepRecords :
            /\ r.status = "running" /\ r.seq = step[k].seq
            /\ step' = [step EXCEPT ![k] = r]
      BY <1>s, <2>0, <2>2
    <3>2. PICK next \in StepRecords :
            next = [mem.rec EXCEPT !.attempts = @ + 1]
      BY <1>m, NextAttemptType
    <3> DEFINE m == [mem EXCEPT !.rec = next]
    <3>3. next.seq = step[k].seq /\ Go(w, "claim", m)
      BY <1>e, <1>m, <2>0, <2>2, <3>2 DEF StepRecords
    <3>4. /\ m \in Locals /\ m.rec = next /\ m.mode = mem.mode /\ m.entered = mem.entered
          /\ m.key = k /\ m.regs = mem.regs /\ m.todo = mem.todo
          /\ m.undoFailed = mem.undoFailed
      BY <1>m DEF Locals
    <3> HIDE DEF m
    <3>5. Writes(m, r) /\ step'[k] = r
      BY <1>n, <3>1, <3>4 DEF Writes
    <3>6. (ForwardLive(m) \/ Undoing(m) \/ Telling(m)) /\ At(m)
      BY <1>a, <1>l, <1>m, <3>4, SameStand
    <3>7. ForwardLive(m)' \/ Undoing(m)' \/ Telling(m)'
      BY <3>4, <3>5, <3>6, WriteAt
    <3>8. Sound("claim", m)'
      BY <3>1, <3>3, <3>4, <3>5, <3>7 DEF Sound
    <3> QED BY <1>n, <3>1, <3>3, <3>4, <3>8 DEF Lands, Locked
  <2> QED BY <1>5, <1>m, <2>0, <2>1, <2>2 DEF SaveRetry
<1> QED BY <1>1, <1>2, <1>3, <1>4, <1>5

---------------------------------------------------------------------------
(* The status writes.                                                      *)

LEMMA StatusOrder ==
  ASSUME InOrder, step' = step, inst'.stepSeq = inst.stepSeq, Exists(inst) => Exists(inst')
  PROVE  InOrder'
  BY DEF InOrder, Passed, Exists

(* While a run has not given up, nothing of an undo is recorded.           *)
LEMMA NothingUndone ==
  ASSUME Undoes, ~GaveUp, step' = step
  PROVE  /\ inst'.status \notin {"failed", "compensation_failed"} => Undoes'
         /\ Due = {} /\ ~HasOnFailure => Undoes'
         /\ UndoFate = [i \in Undoable |-> "no"] /\ StepsDone' = StepsDone /\ UndoFate' = UndoFate
<1>1. \A i \in Undoable : step[Undo(i)].status = "none"
  BY DEF Undoes
<1>2. step[OnFailure].status = "none"
  BY DEF Undoes
<1>3. UndoFate = [i \in Undoable |-> "no"]
  BY <1>1 DEF UndoFate
<1>4. StepsDone' = StepsDone /\ UndoFate' = UndoFate /\ Due' = Due
  BY DEF StepsDone, UndoFate, Due
<1>5. inst'.status \notin {"failed", "compensation_failed"} => Undoes'
  BY <1>1, <1>2 DEF Undoes
<1>6. Due = {} /\ ~HasOnFailure => Undoes'
  BY <1>1, <1>2, <1>4 DEF Undoes
<1> QED BY <1>3, <1>4, <1>5, <1>6

(* The failure sequence starts with all rollbacks to run.                  *)
LEMMA CompensationLands ==
  ASSUME TypeOK, InOrder, NEW w \in Workers, StartCompensation(w), GivesUp(loc[w]),
         step' = step, inst'.status = "compensating"
  PROVE  Lands(w, loc[w].mode)
<1>1. PICK m \in Locals : m = [loc[w] EXCEPT !.todo = loc[w].regs]
  BY DEF TypeOK, Locals
<1>2. /\ m.mode = loc[w].mode /\ m.regs = Due /\ m.todo = Due /\ ~m.undoFailed
      /\ Compensate(w, m)
  BY <1>1 DEF GivesUp, StartCompensation, TypeOK, Locals
<1>3. Due' = Due
  BY DEF Due
<1>4. Swept(m)'
  BY <1>2, <1>3 DEF Swept
<1>5. Called(m.todo)
  BY <1>2, DueCalled
<1> QED BY <1>2, <1>4, <1>5, CompensateLands

LEMMA ReleaseLands ==
  ASSUME TypeOK, NEW w \in Workers, NEW out,
         Go(w, "release", [loc[w] EXCEPT !.out = out]), [loc[w] EXCEPT !.out = out] \in Locals,
         loc[w].mode = "normal" \/ inst'.status # "compensating"
  PROVE  Lands(w, loc[w].mode)
<1>1. PICK m \in Locals : m = [loc[w] EXCEPT !.out = out]
  OBVIOUS
<1>2. m.mode = loc[w].mode /\ Go(w, "release", m)
  BY <1>1 DEF TypeOK, Locals
<1>3. Sound("release", m)'
  BY <1>2 DEF Sound
<1> QED BY <1>2, <1>3 DEF Lands, Locked

(* The lock is ours, so a terminal transition applies.                     *)
LEMMA TerminalLands ==
  ASSUME TypeOK, SoleTick, NEW w \in Workers, NEW place \in Locked, NEW status \in Terminal,
         NEW applied \in {"completed", "failed", "cancelled"}, NEW refused,
         TerminalAt(w, place, status, applied, refused), Exists(inst)
  PROVE  /\ inst'.status = status /\ inst'.stepSeq = inst.stepSeq /\ step' = step
         /\ UNCHANGED <<job, removing>> /\ pc[w] \in Locked
         /\ Lands(w, loc[w].mode)
<1>1. lock = w /\ MayFinish(inst, lock = Free, lock = w)
  BY DEF TerminalAt, SoleTick, MayFinish
<1>2. inst' = Finish(inst, status) /\ Go(w, "release", [loc[w] EXCEPT !.out = applied])
  BY <1>1 DEF TerminalAt
<1>3. inst'.status = status /\ inst'.stepSeq = inst.stepSeq
  BY <1>2 DEF Finish, TypeOK, Instances
<1>4. [loc[w] EXCEPT !.out = applied] \in Locals
  BY DEF TypeOK, Locals
<1>5. Lands(w, loc[w].mode)
  BY <1>2, <1>3, <1>4, ReleaseLands DEF Terminal
<1> QED BY <1>3, <1>5 DEF TerminalAt

LEMMA StatusProceeds ==
  ASSUME TypeOK, SoleTick, InOrder, Undoes, SoundTicks, NEW w \in Workers,
         MarkYielded(w) \/ EnterFailure(w) \/ MarkCompensating(w) \/ CompleteRun(w)
           \/ SettleTerminal(w) \/ FailFast(w) \/ CancelRun(w)
  PROVE  Proceeds(w)
<1>s. Sound(pc[w], loc[w]) /\ loc[w] \in Locals
  BY DEF SoundTicks, TypeOK
<1>1. CASE MarkYielded(w)
  <2>1. /\ ForwardLive(loc[w]) /\ pc[w] \in Locked /\ UNCHANGED <<job, removing>> /\ step' = step
        /\ inst' = UpdateStatus(inst, "yielded")
        /\ Go(w, "release", [loc[w] EXCEPT !.out = "yield"])
    BY <1>1, <1>s DEF MarkYielded, Sound, Locked
  <2>2. inst.status = "running" /\ loc[w].mode = "normal"
    BY <2>1 DEF ForwardLive
  <2>3. inst'.status = "yielded" /\ inst'.stepSeq = inst.stepSeq
    BY <2>1, <2>2 DEF UpdateStatus, Exists, TypeOK, Instances, Terminal
  <2>4. [loc[w] EXCEPT !.out = "yield"] \in Locals
    BY <1>s DEF Locals
  <2>5. InOrder'
    BY <2>1, <2>3, StatusOrder DEF Exists
  <2>6. Undoes' /\ StepsDone' = StepsDone /\ UndoFate' = UndoFate
    BY <2>1, <2>2, <2>3, NothingUndone DEF GaveUp
  <2>7. RunPhase' = RunPhase
    BY <2>2, <2>3 DEF RunPhase
  <2>8. RunStep
    BY <2>6, <2>7 DEF RunStep, Lifecycle!rvars
  <2> QED BY <2>1, <2>2, <2>3, <2>4, <2>5, <2>6, <2>8, ReleaseLands DEF Proceeds
<1>2. CASE EnterFailure(w)
  <2>1. /\ GivesUp(loc[w]) /\ pc[w] \in Locked /\ UNCHANGED <<inst, step, job, removing>>
    BY <1>2, <1>s DEF EnterFailure, Sound, Locked, store
  <2>2. Lands(w, loc[w].mode)
    <3>1. CASE inst.status = "compensating" /\ StartCompensation(w)
      BY <2>1, <3>1, CompensationLands
    <3>2. CASE inst.status # "compensating" /\ Go(w, "mark", loc[w])
      <4>1. PICK m \in Locals : m = loc[w]
        BY <1>s
      <4>2. GivesUp(m)' /\ inst'.status = "running"
        BY <2>1, <3>2, <4>1 DEF GivesUp, Due, Barrier
      <4>3. Sound("mark", m)'
        BY <4>2 DEF Sound
      <4> QED BY <3>2, <4>1, <4>3 DEF Lands, Locked
    <3> QED BY <1>2, <3>1, <3>2 DEF EnterFailure
  <2> QED BY <2>1, <2>2, QuietProceeds
<1>3. CASE MarkCompensating(w)
  <2>1. /\ GivesUp(loc[w]) /\ inst.status = "running" /\ pc[w] \in Locked
        /\ UNCHANGED <<job, removing>> /\ step' = step
        /\ inst' = UpdateStatus(inst, "compensating") /\ StartCompensation(w)
    BY <1>3, <1>s DEF MarkCompensating, Sound, Locked
  <2>2. inst'.status = "compensating" /\ inst'.stepSeq = inst.stepSeq
    BY <2>1 DEF UpdateStatus, Exists, TypeOK, Instances, Terminal
  <2>3. Lands(w, loc[w].mode)
    BY <2>1, <2>2, CompensationLands
  <2>4. InOrder'
    BY <2>1, <2>2, StatusOrder DEF Exists
  <2>5. Undoes' /\ StepsDone' = StepsDone /\ UndoFate' = UndoFate
    BY <2>1, <2>2, NothingUndone DEF GaveUp
  <2>6. RunPhase = "forward" /\ RunPhase' = "undoing"
    BY <2>1, <2>2 DEF RunPhase
  <2>7. RunStep
    BY <2>5, <2>6 DEF RunStep, Lifecycle!RunNext, Lifecycle!GiveUp
  <2>8. Barrier \/ loc[w].mode = "settle"
    BY <2>1 DEF GivesUp
  <2> QED BY <2>1, <2>3, <2>4, <2>5, <2>7, <2>8 DEF Proceeds
<1>4. CASE CompleteRun(w)
  <2>1. /\ inst.status = "running" /\ Passed(N + 1)
        /\ TerminalAt(w, "complete", "completed", "completed", "suspended")
    BY <1>4, <1>s DEF CompleteRun, TerminalAt, Sound
  <2>2. /\ inst'.status = "completed" /\ inst'.stepSeq = inst.stepSeq /\ step' = step
        /\ UNCHANGED <<job, removing>> /\ pc[w] \in Locked
        /\ Lands(w, loc[w].mode)
    BY <2>1, TerminalLands DEF Locked, Terminal, Exists
  <2>3. InOrder'
    BY <2>2, StatusOrder DEF Exists
  <2>4. Undoes' /\ StepsDone' = StepsDone /\ UndoFate' = UndoFate
    BY <2>1, <2>2, NothingUndone DEF GaveUp
  <2>5. RunPhase = "forward" /\ RunPhase' = "completed"
    BY <2>1, <2>2 DEF RunPhase
  <2>6. 1..N \subseteq StepsDone \cup Optional
    BY <2>1, ProcessorAssumption DEF Passed, StepsDone
  <2>7. RunStep
    BY <2>4, <2>5, <2>6 DEF RunStep, Lifecycle!RunNext, Lifecycle!Complete
  <2> QED BY <2>2, <2>3, <2>4, <2>7 DEF Proceeds
<1>5. CASE FailFast(w)
  <2>1. /\ inst.status = "running" /\ Due = {} /\ ~HasOnFailure
        /\ TerminalAt(w, "failfast", "failed", "failed", "failed")
    BY <1>5, <1>s DEF FailFast, TerminalAt, Sound
  <2>2. /\ inst'.status = "failed" /\ inst'.stepSeq = inst.stepSeq /\ step' = step
        /\ UNCHANGED <<job, removing>> /\ pc[w] \in Locked
        /\ Lands(w, loc[w].mode)
    BY <2>1, TerminalLands DEF Locked, Terminal, Exists
  <2>3. InOrder'
    BY <2>2, StatusOrder DEF Exists
  <2>4. Undoes' /\ StepsDone' = StepsDone /\ UndoFate' = UndoFate
    BY <2>1, <2>2, NothingUndone DEF GaveUp
  <2>5. RunPhase = "forward" /\ RunPhase' = "failed"
    BY <2>1, <2>2 DEF RunPhase
  <2>6. StepsDone \cap Undoable = {}
    BY <2>1 DEF Due, StepsDone
  <2>7. RunStep
    BY <2>1, <2>4, <2>5, <2>6 DEF RunStep, Lifecycle!RunNext, Lifecycle!GiveUp
  <2> QED BY <2>2, <2>3, <2>4, <2>7 DEF Proceeds
<1>6. CASE SettleTerminal(w)
  <2> DEFINE end == IF loc[w].undoFailed THEN "compensation_failed" ELSE "failed"
  <2>1. /\ Swept(loc[w]) /\ loc[w].todo = {} /\ (HasOnFailure => Settled(OnFailure))
        /\ TerminalAt(w, "settle", end, "failed", "suspended")
    BY <1>6, <1>s DEF SettleTerminal, TerminalAt, Sound
  <2>2. /\ inst.status = "compensating" /\ \A j \in Due : Settled(Undo(j))
        /\ loc[w].undoFailed <=> \E j \in Due : step[Undo(j)].status = "failed"
    BY <2>1 DEF Swept
  <2>3. /\ inst'.status = end /\ inst'.stepSeq = inst.stepSeq /\ step' = step
        /\ UNCHANGED <<job, removing>> /\ pc[w] \in Locked
        /\ Lands(w, loc[w].mode)
    BY <2>1, <2>2, TerminalLands DEF Locked, Terminal, Exists
  <2>4. InOrder'
    BY <2>3, StatusOrder DEF Exists
  <2>5. Undoes' /\ StepsDone' = StepsDone /\ UndoFate' = UndoFate
    <3>1. StepsDone' = StepsDone /\ UndoFate' = UndoFate /\ Due' = Due
      BY <2>3 DEF StepsDone, UndoFate, Due
    <3>2. GaveUp' /\ GaveUp
      BY <2>2, <2>3 DEF GaveUp
    <3>3. \A k : Settled(k)' <=> Settled(k)
      BY <2>3 DEF Settled
    <3> QED BY <2>1, <2>2, <2>3, <3>1, <3>2, <3>3 DEF Undoes
  <2>6. RunPhase = "undoing" /\ RunPhase' = end
    BY <2>2, <2>3 DEF RunPhase
  <2>7. \A i \in StepsDone \cap Undoable : UndoFate[i] # "no"
    <3>1. StepsDone \cap Undoable \subseteq Due
      BY DEF StepsDone, Due
    <3> QED BY <2>2, <3>1 DEF UndoFate, Settled
  <2>8. loc[w].undoFailed <=> \E i \in Undoable : UndoFate[i] = "lost"
    <3>1. \A i \in Undoable : UndoFate[i] = "lost" <=> step[Undo(i)].status = "failed"
      BY DEF UndoFate
    <3>2. \A i \in Undoable : step[Undo(i)].status = "failed" => i \in Due
      BY DEF Undoes
    <3> QED BY <2>2, <3>1, <3>2, DueSteps
  <2>9. RunStep
    BY <2>5, <2>6, <2>7, <2>8 DEF RunStep, Lifecycle!RunNext, Lifecycle!Fail
  <2> QED BY <2>2, <2>3, <2>4, <2>5, <2>9 DEF Proceeds
<1>7. CASE CancelRun(w)
  BY <1>7, <1>s DEF CancelRun, TerminalAt, Sound
<1> QED BY <1>1, <1>2, <1>3, <1>4, <1>5, <1>6, <1>7

(* The early return of a finished run, and a tick that starts its replay.  *)
LEMMA BeginProceeds ==
  ASSUME TypeOK, InOrder, Undoes, SoundTicks, NEW w \in Workers, Begin(w)
  PROVE  Proceeds(w)
<1>s. /\ Fresh(loc[w]) /\ loc[w] \in Locals /\ pc[w] \in Locked
      /\ inst' = BeginTick(inst) /\ step' = step /\ UNCHANGED <<job, removing>>
  BY DEF Begin, SoundTicks, Sound, TypeOK, Locked
<1>1. CASE inst.status = "absent"
  <2>1. inst'.status = "running" /\ inst'.stepSeq = 0
    BY <1>s, <1>1 DEF BeginTick, Exists, Terminal
  <2>2. \A k \in Keys : step[k].status = "none"
    BY <1>1 DEF InOrder, Exists
  <2>3. InOrder'
    BY <1>1, <1>s, <2>2, KeyFacts DEF InOrder, Exists
  <2>4. Undoes' /\ UndoFate = [i \in Undoable |-> "no"]
        /\ StepsDone' = StepsDone /\ UndoFate' = UndoFate
    BY <1>1, <1>s, <2>1, NothingUndone DEF GaveUp
  <2>5. RunPhase = "new" /\ RunPhase' = "forward"
    BY <1>1, <2>1 DEF RunPhase
  <2>6. RunStep
    BY <2>4, <2>5 DEF RunStep, Lifecycle!RunNext, Lifecycle!Start
  <2>7. PICK m \in Locals : m = [loc[w] EXCEPT !.entered = FALSE]
    BY <1>s DEF Locals
  <2>8. m.mode = loc[w].mode /\ Fresh(m) /\ ~m.entered
    BY <1>s, <2>7 DEF Fresh, Locals
  <2>9. Go(w, "step", m)
    BY <1>1, <1>s, <2>1, <2>7 DEF Begin, Terminal
  <2>10. Forward(m)'
    BY <2>1, <2>2, <2>8, <1>s, DueSteps DEF Forward, Fresh, Main, Passed, Due
  <2>11. Sound("step", m)'
    BY <2>10 DEF Sound, At
  <2> QED BY <1>s, <2>1, <2>3, <2>4, <2>6, <2>8, <2>9, <2>11 DEF Proceeds, Lands, Locked
<1>2. CASE inst.status \in Terminal
  <2>1. inst' = inst
    BY <1>s, <1>2 DEF BeginTick, Exists, Terminal
  <2>2. PICK out : /\ Go(w, "release", [loc[w] EXCEPT !.out = out])
                   /\ out \in {"completed", "failed", "cancelled"}
    BY <1>2, <1>s, <2>1 DEF Begin, Terminal
  <2>3. [loc[w] EXCEPT !.out = out] \in Locals
    BY <1>s, <2>2 DEF Locals
  <2>4. Lands(w, loc[w].mode)
    BY <1>2, <2>1, <2>2, <2>3, ReleaseLands DEF Terminal
  <2> QED BY <1>s, <2>1, <2>4, QuietProceeds
<1>3. CASE inst.status \in Live
  <2>1. /\ inst'.status = IF inst.status = "compensating" THEN "compensating" ELSE "running"
        /\ inst'.stepSeq = inst.stepSeq
    BY <1>s, <1>3 DEF BeginTick, Exists, Live, Terminal, TypeOK, Instances
  <2>2. InOrder'
    BY <1>s, <2>1, StatusOrder DEF Exists
  <2>3. /\ Undoes' /\ StepsDone' = StepsDone /\ UndoFate' = UndoFate
    <3>1. CASE inst.status = "compensating"
      BY <1>s, <2>1, <3>1 DEF Undoes, GaveUp, Due, Settled, StepsDone, UndoFate
    <3>2. CASE inst.status # "compensating"
      BY <1>3, <1>s, <2>1, <3>2, NothingUndone DEF GaveUp, Live
    <3> QED BY <3>1, <3>2
  <2>4. RunPhase' = RunPhase
    BY <1>3, <2>1 DEF RunPhase, Live
  <2>5. RunStep
    BY <2>3, <2>4 DEF RunStep, Lifecycle!rvars
  <2>6. PICK m \in Locals :
          m = [loc[w] EXCEPT !.entered = (inst'.status = "compensating")]
    BY <1>s DEF Locals
  <2>7. m.mode = loc[w].mode /\ Fresh(m) /\ (m.entered <=> inst'.status = "compensating")
    BY <1>s, <2>6 DEF Fresh, Locals
  <2>8. Go(w, "step", m)
    BY <1>3, <1>s, <2>1, <2>6 DEF Begin, Terminal, Live
  <2>9. Forward(m)'
    BY <2>1, <2>7, <1>s, DueSteps DEF Forward, Fresh, Main, Passed, Due
  <2>10. Sound("step", m)'
    BY <2>9 DEF Sound, At
  <2> QED BY <1>s, <2>1, <2>2, <2>3, <2>5, <2>7, <2>8, <2>10 DEF Proceeds, Lands, Locked
<1> QED BY <1>1, <1>2, <1>3 DEF TypeOK, Instances

---------------------------------------------------------------------------
(* A tick that works on a compensating run, and was delivered, meets the   *)
(* failed step: a settlement of its run is over, or it is that settlement. *)
LEMMA DrivenBarrier ==
  ASSUME TypeOK, SoleTick, JobHeld, Decided, NEW w \in Workers, pc[w] \in Locked
  PROVE  Stopped(w)
<1> SUFFICES ASSUME loc[w].mode = "normal", inst.status = "compensating"
             PROVE  Barrier
  BY DEF Stopped
<1>1. ~SettlingTick
  <2>1. ASSUME NEW u \in Workers, pc[u] \in Driving, loc[u].mode = "settle"
        PROVE  FALSE
    BY <2>1 DEF SoleTick, Driving
  <2> QED BY <2>1 DEF SettlingTick
<1>2. NoSecondLife => Claimed(job, w)
  BY DEF NoSecondLife, JobHeld, Locked
<1> QED BY <1>1, <1>2 DEF Decided, Claimed

LEMMA InsideProceeds ==
  ASSUME Undisturbed, TypeOK, SoleTick, Claims, Promised, [Next]_vars, NEW w \in Workers,
         \/ Begin(w) \/ ReplaySettled(w) \/ Refused(w) \/ FreshStep(w) \/ FreshSleep(w)
         \/ ExistingStep(w) \/ ReadSleep(w) \/ WakeUp(w) \/ ClaimAttempt(w) \/ RunBody(w)
         \/ SaveResult(w) \/ SaveRetry(w) \/ SaveFailure(w)
         \/ MarkYielded(w) \/ EnterFailure(w) \/ MarkCompensating(w)
         \/ CompleteRun(w) \/ SettleTerminal(w) \/ FailFast(w) \/ CancelRun(w)
  PROVE  Proceeds(w)
<1>p. InOrder /\ Undoes /\ SoundTicks /\ JobHeld /\ Decided
  BY DEF Promised
<1>1. CASE Begin(w)
  BY <1>1, <1>p, BeginProceeds
<1>2. CASE ReplaySettled(w) \/ Refused(w) \/ ExistingStep(w) \/ RunBody(w)
  <2>1. pc[w] \in Locked
    BY <1>2 DEF ReplaySettled, Refused, ExistingStep, RunBody, Entering, Locked
  <2> QED BY <1>2, <1>p, <2>1, DrivenBarrier, ReplayProceeds
<1>3. CASE FreshStep(w) \/ FreshSleep(w)
  <2>1. pc[w] \in Locked
    BY <1>3 DEF FreshStep, FreshSleep, Entering, Locked
  <2> QED BY <1>3, <1>p, <2>1, DrivenBarrier, FreshProceeds
<1>4. CASE WakeUp(w) \/ ClaimAttempt(w) \/ SaveResult(w) \/ SaveRetry(w) \/ SaveFailure(w)
  <2>1. pc[w] \in Locked
    BY <1>4 DEF WakeUp, ClaimAttempt, SaveResult, SaveRetry, SaveFailure, Locked
  <2> QED BY <1>4, <1>p, <2>1, DrivenBarrier, OverwriteProceeds
<1>5. CASE \/ MarkYielded(w) \/ EnterFailure(w) \/ MarkCompensating(w) \/ CompleteRun(w)
           \/ SettleTerminal(w) \/ FailFast(w) \/ CancelRun(w)
  BY <1>5, <1>p, StatusProceeds
<1>6. CASE ReadSleep(w)
  BY <1>6, <1>p, ReadProceeds
<1> QED BY <1>1, <1>2, <1>3, <1>4, <1>5, <1>6

---------------------------------------------------------------------------
(* The job of a tick.                                                      *)

LEMMA NoCancel ==
  ASSUME Undisturbed
  PROVE  Budget["cancel"] = 0
  BY DEF Undisturbed

LEMMA WithinStays ==
  ASSUME Budget["cancel"] = 0, TypeOK, Within, [Next]_vars
  PROVE  /\ Within'
         /\ ~ExternalCancel /\ ~RemoveCarrier
         /\ \A f \in Faults : Budget[f] = 0 => ~Strike(f)
<1>1. \A f \in Faults : Budget[f] = 0 => ~Strike(f)
  BY BudgetAssumption DEF Within, Strike, TypeOK
<1>2. ~ExternalCancel /\ ~RemoveCarrier
  BY <1>1 DEF ExternalCancel, RemoveCarrier, Within, Faults
<1>3. removing' = removing
  <2>1. ASSUME NEW w \in Workers, Work(w)
        PROVE  removing' = removing
    BY <2>1 DEF Work, Acquire, Contended, Begin, Release, Park, Return, Orphan, ReplaySettled,
                Refused, FreshStep, FreshSleep, ExistingStep, ReadSleep, WakeUp,
                ClaimAttempt, RunBody,
                SaveResult, SaveRetry, SaveFailure, MarkYielded, EnterFailure,
                MarkCompensating, CompleteRun, SettleTerminal, FailFast, CancelRun, TerminalAt
  <2>2. ASSUME NEW w \in Workers, Deliver(w) \/ StallDeath(w) \/ GlueError(w) \/ Crash(w)
        PROVE  removing' = removing
    BY <2>2 DEF Deliver, StallDeath, GlueError, Crash
  <2>3. CASE \/ \E k \in Keys : WakeTimeReached(k)
             \/ LockExpires \/ JobLockLapses \/ StallRecover \/ DelayOver \/ Promote \/ RetryJob
             \/ UNCHANGED vars
    BY <2>3 DEF WakeTimeReached, LockExpires, JobLockLapses, StallRecover, DelayOver, Promote,
                RetryJob, vars
  <2> QED BY <1>2, <2>1, <2>2, <2>3 DEF Next
<1>4. \A f \in Faults : faults'[f] <= Budget[f]
  BY FaultsShrink, BudgetAssumption DEF Within, TypeOK
<1> QED BY <1>1, <1>2, <1>3, <1>4 DEF Within

(* What a step can do to the job.                                          *)
JobMoves ==
  \/ job' = job
  \/ \E w \in Workers : Deliver(w) \/ StallDeath(w)
  \/ \E w \in Workers : Claimed(job, w) /\ pc'[w] = "idle"
  \/ job.state = "active" /\ Strike("jobLapse") /\ job' = Disowned(job)
  \/ Abandoned(job) /\ StallRecover
  \/ job.state = "delayed" /\ job' = Requeued(job)
  \/ job.state = "failed" /\ Strike("retry") /\ job' = Requeued(job)

LEMMA JobStepMoves ==
  ASSUME TypeOK, [Next]_vars, ~RemoveCarrier
  PROVE  JobMoves
<1>1. ASSUME NEW w \in Workers, Work(w), ~Park(w), ~Return(w)
      PROVE  job' = job
  BY <1>1 DEF Work, Acquire, Contended, Begin, Release, Orphan, ReplaySettled,
              Refused, FreshStep, FreshSleep, ExistingStep, ReadSleep, WakeUp,
                ClaimAttempt, RunBody,
              SaveResult, SaveRetry, SaveFailure, MarkYielded, EnterFailure,
              MarkCompensating, CompleteRun, SettleTerminal, FailFast, CancelRun, TerminalAt
<1>2. ASSUME NEW w \in Workers, Park(w) \/ Return(w) \/ Crash(w)
      PROVE  job' = job \/ (Claimed(job, w) /\ pc'[w] = "idle")
  <2>1. pc'[w] = "idle"
    BY <1>2 DEF Park, Return, Crash, Go, TypeOK
  <2>2. ~Claimed(job, w) => job' = job
    BY <1>2 DEF Park, Return, Crash
  <2> QED BY <2>1, <2>2
<1>3. ASSUME NEW w \in Workers, GlueError(w)
      PROVE  job' = job
  BY <1>3 DEF GlueError
<1>4. CASE \/ \E k \in Keys : WakeTimeReached(k)
           \/ LockExpires \/ ExternalCancel \/ UNCHANGED vars
  BY <1>4 DEF WakeTimeReached, LockExpires, ExternalCancel, vars, JobMoves
<1>5. CASE JobLockLapses \/ StallRecover \/ DelayOver \/ Promote \/ RetryJob
  BY <1>5 DEF JobLockLapses, StallRecover, DelayOver, Promote, RetryJob, JobMoves
<1> QED BY <1>1, <1>2, <1>3, <1>4, <1>5 DEF Next, Work, JobMoves

(* A dead job that nobody retries stays dead.                              *)
LEMMA DeadStays ==
  ASSUME TypeOK, JobMoves, ~Strike("retry"), job.state = "failed"
  PROVE  job'.state = "failed"
  BY DEF JobMoves, Deliver, StallDeath, Claimed, Abandoned

(* A job whose lock does not lapse stays with the worker it was given to.  *)
LEMMA HeldStays ==
  ASSUME TypeOK, JobMoves, ~Strike("jobLapse"),
         NEW v \in Workers, Claimed(job, v), pc'[v] # "idle"
  PROVE  Claimed(job, v)'
  BY OwnerAssumption DEF JobMoves, Deliver, StallDeath, Claimed, Abandoned

(* So a delivered tick has its job, and a settling one has a dead job.     *)
LEMMA JobsFollow ==
  ASSUME Budget["cancel"] = 0, TypeOK, Within, JobHeld, JobDead, [Next]_vars,
         \A v \in Workers : pc'[v] # "idle" =>
           \/ pc[v] # "idle" /\ loc'[v].mode = loc[v].mode
           \/ Deliver(v) \/ StallDeath(v)
  PROVE  JobHeld' /\ JobDead'
<1>m. JobMoves
  BY WithinStays, JobStepMoves
<1>1. JobHeld'
  <2> SUFFICES ASSUME Budget["jobLapse"] = 0, NEW v \in Workers,
                      pc'[v] # "idle", loc'[v].mode = "normal"
               PROVE  Claimed(job, v)'
    BY DEF JobHeld
  <2>0. ~Strike("jobLapse")
    BY WithinStays DEF Faults
  <2>1. CASE pc[v] # "idle" /\ loc'[v].mode = loc[v].mode
    BY <1>m, <2>0, <2>1, HeldStays DEF JobHeld
  <2>2. CASE Deliver(v)
    BY <2>2 DEF Deliver, Claimed, Owned, TypeOK, Jobs
  <2>3. CASE StallDeath(v)
    BY <2>3 DEF StallDeath, Go, Tick, TypeOK
  <2> QED BY <2>1, <2>2, <2>3
<1>2. JobDead'
  <2> SUFFICES ASSUME Budget["retry"] = 0, NEW v \in Workers,
                      pc'[v] # "idle", loc'[v].mode = "settle"
               PROVE  job'.state = "failed"
    BY DEF JobDead
  <2>0. ~Strike("retry")
    BY WithinStays DEF Faults
  <2>1. CASE pc[v] # "idle" /\ loc'[v].mode = loc[v].mode
    BY <1>m, <2>0, <2>1, DeadStays DEF JobDead
  <2>2. CASE Deliver(v)
    BY <2>2 DEF Deliver, Go, Tick, TypeOK
  <2>3. CASE StallDeath(v)
    BY <2>3 DEF StallDeath, Failed, TypeOK, Jobs
  <2> QED BY <2>1, <2>2, <2>3
<1> QED BY <1>1, <1>2

---------------------------------------------------------------------------
(* Steps that leave the statuses and the order of the records alone.       *)

Unmoved ==
  /\ inst' = inst
  /\ \A k \in Keys : step'[k].status = step[k].status /\ step'[k].seq = step[k].seq

LEMMA StandStays ==
  ASSUME Unmoved
  PROVE  /\ Due' = Due /\ (Barrier' <=> Barrier) /\ (GaveUp' <=> GaveUp)
         /\ \A i \in 1..(N + 1) : Passed(i)' <=> Passed(i)
         /\ \A k \in Keys : Settled(k)' <=> Settled(k)
<1>1. \A i \in 1..N : step'[Main(i)].status = step[Main(i)].status
  BY KeyFacts DEF Unmoved
<1>2. Due' = Due
  BY <1>1, ProcessorAssumption DEF Due
<1>3. Barrier' <=> Barrier
  BY <1>1 DEF Barrier
<1>4. GaveUp' <=> GaveUp
  BY DEF GaveUp, Unmoved
<1>5. ASSUME NEW i \in 1..(N + 1)
      PROVE  Passed(i)' <=> Passed(i)
  <2>1. 1..(i - 1) \subseteq 1..N
    BY ProcessorAssumption
  <2> QED BY <1>1, <2>1 DEF Passed
<1>6. \A k \in Keys : Settled(k)' <=> Settled(k)
  BY DEF Settled, Unmoved
<1> QED BY <1>2, <1>3, <1>4, <1>5, <1>6

LEMMA StandOrder ==
  ASSUME Unmoved, InOrder, \A k \in Keys : step[k].wake = "none" => step'[k].wake = "none"
  PROVE  InOrder'
<1>1. \A i \in 1..N : step'[Main(i)].status = step[Main(i)].status
                      /\ step'[Main(i)].seq = step[Main(i)].seq
  BY KeyFacts DEF Unmoved
<1>2. \A i \in 1..N : Passed(i)' <=> Passed(i)
  BY StandStays, ProcessorAssumption
<1>3. \A i \in 1..N : step'[Main(i)].status # "none" => Passed(i)'
  BY <1>1, <1>2 DEF InOrder
<1>4. \A i, j \in 1..N :
        i < j /\ step'[Main(i)].status # "none" /\ step'[Main(j)].status # "none"
          => step'[Main(i)].seq < step'[Main(j)].seq
  BY <1>1 DEF InOrder
<1>5. \A k \in Keys :
        IF step'[k].status = "none" THEN step'[k].wake = "none"
        ELSE step'[k].seq <= inst'.stepSeq /\ Exists(inst')
  BY DEF InOrder, Unmoved
<1> QED BY <1>3, <1>4, <1>5 DEF InOrder

LEMMA StandUndoes ==
  ASSUME Unmoved, Undoes
  PROVE  Undoes' /\ RunStep
<1>1. \A i \in Undoable : /\ step'[Undo(i)].status = step[Undo(i)].status
                          /\ Settled(Undo(i))' <=> Settled(Undo(i))
  BY StandStays, KeyFacts DEF Unmoved
<1>2. /\ step'[OnFailure].status = step[OnFailure].status
      /\ Settled(OnFailure)' <=> Settled(OnFailure)
      /\ inst' = inst
  BY StandStays, KeyFacts DEF Unmoved
<1>3. \A j \in Due : j \in Undoable
  BY DEF Due
<1>4. Undoes'
  BY <1>1, <1>2, <1>3, StandStays DEF Undoes
<1>5. \A i \in 1..N : step'[Main(i)].status = step[Main(i)].status
  BY KeyFacts DEF Unmoved
<1> QED BY <1>1, <1>2, <1>4, <1>5, ShowsSame

LEMMA StandSound ==
  ASSUME Unmoved, NEW m \in Locals, NEW p, Sound(p, m)
  PROVE  Sound(p, m)'
<1>k. m.key \in Keys
  BY DEF Locals
<1>1. /\ Due' = Due /\ (Barrier' <=> Barrier) /\ inst' = inst
      /\ \A i \in 1..(N + 1) : Passed(i)' <=> Passed(i)
  BY StandStays DEF Unmoved
<1>2. \A j \in Due : /\ Settled(Undo(j))' <=> Settled(Undo(j))
                     /\ step'[Undo(j)].status = step[Undo(j)].status
  BY StandStays, DueSteps, KeyFacts DEF Unmoved
<1>3. Settled(OnFailure)' <=> Settled(OnFailure)
  BY StandStays, KeyFacts
<1>4. Forward(m)' <=> Forward(m)
  <2>1. m.key[1] = "main" => m.key[2] \in 1..(N + 1)
    BY <1>k, PairKeys, ProcessorAssumption
  <2> QED BY <1>1, <2>1 DEF Forward
<1>5. ForwardLive(m)' <=> ForwardLive(m)
  BY <1>1, <1>4 DEF ForwardLive
<1>6. Swept(m)' <=> Swept(m)
  BY <1>1, <1>2 DEF Swept
<1>7. (Undoing(m)' <=> Undoing(m)) /\ (Telling(m)' <=> Telling(m))
  BY <1>6 DEF Undoing, Telling
<1>8. (At(m)' <=> At(m)) /\ (GivesUp(m)' <=> GivesUp(m))
  BY <1>1, <1>4, <1>7 DEF At, GivesUp
<1>9. step'[m.key].seq = step[m.key].seq
  BY <1>k DEF Unmoved
<1>10. Passed(N + 1)' <=> Passed(N + 1)
  BY <1>1, ProcessorAssumption
<1> HIDE DEF Unmoved
<1> QED BY <1>1, <1>3, <1>5, <1>6, <1>7, <1>8, <1>9, <1>10 DEF Sound

(* A place and a memory that are sound in a state are so as a worker's.    *)
LEMMA SoundHere ==
  \A w \in Workers : \A p, m : pc[w] = p /\ loc[w] = m /\ Sound(p, m) => Sound(pc[w], loc[w])
  OBVIOUS

LEMMA SoundThere ==
  (\A w \in Workers :
     \A p, m : pc[w] = p /\ loc[w] = m /\ Sound(p, m) => Sound(pc[w], loc[w]))'
  BY SoundHere, PTL

(* Outside the lock a memory says nothing but that it is a fresh one.      *)
LEMMA SoundOutside ==
  ASSUME NEW p \in Places \ Locked, NEW m, p \in {"orphan", "acquire"} => Fresh(m)
  PROVE  Sound(p, m) /\ Sound(p, m)'
  BY DEF Sound, Places, Locked, Fresh, Main

(* Who waits for the lock has a fresh memory, whatever happens in it.      *)
LEMMA OthersSound ==
  ASSUME TypeOK, SoleTick, SoundTicks, NEW w \in Workers, pc[w] \in Locked,
         NEW v \in Workers \ {w}, pc'[v] = pc[v], loc'[v] = loc[v]
  PROVE  Sound(pc[v], loc[v])'
<1>1. PICK p \in Places, m \in Locals : p = pc[v] /\ m = loc[v]
  BY DEF TypeOK
<1>2. p \notin Locked
  BY <1>1 DEF SoleTick
<1>3. p \in {"orphan", "acquire"} => Fresh(m)
  BY <1>1 DEF SoundTicks, Sound
<1>4. Sound(p, m)'
  BY <1>2, <1>3, SoundOutside
<1> QED BY <1>1, <1>4, SoundThere

---------------------------------------------------------------------------
(* Every step keeps the invariant and the promise.                         *)

LEMMA InsidePromised ==
  ASSUME Undisturbed, TypeOK, SoleTick, Claims, Promised, [Next]_vars,
         NEW w \in Workers, Proceeds(w)
  PROVE  Promised' /\ RunStep
<1>1. PICK p \in Locked \ {"begin"}, m \in Locals :
        Go(w, p, m) /\ Sound(p, m)' /\ m.mode = loc[w].mode
  BY DEF Proceeds, Lands
<1>2. /\ pc'[w] = p /\ loc'[w] = m /\ pc[w] \in Locked
      /\ \A v \in Workers \ {w} : pc'[v] = pc[v] /\ loc'[v] = loc[v]
  BY <1>1 DEF Go, TypeOK, Proceeds
<1>3. SoundTicks'
  <2>1. ASSUME NEW v \in Workers
        PROVE  Sound(pc[v], loc[v])'
    <3>1. CASE v = w
      BY <1>1, <1>2, <3>1, SoundThere
    <3>2. CASE v # w
      BY <1>2, <3>2, OthersSound DEF Promised
    <3> QED BY <3>1, <3>2
  <2> QED BY <2>1 DEF SoundTicks
<1>4. Within' /\ JobHeld' /\ JobDead'
  <2>1. \A v \in Workers : pc'[v] # "idle" => pc[v] # "idle" /\ loc'[v].mode = loc[v].mode
    BY <1>1, <1>2 DEF Locked
  <2> QED BY <2>1, NoCancel, WithinStays, JobsFollow DEF Promised
<1>5. Decided'
  <2> SUFFICES ASSUME inst'.status = "compensating"
               PROVE  Barrier' \/ SettlingTick' \/ (NoSecondLife /\ job'.state = "failed")
    BY DEF Decided
  <2>1. ASSUME loc[w].mode = "settle"
        PROVE  SettlingTick'
    <3>1. p # "release"
      <4>1. ASSUME p = "release"
            PROVE  FALSE
        <5>1. Sound("release", m)'
          BY <1>1, <4>1
        <5> QED BY <1>1, <2>1, <5>1 DEF Sound
      <4> QED BY <4>1
    <3> QED BY <1>1, <1>2, <2>1, <3>1 DEF SettlingTick, Driving
  <2>2. SettlingTick => loc[w].mode = "settle"
    BY <1>2 DEF SettlingTick, SoleTick, Driving
  <2>3. job' = job
    BY DEF Proceeds
  <2>4. inst.status = "compensating" \/ Barrier \/ loc[w].mode = "settle"
    BY DEF Proceeds
  <2> QED BY <2>1, <2>2, <2>3, <2>4, BarrierStays DEF Promised, Decided
<1> QED BY <1>3, <1>4, <1>5 DEF Promised, Proceeds

(* A step around the lock, of a worker that was not driving.               *)
LEMMA OutsidePromised ==
  ASSUME Undisturbed, TypeOK, SoleTick, Claims, Promised, [Next]_vars,
         UNCHANGED <<inst, step>>, NEW w \in Workers, Lone(w),
         pc'[w] \in (Places \ Locked) \cup {"begin"},
         pc'[w] \in {"orphan", "acquire", "begin"} => Fresh(loc'[w]),
         pc'[w] # "idle" =>
           \/ pc[w] # "idle" /\ loc'[w].mode = loc[w].mode
           \/ Deliver(w) \/ StallDeath(w),
         pc[w] \notin Driving \/ (NoSecondLife /\ pc'[w] = "idle")
  PROVE  Promised' /\ RunStep
<1>u. Unmoved
  BY DEF Unmoved
<1>t. TypeOK'
  BY NextType
<1>o. \A v \in Workers \ {w} : pc'[v] = pc[v] /\ loc'[v] = loc[v]
  BY DEF Lone
<1>1. InOrder' /\ Undoes' /\ RunStep
  BY <1>u, StandOrder, StandUndoes DEF Promised
<1>2. SoundTicks'
  <2>1. ASSUME NEW v \in Workers \ {w}
        PROVE  Sound(pc[v], loc[v])'
    <3>1. PICK p \in Places, m \in Locals : p = pc[v] /\ m = loc[v]
      BY DEF TypeOK
    <3>2. Sound(p, m)
      BY <3>1 DEF Promised, SoundTicks
    <3> QED BY <1>u, <1>o, <3>1, <3>2, StandSound, SoundThere
  <2>2. Sound(pc[w], loc[w])'
    <3>1. PICK p \in Places, m \in Locals : p = pc'[w] /\ m = loc'[w]
      BY <1>t DEF TypeOK
    <3>2. CASE p = "begin"
      <4>1. Fresh(m)
        BY <3>1, <3>2
      <4>2. Sound("begin", m)'
        BY <4>1 DEF Sound, Fresh, Main
      <4> QED BY <3>1, <3>2, <4>2, SoundThere
    <3>3. CASE p # "begin"
      <4>1. p \in Places \ Locked /\ (p \in {"orphan", "acquire"} => Fresh(m))
        BY <3>1, <3>3
      <4>2. Sound(p, m)'
        BY <4>1, SoundOutside
      <4> QED BY <3>1, <4>2, SoundThere
    <3> QED BY <3>2, <3>3
  <2> QED BY <2>1, <2>2 DEF SoundTicks
<1>3. Within' /\ JobHeld' /\ JobDead'
  BY <1>o, NoCancel, WithinStays, JobsFollow DEF Promised
<1>4. Decided'
  <2> SUFFICES ASSUME inst.status = "compensating", ~Barrier
               PROVE  SettlingTick' \/ (NoSecondLife /\ job'.state = "failed")
    BY <1>u, StandStays DEF Decided
  <2>1. ASSUME NoSecondLife, job.state = "failed"
        PROVE  job'.state = "failed"
    <3>1. JobMoves /\ ~Strike("retry")
      BY <2>1, NoCancel, WithinStays, JobStepMoves DEF NoSecondLife, Promised, Faults
    <3> QED BY <2>1, <3>1, DeadStays
  <2>2. ASSUME NEW u \in Workers, pc[u] \in Driving, loc[u].mode = "settle", u # w
        PROVE  SettlingTick'
    BY <1>o, <2>2 DEF SettlingTick
  <2>3. ASSUME pc[w] \in Driving, loc[w].mode = "settle"
        PROVE  NoSecondLife /\ job.state = "failed"
    <3>1. NoSecondLife
      BY <2>3
    <3> QED BY <2>3, <3>1 DEF Promised, JobDead, NoSecondLife, Driving, Locked
  <2> QED BY <2>1, <2>2, <2>3 DEF Promised, Decided, SettlingTick
<1> QED BY <1>1, <1>2, <1>3, <1>4 DEF Promised

(* A step of nobody's, or one that does nothing.                           *)
LEMMA SurroundingsPromised ==
  ASSUME Undisturbed, TypeOK, SoleTick, Claims, Promised, [Next]_vars,
         \/ \E k \in Keys : WakeTimeReached(k)
         \/ LockExpires \/ JobLockLapses \/ StallRecover \/ DelayOver \/ Promote \/ RetryJob
         \/ UNCHANGED vars
  PROVE  Promised' /\ RunStep
<1>1. UNCHANGED <<inst, pc, loc>>
  BY DEF WakeTimeReached, LockExpires, JobLockLapses, StallRecover, DelayOver, Promote,
         RetryJob, vars, store
<1>2. Unmoved /\ \A k \in Keys : step[k].wake = "none" => step'[k].wake = "none"
  <2>1. CASE step' = step
    BY <1>1, <2>1 DEF Unmoved
  <2>2. ASSUME NEW k \in Keys, WakeTimeReached(k)
        PROVE  /\ \A x \in Keys : /\ step'[x].status = step[x].status
                                  /\ step'[x].seq = step[x].seq
               /\ \A x \in Keys : step[x].wake = "none" => step'[x].wake = "none"
    <3>1. step[k].wake = "pending" /\ step' = [step EXCEPT ![k] = [step[k] EXCEPT !.wake = "due"]]
      BY <2>2 DEF WakeTimeReached
    <3>2. \A x \in Keys : step'[x] = IF x = k THEN [step[k] EXCEPT !.wake = "due"] ELSE step[x]
      BY <3>1 DEF TypeOK
    <3>3. step[k] \in StepRecords
      BY DEF TypeOK
    <3>4. /\ [step[k] EXCEPT !.wake = "due"].status = step[k].status
          /\ [step[k] EXCEPT !.wake = "due"].seq = step[k].seq
      BY <3>3 DEF StepRecords
    <3> QED BY <3>1, <3>2, <3>4
  <2>3. ~(\E k \in Keys : WakeTimeReached(k)) => step' = step
    BY DEF LockExpires, JobLockLapses, StallRecover, DelayOver, Promote, RetryJob, vars, store
  <2> QED BY <1>1, <2>1, <2>2, <2>3 DEF Unmoved
<1>3. InOrder' /\ Undoes' /\ RunStep
  BY <1>2, StandOrder, StandUndoes DEF Promised
<1>4. SoundTicks'
  <2>1. ASSUME NEW v \in Workers
        PROVE  Sound(pc[v], loc[v])'
    <3>1. PICK p \in Places, m \in Locals : p = pc[v] /\ m = loc[v]
      BY DEF TypeOK
    <3>2. Sound(p, m)
      BY <3>1 DEF Promised, SoundTicks
    <3> QED BY <1>1, <1>2, <3>1, <3>2, StandSound, SoundThere
  <2> QED BY <2>1 DEF SoundTicks
<1>5. Within' /\ JobHeld' /\ JobDead'
  BY <1>1, NoCancel, WithinStays, JobsFollow DEF Promised
<1>6. Decided'
  <2> SUFFICES ASSUME inst.status = "compensating", ~Barrier
               PROVE  SettlingTick' \/ (NoSecondLife /\ job'.state = "failed")
    BY <1>1, <1>2, StandStays DEF Decided
  <2>1. ASSUME NoSecondLife, job.state = "failed"
        PROVE  job'.state = "failed"
    <3>1. JobMoves /\ ~Strike("retry")
      BY <2>1, NoCancel, WithinStays, JobStepMoves DEF NoSecondLife, Promised, Faults
    <3> QED BY <2>1, <3>1, DeadStays
  <2> QED BY <1>1, <2>1 DEF Promised, Decided, SettlingTick
<1> QED BY <1>3, <1>4, <1>5, <1>6 DEF Promised

LEMMA PromisedStep ==
  ASSUME Undisturbed, TypeOK, SoleTick, Claims, Promised, [Next]_vars
  PROVE  Promised' /\ RunStep
<1>1. ASSUME NEW w \in Workers,
             \/ Begin(w) \/ ReplaySettled(w) \/ Refused(w) \/ FreshStep(w) \/ FreshSleep(w)
             \/ ExistingStep(w) \/ ReadSleep(w) \/ WakeUp(w) \/ ClaimAttempt(w) \/ RunBody(w)
             \/ SaveResult(w) \/ SaveRetry(w) \/ SaveFailure(w)
             \/ MarkYielded(w) \/ EnterFailure(w) \/ MarkCompensating(w)
             \/ CompleteRun(w) \/ SettleTerminal(w) \/ FailFast(w) \/ CancelRun(w)
      PROVE  Promised' /\ RunStep
  BY <1>1, InsideProceeds, InsidePromised
<1>2. ASSUME NEW w \in Workers,
             \/ Acquire(w) \/ Contended(w) \/ Release(w) \/ Park(w) \/ Return(w) \/ Orphan(w)
             \/ Deliver(w) \/ StallDeath(w) \/ Crash(w)
      PROVE  Promised' /\ RunStep
  <2>1. Lone(w) /\ UNCHANGED <<inst, step>>
    <3>1. Lone(w) /\ inst' = inst
      BY <1>2, NotDriving
    <3>2. step' = step
      BY <1>2 DEF Acquire, Contended, Release, Park, Return, Orphan, Deliver, StallDeath, Crash,
                  store
    <3> QED BY <3>1, <3>2
  <2>s. Sound(pc[w], loc[w]) /\ loc[w] \in Locals /\ pc[w] \in Places
    BY DEF Promised, SoundTicks, TypeOK
  <2>2. /\ pc'[w] \in (Places \ Locked) \cup {"begin"}
        /\ pc'[w] \in {"orphan", "acquire", "begin"} => Fresh(loc'[w])
        /\ pc'[w] # "idle" =>
             \/ pc[w] # "idle" /\ loc'[w].mode = loc[w].mode
             \/ Deliver(w) \/ StallDeath(w)
        /\ pc[w] \notin Driving \/ (NoSecondLife /\ pc'[w] = "idle")
    <3>1. CASE Acquire(w) \/ Orphan(w)
      <4>1. /\ pc'[w] \in {"begin", "acquire", "idle"} /\ pc[w] \in {"acquire", "orphan"}
            /\ pc'[w] # "idle" => loc'[w] = loc[w]
        BY <3>1 DEF Acquire, Orphan, Go, TypeOK
      <4> QED BY <2>s, <4>1 DEF Places, Locked, Driving, Sound
    <3>2. CASE Contended(w) \/ Release(w)
      <4>1. /\ pc'[w] \in {"park", "return"} /\ pc[w] \in {"acquire", "release"}
            /\ loc'[w] \in {loc[w], [loc[w] EXCEPT !.out = "contended"]}
        BY <3>2 DEF Contended, Release, Go, TypeOK
      <4>2. loc'[w].mode = loc[w].mode
        BY <2>s, <4>1 DEF Locals
      <4> QED BY <4>1, <4>2 DEF Places, Locked, Driving
    <3>3. CASE Park(w) \/ Return(w)
      <4>1. pc'[w] = "idle" /\ pc[w] \in {"park", "return"}
        BY <3>3 DEF Park, Return, Go, TypeOK
      <4> QED BY <4>1 DEF Places, Locked, Driving
    <3>4. CASE Deliver(w)
      <4>1. /\ pc'[w] = "acquire" /\ pc[w] = "idle"
            /\ loc'[w] = Tick("normal", job.made + 1)
        BY <3>4 DEF Deliver, Go, TypeOK
      <4> QED BY <3>4, <4>1 DEF Places, Locked, Driving, Tick, Fresh
    <3>5. CASE StallDeath(w)
      <4>1. /\ pc'[w] = "orphan" /\ pc[w] = "idle"
            /\ loc'[w] = Tick("settle", job.made + 2)
        BY <3>5 DEF StallDeath, Go, TypeOK
      <4> QED BY <3>5, <4>1 DEF Places, Locked, Driving, Tick, Fresh
    <3>6. CASE Crash(w)
      <4>1. pc'[w] = "idle" /\ Strike("crash")
        BY <3>6 DEF Crash, Go, TypeOK
      <4>2. NoSecondLife
        BY <4>1, NoCancel, WithinStays DEF Undisturbed, Promised, Faults
      <4> QED BY <4>1, <4>2 DEF Places, Locked
    <3> QED BY <1>2, <3>1, <3>2, <3>3, <3>4, <3>5, <3>6
  <2> QED BY <2>1, <2>2, OutsidePromised
<1>3. ASSUME NEW w \in Workers, GlueError(w)
      PROVE  FALSE
  BY <1>3, NoCancel, WithinStays DEF GlueError, Undisturbed, Promised, Faults
<1>4. ~ExternalCancel /\ ~RemoveCarrier
  BY NoCancel, WithinStays DEF Promised
<1> QED BY <1>1, <1>2, <1>3, <1>4, SurroundingsPromised DEF Next, Work

LEMMA PromisedInit ==
  ASSUME Init
  PROVE  Promised /\ Lifecycle!RunInit
<1>1. \A k \in Keys : step[k] = NoStep
  BY DEF Init
<1>2. /\ \A i \in 1..N : step[Main(i)].status = "none"
      /\ \A i \in Undoable : step[Undo(i)].status = "none"
      /\ step[OnFailure].status = "none" /\ inst.status = "absent"
  BY <1>1, KeyFacts DEF NoStep, Init, NoInstance
<1>3. InOrder /\ Undoes
  BY <1>1, <1>2 DEF InOrder, Undoes, NoStep
<1>4. SoundTicks
  <2>1. ASSUME NEW w \in Workers
        PROVE  Sound(pc[w], loc[w])
    <3>1. Sound("idle", Idle)
      BY DEF Sound
    <3> QED BY <3>1 DEF Init
  <2> QED BY <2>1 DEF SoundTicks
<1>5. Within /\ JobHeld /\ JobDead /\ Decided
  BY <1>2, BudgetAssumption DEF Init, Within, JobHeld, JobDead, Decided
<1>6. Lifecycle!RunInit
  <2>1. RunPhase = "new"
    BY <1>2 DEF RunPhase
  <2>2. StepsDone = {}
    BY <1>2 DEF StepsDone
  <2>3. UndoFate = [i \in Undoable |-> "no"]
    BY <1>2 DEF UndoFate
  <2> QED BY <2>1, <2>2, <2>3 DEF Lifecycle!RunInit
<1> QED BY <1>3, <1>4, <1>5, <1>6 DEF Promised

(* What a worker holds in memory, what the records say and what the job    *)
(* says fit together in every state of a run without such a fault.         *)
THEOREM PromiseHolds ==
  ASSUME Undisturbed
  PROVE  Spec => []Promised
<1>1. Budget["lockLapse"] = 0
  BY DEF Undisturbed
<1>2. Init => Promised
  BY PromisedInit
<1>3. TypeOK /\ SoleTick /\ Claims /\ Promised /\ [Next]_vars => Promised'
  BY PromisedStep
<1> QED BY <1>1, <1>2, <1>3, LockProtects, PTL DEF Spec

(* The run is what RunLifecycle promises: steps complete in order, and a   *)
(* run that gives up does so once and for all, undoes what it completed    *)
(* newest first and fails.  Every store and job call of every worker,      *)
(* every crash and every new delivery is a step of that lifecycle or       *)
(* leaves what the run shows as it is.                                     *)
THEOREM LifecycleKept ==
  ASSUME Undisturbed
  PROVE  Spec => KeepsPromise
<1>1. Budget["lockLapse"] = 0
  BY DEF Undisturbed
<1>2. Init => Lifecycle!RunInit
  BY PromisedInit
<1>3. TypeOK /\ SoleTick /\ Claims /\ Promised /\ [Next]_vars
      => [Lifecycle!RunNext]_(Lifecycle!rvars)
  BY PromisedStep DEF RunStep
<1> QED BY <1>1, <1>2, <1>3, LockProtects, PromiseHolds, PTL
        DEF Spec, KeepsPromise, Lifecycle!RunSpec

---------------------------------------------------------------------------
(* What follows from it.                                                   *)

LEMMA BodyRuns ==
  ASSUME TypeOK, Promised, NEW w \in Workers, pc[w] = "body"
  PROVE  /\ ForwardLive(loc[w]) \/ Undoing(loc[w]) \/ Telling(loc[w])
         /\ loc[w] \in Locals
  BY DEF Promised, SoundTicks, Sound, TypeOK

(* Rollbacks run newest first, of completed steps only, also when yields   *)
(* and crashes split the sequence over several ticks.                      *)
THEOREM NewestFirst ==
  ASSUME Undisturbed
  PROVE  Spec => ReverseOrder
<1>1. Budget["lockLapse"] = 0
  BY DEF Undisturbed
<1>2. ASSUME TypeOK, Promised, NEW w \in Workers, NEW i \in Undoable, Runs(w, Undo(i))
      PROVE  /\ step[Main(i)].status = "completed"
             /\ \A j \in CompletedAfter(i) : step[Undo(j)].status \in {"completed", "failed"}
  <2>1. pc[w] = "body" /\ loc[w].key = Undo(i)
    BY <1>2 DEF Runs
  <2>2. Undoing(loc[w])
    BY <1>2, <2>1, BodyRuns DEF ForwardLive, Forward, Telling, Undo
  <2>3. i \in Due /\ \A j \in loc[w].todo : j <= i
    BY <2>1, <2>2 DEF Undoing, Swept, Undo
  <2>4. ASSUME NEW j \in CompletedAfter(i)
        PROVE  Settled(Undo(j))
    <3>1. j \in Due /\ step[Main(j)].seq > step[Main(i)].seq
      BY DEF CompletedAfter, Due
    <3>2. i \in 1..N /\ j \in 1..N /\ step[Main(i)].seq \in Nat /\ step[Main(j)].seq \in Nat
      BY <1>2, <2>3, <3>1, DueSteps, KeyFacts DEF TypeOK, StepRecords
    <3>3. ~(j < i) /\ j # i
      BY <1>2, <2>3, <3>1, <3>2, DueSteps DEF Promised, InOrder
    <3>4. j \notin loc[w].todo
      BY <2>3, <3>2, <3>3, ProcessorAssumption
    <3> QED BY <2>2, <3>1, <3>4 DEF Undoing, Swept
  <2> QED BY <2>3, <2>4, DueSteps DEF Settled
<1>3. TypeOK /\ Promised /\ [Next]_vars =>
        [\A w \in Workers : \A i \in Undoable : Runs(w, Undo(i)) =>
           /\ step[Main(i)].status = "completed"
           /\ \A j \in CompletedAfter(i) :
                step[Undo(j)].status \in {"completed", "failed"}]_vars
  BY <1>2
<1> QED BY <1>1, <1>3, TypeCorrect, PromiseHolds, PTL DEF Spec, ReverseOrder

(* No forward step body runs once a rollback has been started.             *)
THEOREM NeverForwardAgain ==
  ASSUME Undisturbed
  PROVE  Spec => NoForwardAfterUndo
<1>1. ASSUME TypeOK, Promised, NEW w \in Workers, NEW i \in 1..N, Runs(w, Main(i)),
             NEW j \in Undoable
      PROVE  step[Undo(j)].status = "none"
  <2>1. pc[w] = "body" /\ loc[w].key = Main(i)
    BY <1>1 DEF Runs
  <2>2. ForwardLive(loc[w])
    BY <1>1, <2>1, BodyRuns DEF Undoing, Telling, Main
  <2> QED BY <1>1, <2>2 DEF ForwardLive, Promised, Undoes, GaveUp
<1>2. TypeOK /\ Promised /\ [Next]_vars =>
        [\A w \in Workers : \A i \in 1..N : Runs(w, Main(i)) =>
           \A j \in Undoable : step[Undo(j)].status = "none"]_vars
  BY <1>1
<1> QED BY <1>2, TypeCorrect, PromiseHolds, PTL DEF Spec, NoForwardAfterUndo

(* onFailure starts after the last rollback, and a failed run has been     *)
(* through it.                                                             *)
THEOREM ToldLast ==
  ASSUME Undisturbed
  PROVE  Spec => []OnFailureLast
<1>1. Promised => OnFailureLast
  BY DEF Promised, Undoes, OnFailureLast, Due, Settled
<1> QED BY <1>1, PromiseHolds, PTL

---------------------------------------------------------------------------
(* Why a run gives up.  Here processors may throw between two steps, and   *)
(* workers may die or outlive their job lock as they like.                 *)

Causes ==
  Barrier \/ job.made + 1 >= JobAttempts \/ faults["fatal"] < Budget["fatal"]

(* A place in the failure sequence.                                        *)
Sequel(p, m) ==
  p = "settle" \/ (p \in {"step", "claim", "body", "save"} /\ m.key[1] # "main")

(* A tick heads for the failure sequence when it resumes one, settles a    *)
(* dead job, or has a cause; and once there, the status says so.           *)
Caused(p, m) ==
  /\ p \in {"orphan", "acquire", "begin", "wake", "awake"} => m.key[1] = "main"
  /\ p # "idle" /\ m.mode = "normal" => m.attempt <= job.made + 1
  /\ p \in {"enter", "mark", "failfast"} => m.entered \/ m.mode = "settle" \/ Causes
  /\ p \in Driving /\ (m.entered \/ Sequel(p, m)) => inst.status = "compensating"

CausedTicks == \A w \in Workers : Caused(pc[w], loc[w])

Reasoned == Within /\ DrivenLive /\ JobHeld /\ JobDead /\ CausedTicks

(* Where a tick that drives the run goes next.                             *)
Goes(w, mem) ==
  \E p \in Locked \ {"begin"}, m \in Locals :
    /\ Go(w, p, m)
    /\ m.mode = mem.mode /\ m.attempt = mem.attempt
    /\ p \in {"wake", "awake"} => m.key[1] = "main"
    /\ p \in {"enter", "mark", "failfast"} => m.entered \/ m.mode = "settle" \/ Causes'
    /\ p # "release" /\ (m.entered \/ Sequel(p, m)) => inst'.status = "compensating"

LEMMA CompensateGoes ==
  ASSUME NEW w \in Workers, NEW mem \in Locals, Compensate(w, mem),
         inst'.status = "compensating"
  PROVE  Goes(w, mem)
<1>1. ASSUME NEW k \in Keys, Go(w, "step", [mem EXCEPT !.key = k])
      PROVE  Goes(w, mem)
  <2>1. PICK m \in Locals : m = [mem EXCEPT !.key = k]
    BY DEF Locals
  <2>2. m.mode = mem.mode /\ m.attempt = mem.attempt /\ m.entered = mem.entered
    BY <2>1 DEF Locals
  <2> QED BY <1>1, <2>1, <2>2 DEF Goes, Locked
<1>2. CASE Go(w, "settle", mem)
  BY <1>2 DEF Goes, Locked
<1>3. ASSUME NEW i \in LastCalled(mem.todo)
      PROVE  Undo(i) \in Keys
  BY <1>3, KeyFacts DEF LastCalled, Locals
<1> QED BY <1>1, <1>2, <1>3, KeyFacts DEF Compensate

(* Changes of the memory that do not matter here.                          *)
LEMMA SameGoes ==
  ASSUME NEW w \in Workers, NEW mem \in Locals, NEW m \in Locals, Goes(w, m),
         m.mode = mem.mode, m.attempt = mem.attempt
  PROVE  Goes(w, mem)
  BY DEF Goes

LEMMA AdvanceGoes ==
  ASSUME NEW w \in Workers, NEW mem \in Locals, Advance(w, mem),
         mem.entered \/ mem.key[1] # "main" => inst'.status = "compensating"
  PROVE  Goes(w, mem)
<1>k. mem.key \in Keys
  BY DEF Locals
<1>1. CASE mem.key[1] = "main" /\ mem.key[2] < N
           /\ Go(w, "step", [mem EXCEPT !.key = Main(mem.key[2] + 1)])
  <2>1. Main(mem.key[2] + 1) \in Keys
    BY <1>1, <1>k, PairKeys, KeyFacts, ProcessorAssumption
  <2>2. PICK m \in Locals : m = [mem EXCEPT !.key = Main(mem.key[2] + 1)]
    BY <2>1 DEF Locals
  <2>3. /\ m.mode = mem.mode /\ m.attempt = mem.attempt /\ m.entered = mem.entered
        /\ m.key[1] = "main"
    BY <2>2 DEF Locals, Main
  <2> QED BY <1>1, <2>2, <2>3 DEF Goes, Locked, Sequel
<1>2. CASE mem.key[1] = "main" /\ Go(w, IF mem.entered THEN "enter" ELSE "complete", mem)
  <2>1. PICK p : p = IF mem.entered THEN "enter" ELSE "complete"
    OBVIOUS
  <2> QED BY <1>2, <2>1 DEF Goes, Locked, Sequel
<1>3. CASE mem.key[1] = "compensation"
           /\ Compensate(w, [mem EXCEPT !.todo = @ \ {mem.key[2]}])
  <2>1. PICK m \in Locals : m = [mem EXCEPT !.todo = @ \ {mem.key[2]}]
    BY DEF Locals
  <2>2. m.mode = mem.mode /\ m.attempt = mem.attempt /\ m.entered = mem.entered
    BY <2>1 DEF Locals
  <2> QED BY <1>3, <2>1, <2>2, CompensateGoes, SameGoes
<1>4. CASE mem.key[1] = "failure" /\ Go(w, "settle", mem)
  BY <1>4 DEF Goes, Locked
<1> QED BY <1>1, <1>2, <1>3, <1>4 DEF Advance

LEMMA ClassifyGoes ==
  ASSUME NEW w \in Workers, NEW mem \in Locals, NEW retriable, Classify(w, mem, retriable),
         mem.entered => inst'.status = "compensating", job'.made \in Nat,
         IF retriable THEN mem.mode = "normal" => mem.attempt <= job'.made + 1 ELSE Causes'
  PROVE  Goes(w, mem)
<1>1. mem.mode \in {"normal", "settle"} /\ mem.attempt \in Nat
  BY DEF Locals
<1>2. ASSUME ~(retriable /\ mem.mode = "normal" /\ mem.attempt < JobAttempts)
      PROVE  mem.mode = "settle" \/ Causes'
  <2>1. CASE retriable /\ mem.mode = "normal"
    <3>1. job'.made + 1 >= JobAttempts
      BY <1>1, <1>2, <2>1, BudgetAssumption
    <3> QED BY <3>1 DEF Causes
  <2> QED BY <1>1, <1>2, <2>1
<1>3. CASE Go(w, "enter", mem) /\ mem.entered
  BY <1>3 DEF Goes, Locked
<1>4. CASE Go(w, "retriable", mem) /\ ~mem.entered
  BY <1>4 DEF Goes, Locked, Sequel
<1>5. CASE /\ Go(w, "failfast", mem) \/ Go(w, "enter", mem)
           /\ ~mem.entered
           /\ ~(retriable /\ mem.mode = "normal" /\ mem.attempt < JobAttempts)
  BY <1>2, <1>5 DEF Goes, Locked, Sequel
<1> QED BY <1>3, <1>4, <1>5 DEF Classify

LEMMA StepFailedGoes ==
  ASSUME NEW w \in Workers, NEW mem \in Locals, StepFailed(w, mem),
         mem.entered \/ mem.key[1] # "main" => inst'.status = "compensating",
         job'.made \in Nat, step'[mem.key].status = "failed"
  PROVE  Goes(w, mem)
<1>k. mem.key \in Keys
  BY DEF Locals
<1>1. CASE Advance(w, mem)
  BY <1>1, AdvanceGoes
<1>2. CASE mem.key[1] = "main" /\ mem.key[2] \notin Optional /\ Classify(w, mem, FALSE)
  <2>1. Barrier'
    BY <1>2, <1>k, PairKeys DEF Barrier
  <2> QED BY <1>2, <2>1, ClassifyGoes DEF Causes
<1>3. CASE mem.key[1] = "compensation"
           /\ Compensate(w, [mem EXCEPT !.todo = @ \ {mem.key[2]}, !.undoFailed = TRUE])
  <2>1. PICK m \in Locals : m = [mem EXCEPT !.todo = @ \ {mem.key[2]}, !.undoFailed = TRUE]
    BY DEF Locals
  <2>2. m.mode = mem.mode /\ m.attempt = mem.attempt /\ m.entered = mem.entered
    BY <2>1 DEF Locals
  <2> QED BY <1>3, <2>1, <2>2, CompensateGoes, SameGoes
<1>4. CASE mem.key[1] = "failure" /\ Go(w, "settle", mem)
  BY <1>4 DEF Goes, Locked
<1> QED BY <1>1, <1>2, <1>3, <1>4 DEF StepFailed

LEMMA YieldGoes ==
  ASSUME NEW w \in Workers, NEW mem \in Locals, Yield(w, mem),
         mem.entered \/ mem.key[1] # "main" => inst'.status = "compensating"
  PROVE  Goes(w, mem)
<1>1. PICK m \in Locals : m = [mem EXCEPT !.out = "yield"]
  BY DEF Locals
<1>2. /\ m.mode = mem.mode /\ m.attempt = mem.attempt /\ m.entered = mem.entered
      /\ m.key = mem.key
  BY <1>1 DEF Locals
<1>3. PICK p : p = IF mem.key[1] = "main" THEN "yielded" ELSE "release"
  OBVIOUS
<1> QED BY <1>1, <1>2, <1>3 DEF Yield, Goes, Locked, Sequel

LEMMA RegisterGoes ==
  ASSUME NEW w \in Workers, NEW mem \in Locals, Advance(w, Register(mem)),
         mem.entered \/ mem.key[1] # "main" => inst'.status = "compensating"
  PROVE  Goes(w, mem)
<1>1. PICK m \in Locals : m = Register(mem)
  BY RegisterFacts
<1>2. /\ m.mode = mem.mode /\ m.attempt = mem.attempt
      /\ m.entered = mem.entered /\ m.key = mem.key
  BY <1>1 DEF Register, Locals
<1> QED BY <1>1, <1>2, AdvanceGoes, SameGoes

(* The same place of the sequence, with the memory changed where it does   *)
(* not matter.                                                             *)
LEMMA PlaceGoes ==
  ASSUME NEW w \in Workers, NEW mem \in Locals, NEW m \in Locals,
         m.mode = mem.mode, m.attempt = mem.attempt, m.entered = mem.entered,
         m.key = mem.key,
         NEW p \in {"step", "claim", "body", "save", "wake", "awake", "cancelling"},
         Go(w, p, m), p \in {"wake", "awake"} => mem.key[1] = "main",
         mem.entered \/ mem.key[1] # "main" => inst'.status = "compensating"
  PROVE  Goes(w, mem)
  BY DEF Goes, Sequel, Locked

(* ctx.step and ctx.sleep, as far as nothing is written.                   *)
LEMMA ReplayGoes ==
  ASSUME TypeOK, NEW w \in Workers, Caused(pc[w], loc[w]),
         ReplaySettled(w) \/ Refused(w) \/ ExistingStep(w) \/ RunBody(w)
  PROVE  Goes(w, loc[w])
<1>0. PICK mem \in Locals : mem = loc[w]
  BY DEF TypeOK
<1> DEFINE k == mem.key
<1>q. UNCHANGED <<inst, step, job>> /\ pc[w] \in {"step", "body"} /\ job'.made \in Nat
  BY DEF ReplaySettled, Refused, ExistingStep, RunBody, Entering, store, TypeOK, Jobs
<1>c. mem.entered \/ k[1] # "main" => inst'.status = "compensating"
  BY <1>0, <1>q DEF Caused, Sequel, Driving, Locked
<1>1. CASE RunBody(w)
  <2>1. PICK result \in {"ok", "failed", "again"} :
          Go(w, "save", [mem EXCEPT !.result = result])
    BY <1>1, <1>0 DEF RunBody
  <2>2. PICK m \in Locals : m = [mem EXCEPT !.result = result]
    BY DEF Locals
  <2>3. /\ m.mode = mem.mode /\ m.attempt = mem.attempt
        /\ m.entered = mem.entered /\ m.key = mem.key
    BY <2>2 DEF Locals
  <2> QED BY <1>0, <1>c, <2>1, <2>2, <2>3, PlaceGoes
<1>2. CASE step[k].status = "completed" /\ Advance(w, Register(mem))
  BY <1>0, <1>c, <1>2, RegisterGoes
<1>3. CASE step[k].status = "failed" /\ StepFailed(w, mem)
  BY <1>0, <1>c, <1>q, <1>3, StepFailedGoes
<1>4. CASE ReplayOnly(w) /\ Go(w, "enter", mem)
  BY <1>0, <1>c, <1>4 DEF Goes, Sequel, Locked, ReplayOnly
<1>5. CASE Refused(w)
  BY <1>0, <1>c, <1>5, PlaceGoes DEF Refused
<1>6. CASE Yield(w, mem)
  BY <1>0, <1>c, <1>6, YieldGoes
<1>7. ASSUME NEW rec \in StepRecords, Go(w, "claim", [mem EXCEPT !.rec = rec])
      PROVE  Goes(w, mem)
  <2>1. PICK m \in Locals : m = [mem EXCEPT !.rec = rec]
    BY DEF Locals
  <2>2. /\ m.mode = mem.mode /\ m.attempt = mem.attempt
        /\ m.entered = mem.entered /\ m.key = mem.key
    BY <2>1 DEF Locals
  <2> QED BY <1>c, <1>7, <2>1, <2>2, PlaceGoes
<1>8. CASE IsSleep(k) /\ Go(w, "wake", mem)
  BY <1>0, <1>c, <1>8, PlaceGoes DEF IsSleep
<1>9. CASE ReplaySettled(w)
  BY <1>0, <1>9, <1>2, <1>3, <1>4 DEF ReplaySettled
<1>10. CASE ExistingStep(w)
  <2>1. PICK rec \in StepRecords : rec = step[k]
    BY DEF TypeOK, Locals
  <2>2. [rec EXCEPT !.attempts = @ + 1, !.wake = "none"] \in StepRecords
    BY NextAttemptType, Zenon
  <2>3. CASE Go(w, "claim", [mem EXCEPT !.rec = [step[k] EXCEPT !.attempts = @ + 1,
                                                                !.wake = "none"]])
    BY <1>0, <1>7, <2>1, <2>2, <2>3
  <2> QED BY <1>0, <1>10, <1>2, <1>3, <1>6, <1>8, <2>3 DEF ExistingStep
<1> QED BY <1>0, <1>1, <1>5, <1>9, <1>10

LEMMA ReadGoes ==
  ASSUME TypeOK, NEW w \in Workers, Caused(pc[w], loc[w]), ReadSleep(w)
  PROVE  Goes(w, loc[w])
<1>0. PICK mem \in Locals : mem = loc[w]
  BY DEF TypeOK
<1>1. /\ mem.key[1] = "main"
      /\ mem.entered => inst'.status = "compensating"
  BY <1>0 DEF ReadSleep, Caused, Driving, Locked, store
<1>2. CASE Advance(w, mem)
  BY <1>0, <1>1, <1>2, AdvanceGoes
<1>3. CASE Go(w, "awake", [mem EXCEPT !.rec = step[mem.key]])
  <2>1. PICK rec \in StepRecords : rec = step[mem.key]
    BY DEF TypeOK, Locals
  <2>2. PICK m \in Locals : m = [mem EXCEPT !.rec = rec]
    BY DEF Locals
  <2>3. /\ m.mode = mem.mode /\ m.attempt = mem.attempt
        /\ m.entered = mem.entered /\ m.key = mem.key
    BY <2>2 DEF Locals
  <2> QED BY <1>0, <1>1, <1>3, <2>1, <2>2, <2>3, PlaceGoes
<1> QED BY <1>0, <1>2, <1>3 DEF ReadSleep

LEMMA FreshGoes ==
  ASSUME TypeOK, NEW w \in Workers, Caused(pc[w], loc[w]), FreshStep(w) \/ FreshSleep(w)
  PROVE  Goes(w, loc[w])
<1>0. PICK mem \in Locals : mem = loc[w]
  BY DEF TypeOK
<1>q. pc[w] = "step" /\ inst'.status = inst.status
  BY DEF FreshStep, FreshSleep, Entering, AllocSeq, TypeOK, Instances
<1>c. mem.entered \/ mem.key[1] # "main" => inst'.status = "compensating"
  BY <1>0, <1>q DEF Caused, Sequel, Driving, Locked
<1>1. CASE FreshStep(w)
  <2>1. PICK rec \in StepRecords : Go(w, "body", [mem EXCEPT !.rec = rec])
    <3>1. NewStep(inst, "none") \in StepRecords
      BY DEF NewStep, StepRecords, TypeOK, Instances
    <3> QED BY <1>0, <1>1, <3>1 DEF FreshStep
  <2>2. PICK m \in Locals : m = [mem EXCEPT !.rec = rec]
    BY DEF Locals
  <2>3. /\ m.mode = mem.mode /\ m.attempt = mem.attempt
        /\ m.entered = mem.entered /\ m.key = mem.key
    BY <2>2 DEF Locals
  <2> QED BY <1>0, <1>c, <2>1, <2>2, <2>3, PlaceGoes
<1>2. CASE FreshSleep(w)
  BY <1>0, <1>c, <1>2, YieldGoes, PlaceGoes DEF FreshSleep, IsSleep
<1> QED BY <1>1, <1>2

LEMMA OverwriteGoes ==
  ASSUME TypeOK, Claims, NEW w \in Workers, Caused(pc[w], loc[w]),
         \/ WakeUp(w) \/ ClaimAttempt(w) \/ SaveResult(w) \/ SaveRetry(w) \/ SaveFailure(w)
  PROVE  Goes(w, loc[w])
<1>0. PICK l \in Locals : l = loc[w]
  BY DEF TypeOK
<1>m. PICK mem \in Locals : mem = [l EXCEPT !.result = "none"]
  BY DEF Locals
<1>s. /\ mem.mode = l.mode /\ mem.attempt = l.attempt /\ mem.entered = l.entered
      /\ mem.key = l.key /\ mem.rec = l.rec
  BY <1>m DEF Locals
<1>q. /\ pc[w] \in {"awake", "claim", "save"} /\ UNCHANGED <<inst, job>>
      /\ job'.made \in Nat
  BY DEF WakeUp, ClaimAttempt, SaveResult, SaveRetry, SaveFailure, TypeOK, Jobs
<1>1. CASE WakeUp(w)
  <2>1. l.entered => inst'.status = "compensating"
    BY <1>0, <1>1, <1>q DEF Caused, Driving, Locked, WakeUp
  <2>2. l.key[1] = "main"
    BY <1>0, <1>1 DEF Caused, WakeUp
  <2> QED BY <1>0, <1>1, <2>1, <2>2, AdvanceGoes DEF WakeUp
<1>2. CASE pc[w] # "awake"
  <2>c. l.entered \/ l.key[1] # "main" => inst'.status = "compensating"
    BY <1>0, <1>2, <1>q DEF Caused, Sequel, Driving, Locked
  <2>1. CASE ClaimAttempt(w)
    BY <1>0, <2>c, <2>1, PlaceGoes DEF ClaimAttempt
  <2>2. CASE SaveResult(w)
    BY <1>0, <1>m, <1>s, <2>c, <2>2, RegisterGoes, SameGoes DEF SaveResult
  <2>3. CASE SaveFailure(w)
    <3>1. step'[mem.key].status = "failed"
      <4>1. /\ mem.rec \in StepRecords /\ mem.key \in Keys /\ step \in [Keys -> StepRecords]
            /\ step' = [step EXCEPT ![mem.key] =
                          [mem.rec EXCEPT !.status = "failed", !.wake = "none"]]
        BY <1>0, <1>s, <2>3 DEF SaveFailure, Saved, Locals, TypeOK
      <4> QED BY <4>1 DEF StepRecords
    <3>2. Goes(w, mem)
      BY <1>0, <1>m, <1>q, <1>s, <2>c, <2>3, <3>1, StepFailedGoes DEF SaveFailure
    <3> QED BY <1>0, <1>s, <3>2, SameGoes
  <2>4. CASE SaveRetry(w)
    <3>1. CASE Yield(w, mem)
      <4>1. Goes(w, mem)
        BY <1>s, <2>c, <3>1, YieldGoes
      <4> QED BY <1>0, <1>s, <4>1, SameGoes
    <3>2. CASE Go(w, "claim", [mem EXCEPT !.rec.attempts = @ + 1])
      <4>1. [mem EXCEPT !.rec.attempts = @ + 1] = [mem EXCEPT !.rec = [mem.rec EXCEPT !.attempts = @ + 1]]
        BY DEF Locals
      <4>2. [mem.rec EXCEPT !.attempts = @ + 1] \in StepRecords
        BY DEF Locals, StepRecords
      <4>3. PICK rec \in StepRecords : rec = [mem.rec EXCEPT !.attempts = @ + 1]
        BY <4>2
      <4>4. PICK m \in Locals : m = [mem EXCEPT !.rec = rec]
        BY DEF Locals
      <4>5. /\ m.mode = mem.mode /\ m.attempt = mem.attempt
            /\ m.entered = mem.entered /\ m.key = mem.key
        BY <4>4 DEF Locals
      <4> QED BY <1>0, <1>s, <2>c, <3>2, <4>1, <4>3, <4>4, <4>5, PlaceGoes
    <3> QED BY <1>0, <1>m, <2>4, <3>1, <3>2 DEF SaveRetry
  <2>5. ~WakeUp(w)
    BY <1>2 DEF WakeUp
  <2> QED BY <2>1, <2>2, <2>3, <2>4, <2>5
<1>3. pc[w] = "awake" => WakeUp(w)
  BY DEF ClaimAttempt, SaveResult, SaveRetry, SaveFailure
<1> QED BY <1>1, <1>2, <1>3

LEMMA ThrownGoes ==
  ASSUME TypeOK, Within, NEW w \in Workers, Caused(pc[w], loc[w]), GlueError(w)
  PROVE  Goes(w, loc[w])
<1>0. PICK mem \in Locals : mem = loc[w]
  BY DEF TypeOK
<1>q. pc[w] \in {"step", "complete"} /\ UNCHANGED <<inst, job>> /\ job'.made \in Nat
  BY DEF GlueError, store, TypeOK, Jobs
<1>c. /\ mem.entered => inst'.status = "compensating"
      /\ mem.mode = "normal" => mem.attempt <= job'.made + 1
  BY <1>0, <1>q DEF Caused, Driving, Locked
<1>1. CASE Strike("transient") /\ Classify(w, mem, TRUE)
  BY <1>0, <1>c, <1>q, <1>1, ClassifyGoes
<1>2. CASE Strike("fatal") /\ Classify(w, mem, FALSE)
  <2>1. faults'["fatal"] < Budget["fatal"]
    BY <1>2, BudgetAssumption DEF Strike, Within, TypeOK, Faults
  <2> QED BY <1>0, <1>c, <1>q, <1>2, <2>1, ClassifyGoes DEF Causes
<1> QED BY <1>0, <1>1, <1>2 DEF GlueError

(* The status writes.                                                      *)
LEMMA StatusGoes ==
  ASSUME TypeOK, NEW w \in Workers, Caused(pc[w], loc[w]), inst.status \in Live,
         \/ MarkYielded(w) \/ EnterFailure(w) \/ MarkCompensating(w)
         \/ CompleteRun(w) \/ SettleTerminal(w) \/ FailFast(w) \/ CancelRun(w)
  PROVE  Goes(w, loc[w])
<1>0. PICK mem \in Locals : mem = loc[w]
  BY DEF TypeOK
<1>1. ASSUME NEW out \in {"yield", "retriable", "suspended", "completed", "failed", "cancelled"},
             Go(w, "release", [mem EXCEPT !.out = out])
      PROVE  Goes(w, mem)
  <2>1. PICK m \in Locals : m = [mem EXCEPT !.out = out]
    BY DEF Locals
  <2>2. m.mode = mem.mode /\ m.attempt = mem.attempt
    BY <2>1 DEF Locals
  <2> QED BY <1>1, <2>1, <2>2 DEF Goes, Locked
<1>2. CASE MarkYielded(w)
  BY <1>0, <1>1, <1>2 DEF MarkYielded
<1>3. CASE CompleteRun(w) \/ SettleTerminal(w) \/ FailFast(w) \/ CancelRun(w)
  BY <1>0, <1>1, <1>3 DEF CompleteRun, SettleTerminal, FailFast, CancelRun, TerminalAt
<1>4. ASSUME StartCompensation(w), inst'.status = "compensating"
      PROVE  Goes(w, mem)
  <2>1. PICK m \in Locals : m = [mem EXCEPT !.todo = mem.regs]
    BY DEF Locals
  <2>2. m.mode = mem.mode /\ m.attempt = mem.attempt
    BY <2>1 DEF Locals
  <2>3. Goes(w, m)
    BY <1>0, <1>4, <2>1, CompensateGoes DEF StartCompensation
  <2> QED BY <2>2, <2>3, SameGoes
<1>5. CASE MarkCompensating(w)
  <2>1. inst'.status = "compensating"
    BY <1>5 DEF MarkCompensating, UpdateStatus, Exists, Live, Terminal, TypeOK, Instances
  <2> QED BY <1>0, <1>4, <1>5, <2>1 DEF MarkCompensating
<1>6. CASE EnterFailure(w)
  <2>1. UNCHANGED <<inst, step, job, faults>>
    BY <1>6 DEF EnterFailure, store
  <2>2. CASE inst.status = "compensating" /\ StartCompensation(w)
    BY <1>0, <1>4, <2>1, <2>2
  <2>3. CASE inst.status # "compensating" /\ Go(w, "mark", mem)
    <3>1. ~mem.entered /\ (mem.entered \/ mem.mode = "settle" \/ Causes)
      BY <1>0, <1>6, <2>3 DEF Caused, EnterFailure, Driving, Locked
    <3>2. Causes <=> Causes'
      BY <2>1 DEF Causes, Barrier
    <3> QED BY <1>0, <2>3, <3>1, <3>2 DEF Goes, Sequel, Locked
  <2> QED BY <1>0, <1>6, <2>2, <2>3 DEF EnterFailure
<1> QED BY <1>0, <1>2, <1>3, <1>5, <1>6

LEMMA BeginGoes ==
  ASSUME TypeOK, NEW w \in Workers, Caused(pc[w], loc[w]), Begin(w)
  PROVE  Goes(w, loc[w])
<1>0. PICK mem \in Locals : mem = loc[w]
  BY DEF TypeOK
<1>q. pc[w] = "begin" /\ inst' = BeginTick(inst) /\ mem.key[1] = "main"
  BY <1>0 DEF Begin, Caused
<1>1. CASE inst'.status \in Terminal
  <2>1. PICK out \in {"completed", "failed", "cancelled"} :
          Go(w, "release", [mem EXCEPT !.out = out])
    BY <1>0, <1>1, <1>q DEF Begin, Terminal
  <2>2. PICK m \in Locals : m = [mem EXCEPT !.out = out]
    BY <2>1 DEF Locals
  <2>3. m.mode = mem.mode /\ m.attempt = mem.attempt
    BY <2>2 DEF Locals
  <2> QED BY <1>0, <2>1, <2>2, <2>3 DEF Goes, Locked
<1>2. CASE inst'.status \notin Terminal
  <2>1. PICK m \in Locals : m = [mem EXCEPT !.entered = (inst'.status = "compensating")]
    BY DEF Locals
  <2>2. /\ m.mode = mem.mode /\ m.attempt = mem.attempt /\ m.key = mem.key
        /\ m.entered => inst'.status = "compensating"
    BY <2>1 DEF Locals
  <2>3. Go(w, "step", m)
    BY <1>0, <1>2, <1>q, <2>1 DEF Begin
  <2> QED BY <1>0, <1>q, <2>2, <2>3 DEF Goes, Sequel, Locked
<1> QED BY <1>1, <1>2

(* Every step of a worker that drives the run, or begins to.               *)
LEMMA InsideGoes ==
  ASSUME TypeOK, Claims, Within, NEW w \in Workers, Caused(pc[w], loc[w]),
         pc[w] \in Driving => inst.status \in Live,
         \/ Begin(w) \/ ReplaySettled(w) \/ Refused(w) \/ FreshStep(w) \/ FreshSleep(w)
         \/ ExistingStep(w) \/ ReadSleep(w) \/ WakeUp(w) \/ ClaimAttempt(w) \/ RunBody(w)
         \/ SaveResult(w) \/ SaveRetry(w) \/ SaveFailure(w) \/ GlueError(w)
         \/ MarkYielded(w) \/ EnterFailure(w) \/ MarkCompensating(w)
         \/ CompleteRun(w) \/ SettleTerminal(w) \/ FailFast(w) \/ CancelRun(w)
  PROVE  Goes(w, loc[w]) /\ pc[w] \in Locked /\ Lone(w) /\ job' = job
<1>1. CASE Begin(w)
  <2>1. pc[w] \in Locked /\ Lone(w) /\ job' = job
    BY <1>1 DEF Begin, Go, Lone, Locked, TypeOK
  <2> QED BY <1>1, <2>1, BeginGoes
<1>2. CASE ~Begin(w)
  <2>1. Lone(w) /\ pc[w] \in Driving
    BY <1>2, WhileDriving
  <2>2. job' = job
    BY <1>2 DEF ReplaySettled, Refused, FreshStep, FreshSleep, ExistingStep, ReadSleep,
                WakeUp, ClaimAttempt, RunBody, SaveResult, SaveRetry, SaveFailure, GlueError,
                MarkYielded, EnterFailure, MarkCompensating, CompleteRun, SettleTerminal,
                FailFast, CancelRun, TerminalAt
  <2>3. Goes(w, loc[w])
    BY <1>2, <2>1, ReplayGoes, ReadGoes, FreshGoes, OverwriteGoes, ThrownGoes, StatusGoes
  <2> QED BY <2>1, <2>2, <2>3 DEF Driving
<1> QED BY <1>1, <1>2

(* A cause stays, and the attempts of the job are never taken back.        *)
LEMMA MadeGrows ==
  ASSUME TypeOK, [Next]_vars
  PROVE  job'.made \in Nat /\ job'.made >= job.made
<1>1. job \in Jobs(Keys \cup {Soon}) /\ job.made \in Nat
  BY DEF TypeOK, Jobs
<1>2. /\ Disowned(job).made = job.made /\ Requeued(job).made = job.made
      /\ StalledAgain(job).made = job.made /\ Gone(job).made = job.made
      /\ Completed(job).made = job.made
      /\ Failed(job).made = job.made + 1 /\ Rescheduled(job).made = job.made + 1
      /\ \A u : Delayed(job, u).made = job.made
      /\ \A w \in Workers : Owned(job, w).made = job.made
  BY <1>1 DEF Jobs, Disowned, Requeued, StalledAgain, Gone, Completed, Failed, Rescheduled,
              Delayed, Owned
<1>3. ASSUME NEW w \in Workers,
             Work(w) \/ Deliver(w) \/ StallDeath(w) \/ GlueError(w) \/ Crash(w)
      PROVE  job'.made \in {job.made, job.made + 1}
  <2>1. CASE Park(w)
    BY <1>2, <2>1 DEF Park
  <2>2. CASE Return(w)
    <3>1. job' \in {job, Completed(job), Failed(job), Rescheduled(job), Disowned(job)}
      BY <2>2 DEF Return
    <3> QED BY <1>2, <3>1
  <2>3. CASE Deliver(w) \/ StallDeath(w) \/ Crash(w)
    BY <1>2, <2>3 DEF Deliver, StallDeath, Crash
  <2>4. CASE (Work(w) /\ ~Park(w) /\ ~Return(w)) \/ GlueError(w)
    <3>1. job' = job
      BY <2>4 DEF Work, Acquire, Contended, Begin, Release, Orphan, ReplaySettled,
                  Refused, FreshStep, FreshSleep, ExistingStep, ReadSleep, WakeUp,
                ClaimAttempt, RunBody,
                  SaveResult, SaveRetry, SaveFailure, MarkYielded, EnterFailure, GlueError,
                  MarkCompensating, CompleteRun, SettleTerminal, FailFast, CancelRun, TerminalAt
    <3> QED BY <3>1
  <2> QED BY <1>3, <2>1, <2>2, <2>3, <2>4
<1>4. CASE \/ \E k \in Keys : WakeTimeReached(k)
           \/ LockExpires \/ JobLockLapses \/ StallRecover \/ DelayOver \/ Promote \/ RetryJob
           \/ ExternalCancel \/ RemoveCarrier \/ UNCHANGED vars
  <2>1. job' \in {job, Disowned(job), StalledAgain(job), Requeued(job), Gone(job)}
    BY <1>4 DEF WakeTimeReached, LockExpires, JobLockLapses, StallRecover, DelayOver, Promote,
                RetryJob, ExternalCancel, RemoveCarrier, vars
  <2> QED BY <1>1, <1>2, <2>1
<1> QED BY <1>1, <1>3, <1>4 DEF Next

LEMMA CausesStay ==
  ASSUME TypeOK, Claims, [Next]_vars, Causes
  PROVE  Causes'
<1>1. job.made \in Nat /\ faults["fatal"] \in Nat
  BY DEF TypeOK, Jobs, Faults
<1>2. faults'["fatal"] \in Nat /\ faults'["fatal"] <= faults["fatal"]
  BY FaultsShrink DEF Faults
<1>3. Budget["fatal"] \in Nat /\ JobAttempts \in Nat
  BY BudgetAssumption DEF Faults
<1> QED BY <1>1, <1>2, <1>3, BarrierStays, MadeGrows DEF Causes

LEMMA CausedThere ==
  (\A w \in Workers :
     \A p, m : pc[w] = p /\ loc[w] = m /\ Caused(p, m) => Caused(pc[w], loc[w]))'
<1>1. \A w \in Workers :
        \A p, m : pc[w] = p /\ loc[w] = m /\ Caused(p, m) => Caused(pc[w], loc[w])
  OBVIOUS
<1> QED BY <1>1, PTL

(* Outside of the part it drives, a memory says little.                    *)
LEMMA CausedOutside ==
  ASSUME TypeOK, Claims, [Next]_vars, NEW m \in Locals, NEW p \in Places \ Driving, Caused(p, m)
  PROVE  Caused(p, m)'
<1>1. job.made \in Nat /\ m.attempt \in Nat
  BY DEF TypeOK, Jobs, Locals
<1>2. job'.made \in Nat /\ job'.made >= job.made
  BY MadeGrows
<1> QED BY <1>1, <1>2 DEF Caused, Driving, Locked

(* So is that of a worker that drives the run, unless the status changes.  *)
LEMMA CausedInside ==
  ASSUME TypeOK, Claims, [Next]_vars, NEW m \in Locals, NEW p \in Places, Caused(p, m),
         inst'.status = inst.status
  PROVE  Caused(p, m)'
<1>1. job.made \in Nat /\ m.attempt \in Nat
  BY DEF TypeOK, Jobs, Locals
<1>2. job'.made \in Nat /\ job'.made >= job.made
  BY MadeGrows
<1> QED BY <1>1, <1>2, CausesStay DEF Caused, Sequel

(* A step in the lock: the others are outside of it.                       *)
LEMMA InsideReasoned ==
  ASSUME Budget["cancel"] = 0, TypeOK, SoleTick, Claims, Reasoned, [Next]_vars,
         NEW w \in Workers, Goes(w, loc[w]), pc[w] \in Locked, Lone(w), job' = job
  PROVE  JobHeld' /\ JobDead' /\ CausedTicks'
<1>1. PICK p \in Locked \ {"begin"}, m \in Locals :
        /\ Go(w, p, m)
        /\ m.mode = loc[w].mode /\ m.attempt = loc[w].attempt
        /\ p \in {"wake", "awake"} => m.key[1] = "main"
        /\ p \in {"enter", "mark", "failfast"} => m.entered \/ m.mode = "settle" \/ Causes'
        /\ p # "release" /\ (m.entered \/ Sequel(p, m)) => inst'.status = "compensating"
  BY DEF Goes
<1>2. pc'[w] = p /\ loc'[w] = m
  BY <1>1 DEF Go, TypeOK
<1>3. \A v \in Workers : pc'[v] # "idle" => pc[v] # "idle" /\ loc'[v].mode = loc[v].mode
  BY <1>1, <1>2 DEF Lone, Locked
<1>4. JobHeld' /\ JobDead'
  BY <1>3, JobsFollow DEF Reasoned
<1>5. ASSUME NEW v \in Workers
      PROVE  Caused(pc[v], loc[v])'
  <2>1. CASE v = w
    <3>1. m.mode = "normal" => m.attempt <= job'.made + 1
      BY <1>1 DEF Reasoned, CausedTicks, Caused, Locked
    <3>2. Caused(p, m)'
      BY <1>1, <3>1 DEF Caused, Sequel, Driving, Locked
    <3> QED BY <1>2, <2>1, <3>2, CausedThere
  <2>2. CASE v # w
    <3>1. PICK q \in Places, n \in Locals : q = pc[v] /\ n = loc[v]
      BY DEF TypeOK
    <3>2. q \notin Driving /\ Caused(q, n)
      BY <2>2, <3>1 DEF SoleTick, Driving, Reasoned, CausedTicks
    <3>3. Caused(q, n)'
      BY <3>1, <3>2, CausedOutside
    <3>4. pc'[v] = q /\ loc'[v] = n
      BY <2>2, <3>1 DEF Lone
    <3> QED BY <3>3, <3>4, CausedThere
  <2> QED BY <2>1, <2>2
<1> QED BY <1>4, <1>5 DEF CausedTicks

(* A step around the lock, of a worker that was not driving.               *)
LEMMA OutsideReasoned ==
  ASSUME Budget["cancel"] = 0, TypeOK, SoleTick, Claims, Reasoned, [Next]_vars,
         NEW w \in Workers, Lone(w), inst' = inst, pc'[w] \in Places \ Driving,
         pc'[w] \in {"orphan", "acquire", "begin"} => loc'[w].key[1] = "main",
         pc'[w] # "idle" =>
           \/ /\ pc[w] # "idle" /\ loc'[w].mode = loc[w].mode
              /\ loc'[w].attempt = loc[w].attempt
           \/ Deliver(w) \/ StallDeath(w)
  PROVE  JobHeld' /\ JobDead' /\ CausedTicks'
<1>t. TypeOK'
  BY NextType
<1>1. \A v \in Workers \ {w} : pc'[v] = pc[v] /\ loc'[v] = loc[v]
  BY DEF Lone
<1>2. JobHeld' /\ JobDead'
  BY <1>1, JobsFollow DEF Reasoned
<1>3. ASSUME NEW v \in Workers \ {w}
      PROVE  Caused(pc[v], loc[v])'
  <2>1. PICK q \in Places, n \in Locals : q = pc[v] /\ n = loc[v]
    BY DEF TypeOK
  <2>2. Caused(q, n)
    BY <2>1 DEF Reasoned, CausedTicks
  <2>3. Caused(q, n)'
    BY <2>2, CausedInside
  <2> QED BY <1>1, <2>1, <2>3, CausedThere
<1>4. Caused(pc[w], loc[w])'
  <2>1. PICK q \in Places, n \in Locals : q = pc'[w] /\ n = loc'[w]
    BY <1>t DEF TypeOK
  <2>2. job.made \in Nat /\ job'.made \in Nat /\ job'.made >= job.made /\ n.attempt \in Nat
    BY MadeGrows DEF TypeOK, Jobs, Locals
  <2>3. ASSUME q # "idle", n.mode = "normal"
        PROVE  n.attempt <= job'.made + 1
    <3>1. CASE Deliver(w)
      BY <2>1, <2>2, <2>3, <3>1 DEF Deliver, Go, Tick, TypeOK
    <3>2. CASE StallDeath(w)
      BY <2>1, <2>2, <2>3, <3>2 DEF StallDeath, Go, Tick, TypeOK
    <3>3. CASE pc[w] # "idle" /\ loc'[w].mode = loc[w].mode /\ loc'[w].attempt = loc[w].attempt
      <4>1. n.attempt <= job.made + 1
        BY <2>1, <2>3, <3>3 DEF Reasoned, CausedTicks, Caused
      <4> QED BY <2>2, <4>1
    <3> QED BY <2>1, <2>3, <3>1, <3>2, <3>3
  <2>4. Caused(q, n)'
    BY <2>1, <2>3 DEF Caused, Driving, Locked
  <2> QED BY <2>1, <2>4, CausedThere
<1> QED BY <1>2, <1>3, <1>4 DEF CausedTicks

LEMMA AroundReasoned ==
  ASSUME Budget["cancel"] = 0, TypeOK, SoleTick, Claims, Reasoned, [Next]_vars,
         \/ \E k \in Keys : WakeTimeReached(k)
         \/ LockExpires \/ JobLockLapses \/ StallRecover \/ DelayOver \/ Promote \/ RetryJob
         \/ UNCHANGED vars
  PROVE  JobHeld' /\ JobDead' /\ CausedTicks'
<1>1. UNCHANGED <<inst, pc, loc>>
  BY DEF WakeTimeReached, LockExpires, JobLockLapses, StallRecover, DelayOver, Promote,
         RetryJob, vars, store
<1>2. JobHeld' /\ JobDead'
  BY <1>1, JobsFollow DEF Reasoned
<1>3. ASSUME NEW v \in Workers
      PROVE  Caused(pc[v], loc[v])'
  <2>1. PICK q \in Places, n \in Locals : q = pc[v] /\ n = loc[v]
    BY DEF TypeOK
  <2>2. Caused(q, n)
    BY <2>1 DEF Reasoned, CausedTicks
  <2>3. Caused(q, n)'
    BY <1>1, <2>2, CausedInside
  <2> QED BY <1>1, <2>1, <2>3, CausedThere
<1> QED BY <1>2, <1>3 DEF CausedTicks

LEMMA ReasonedStep ==
  ASSUME Budget["cancel"] = 0, TypeOK, SoleTick, Claims, Reasoned, [Next]_vars
  PROVE  Reasoned'
<1>w. Within' /\ ~ExternalCancel /\ ~RemoveCarrier
  BY WithinStays DEF Reasoned
<1>d. DrivenLive' /\ CancelsLeft
  BY DrivenInductive DEF Reasoned, Within, CancelsLeft, Faults
<1>l. ASSUME NEW w \in Workers, pc[w] \in Driving
      PROVE  inst.status \in Live
  <2>1. faults["cancel"] = Budget["cancel"]
    BY DEF Reasoned, Within, TypeOK, Faults
  <2> QED BY <1>l, <2>1 DEF Reasoned, DrivenLive
<1> SUFFICES JobHeld' /\ JobDead' /\ CausedTicks'
  BY <1>w, <1>d DEF Reasoned
<1>1. ASSUME NEW w \in Workers,
             \/ Begin(w) \/ ReplaySettled(w) \/ Refused(w) \/ FreshStep(w) \/ FreshSleep(w)
             \/ ExistingStep(w) \/ ReadSleep(w) \/ WakeUp(w) \/ ClaimAttempt(w) \/ RunBody(w)
             \/ SaveResult(w) \/ SaveRetry(w) \/ SaveFailure(w) \/ GlueError(w)
             \/ MarkYielded(w) \/ EnterFailure(w) \/ MarkCompensating(w)
             \/ CompleteRun(w) \/ SettleTerminal(w) \/ FailFast(w) \/ CancelRun(w)
      PROVE  JobHeld' /\ JobDead' /\ CausedTicks'
  <2>1. Goes(w, loc[w]) /\ pc[w] \in Locked /\ Lone(w) /\ job' = job
    BY <1>1, <1>l, InsideGoes DEF Reasoned, CausedTicks
  <2> QED BY <2>1, InsideReasoned
<1>2. ASSUME NEW w \in Workers,
             \/ Acquire(w) \/ Contended(w) \/ Release(w) \/ Park(w) \/ Return(w) \/ Orphan(w)
             \/ Deliver(w) \/ StallDeath(w) \/ Crash(w)
      PROVE  JobHeld' /\ JobDead' /\ CausedTicks'
  <2>1. Lone(w) /\ inst' = inst
    BY <1>2, NotDriving
  <2>s. Caused(pc[w], loc[w]) /\ loc[w] \in Locals
    BY DEF Reasoned, CausedTicks, TypeOK
  <2>2. /\ pc'[w] \in Places \ Driving
        /\ pc'[w] \in {"orphan", "acquire", "begin"} => loc'[w].key[1] = "main"
        /\ pc'[w] # "idle" =>
             \/ /\ pc[w] # "idle" /\ loc'[w].mode = loc[w].mode
                /\ loc'[w].attempt = loc[w].attempt
             \/ Deliver(w) \/ StallDeath(w)
    <3>1. CASE Acquire(w) \/ Orphan(w)
      <4>1. /\ pc'[w] \in {"begin", "acquire", "idle"} /\ pc[w] \in {"acquire", "orphan"}
            /\ pc'[w] # "idle" => loc'[w] = loc[w]
        BY <3>1 DEF Acquire, Orphan, Go, TypeOK
      <4> QED BY <2>s, <4>1 DEF Places, Locked, Driving, Caused
    <3>2. CASE Contended(w) \/ Release(w)
      <4>1. /\ pc'[w] \in {"park", "return"} /\ pc[w] \in {"acquire", "release"}
            /\ loc'[w] \in {loc[w], [loc[w] EXCEPT !.out = "contended"]}
        BY <3>2 DEF Contended, Release, Go, TypeOK
      <4>2. loc'[w].mode = loc[w].mode /\ loc'[w].attempt = loc[w].attempt
        BY <2>s, <4>1 DEF Locals
      <4> QED BY <4>1, <4>2 DEF Places, Locked, Driving
    <3>3. CASE Park(w) \/ Return(w) \/ Crash(w)
      <4>1. pc'[w] = "idle"
        BY <3>3 DEF Park, Return, Crash, Go, TypeOK
      <4> QED BY <4>1 DEF Places, Locked, Driving
    <3>4. CASE Deliver(w)
      <4>1. pc'[w] = "acquire" /\ loc'[w] = Tick("normal", job.made + 1)
        BY <3>4 DEF Deliver, Go, TypeOK
      <4> QED BY <3>4, <4>1 DEF Places, Locked, Driving, Tick, Main
    <3>5. CASE StallDeath(w)
      <4>1. pc'[w] = "orphan" /\ loc'[w] = Tick("settle", job.made + 2)
        BY <3>5 DEF StallDeath, Go, TypeOK
      <4> QED BY <3>5, <4>1 DEF Places, Locked, Driving, Tick, Main
    <3> QED BY <1>2, <3>1, <3>2, <3>3, <3>4, <3>5
  <2> QED BY <2>1, <2>2, OutsideReasoned
<1> QED BY <1>1, <1>2, <1>w, AroundReasoned DEF Next, Work

LEMMA ReasonedInit == Init => Reasoned
  BY BudgetAssumption DEF Init, Reasoned, Within, DrivenLive, JobHeld, JobDead, CausedTicks,
     Caused, Driving, Locked

(* The statuses of a run that gave up are written at two places.           *)
LEMMA GiveUpStep ==
  ASSUME Budget["cancel"] = 0, TypeOK, Reasoned, [Next]_vars,
         inst.status \in {"running", "yielded"},
         inst'.status \in {"compensating", "failed", "compensation_failed"}
  PROVE  \E w \in Workers : pc[w] \in {"mark", "failfast"}
<1>1. ASSUME NEW w \in Workers, SettleTerminal(w)
      PROVE  FALSE
  BY <1>1 DEF SettleTerminal, TerminalAt, Reasoned, CausedTicks, Caused, Sequel, Driving, Locked
<1>2. ASSUME NEW w \in Workers,
             \/ MarkYielded(w) \/ CompleteRun(w) \/ CancelRun(w) \/ Begin(w)
             \/ FreshStep(w) \/ FreshSleep(w)
      PROVE  FALSE
  BY <1>2 DEF MarkYielded, CompleteRun, CancelRun, TerminalAt, Begin, FreshStep, FreshSleep,
              UpdateStatus, Finish, BeginTick, AllocSeq, TypeOK, Instances, Exists, Terminal,
              Live
<1>3. ASSUME NEW w \in Workers, MarkCompensating(w) \/ FailFast(w)
      PROVE  pc[w] \in {"mark", "failfast"}
  BY <1>3 DEF MarkCompensating, FailFast, TerminalAt
<1>4. ASSUME NEW w \in Workers,
             \/ Acquire(w) \/ Contended(w) \/ Release(w) \/ Park(w) \/ Return(w)
             \/ Orphan(w) \/ ReplaySettled(w) \/ Refused(w) \/ ExistingStep(w) \/ ReadSleep(w)
             \/ WakeUp(w) \/ ClaimAttempt(w) \/ RunBody(w) \/ SaveResult(w) \/ SaveRetry(w) \/ SaveFailure(w)
             \/ EnterFailure(w) \/ Deliver(w) \/ StallDeath(w) \/ GlueError(w) \/ Crash(w)
      PROVE  inst' = inst
  BY <1>4 DEF Acquire, Contended, Release, Park, Return, Orphan, ReplaySettled, Refused,
              ExistingStep, ReadSleep, WakeUp, ClaimAttempt, RunBody, SaveResult, SaveRetry,
              SaveFailure,
              EnterFailure, Deliver, StallDeath, GlueError, Crash, store
<1>5. ~ExternalCancel
  BY WithinStays DEF Reasoned
<1>6. ~(inst' = inst)
  OBVIOUS
<1> QED BY <1>1, <1>2, <1>3, <1>4, <1>5, <1>6, SurroundingsStay DEF Next, Work

(* A run gives up only for a step that used up its own retries, on its     *)
(* job's last attempt, with its job dead, or on an error that forbids a    *)
(* retry.                                                                  *)
THEOREM NeverWithoutCause ==
  ASSUME Budget["lockLapse"] = 0, Budget["cancel"] = 0, Budget["retry"] = 0
  PROVE  Spec => GivesUpForCause
<1>1. TypeOK /\ SoleTick /\ Claims /\ Reasoned /\ [Next]_vars => Reasoned'
  BY ReasonedStep
<1>2. ASSUME TypeOK, Reasoned, [Next]_vars,
             inst.status \in {"running", "yielded"},
             inst'.status \in {"compensating", "failed", "compensation_failed"}
      PROVE  \/ \E i \in (1..N) \ Optional : step[Main(i)].status = "failed"
             \/ job.made + 1 >= JobAttempts
             \/ job.state = "failed"
             \/ faults["fatal"] < Budget["fatal"]
  <2>1. PICK w \in Workers : pc[w] \in {"mark", "failfast"}
    BY <1>2, GiveUpStep
  <2>2. ~loc[w].entered
    BY <1>2, <2>1 DEF Reasoned, CausedTicks, Caused, Driving, Locked
  <2>3. loc[w].mode = "settle" \/ Causes
    BY <1>2, <2>1, <2>2 DEF Reasoned, CausedTicks, Caused
  <2>4. loc[w].mode = "settle" => job.state = "failed"
    BY <1>2, <2>1 DEF Reasoned, JobDead
  <2> QED BY <2>3, <2>4 DEF Causes, Barrier
<1>3. TypeOK /\ Reasoned /\ [Next]_vars =>
        [inst.status \in {"running", "yielded"}
           /\ inst'.status \in {"compensating", "failed", "compensation_failed"} =>
           \/ \E i \in (1..N) \ Optional : step[Main(i)].status = "failed"
           \/ job.made + 1 >= JobAttempts
           \/ job.state = "failed"
           \/ faults["fatal"] < Budget["fatal"]]_vars
  BY <1>2
<1> QED BY <1>1, <1>3, ReasonedInit, TypeCorrect, LockProtects, PTL DEF Spec, GivesUpForCause
=============================================================================
