--------------------------- MODULE RunViewsProofs ---------------------------
(***************************************************************************)
(* What dashboards are told of a run, for every processor, number of       *)
(* workers and budget: what it is really doing, and nothing worse.         *)
(*                                                                         *)
(* What makes the views right is that records are made in order: a run     *)
(* that has not given up has at most one unsettled record, and it is the   *)
(* last.  What makes the health check right is that BullMQ is told of an   *)
(* end only when the run's state says so, whenever its two reads fall.     *)
(***************************************************************************)
EXTENDS HealthCheck, LifecycleProofs

(* A run is called stale only when no worker is in the middle of a tick of *)
(* it, because every tick holds the lock that the view looks at.           *)
THEOREM StaleRunsIdle ==
  ASSUME Budget["lockLapse"] = 0
  PROVE  Spec => []StaleIsIdle
<1>1. SoleTick => StaleIsIdle
  <2> SUFFICES ASSUME SoleTick, Stuck = {"running_stale"}, NEW w \in Workers, pc[w] \in Locked
               PROVE  FALSE
    BY DEF StaleIsIdle
  <2>1. lock = w
    BY DEF SoleTick
  <2>2. lock # Free
    BY <2>1, TokenAssumption
  <2>3. Stuck = ClassifyLocalStuck \ {"running_stale"}
    BY <2>2 DEF Stuck
  <2> QED BY <2>3
<1> QED BY <1>1, LockProtects, PTL

(* The health check's reads leave the run alone.                           *)
LEMMA ChecksOnly == CheckSpec => Spec
<1>1. CheckInit => Init
  BY DEF CheckInit
<1>2. [CheckNext]_checkVars => [Next]_vars
  BY DEF CheckNext, checkVars, ReadSummary, ReadCarrier
<1> QED BY <1>1, <1>2, PTL DEF CheckSpec, Spec

(* Whatever happens between the two reads, a run is reported an orphan     *)
(* only when its job is gone, or failed of a stall without a settlement,   *)
(* or when the run came to its end after the first read.                   *)
THEOREM OrphansForCause ==
  ASSUME Budget["lockLapse"] = 0, Budget["cancel"] = 0
  PROVE  CheckSpec => OrphanForCause
<1> DEFINE Cause == \/ job.state = "gone"
                    \/ job.state = "failed" /\ job.stalls >= MaxStalled
                    \/ inst.status \in Terminal
<1>1. TypeOK /\ JobFollowsRun /\ [CheckNext]_checkVars => [ReportsOrphan => Cause]_checkVars
  <2> SUFFICES ASSUME TypeOK, JobFollowsRun, ReportsOrphan
               PROVE  Cause
    OBVIOUS
  <2>1. job.state \in {"completed", "failed", "gone"} /\ job.stalls \in Nat
    BY DEF ReportsOrphan, HealthyStates, TypeOK, Jobs, JobStates
  <2> QED BY <2>1, BudgetAssumption DEF JobFollowsRun, Terminal
<1>2. CheckSpec => [](TypeOK /\ JobFollowsRun)
  BY ChecksOnly, TypeCorrect, JobAfterRun, PTL
<1> QED BY <1>1, <1>2, PTL DEF CheckSpec, OrphanForCause

(* In a run that has not given up, the record of a step that is neither    *)
(* completed nor failed is the only such record, and the last one made.    *)
LEMMA OneUnsettled ==
  ASSUME TypeOK, Promised, ~GaveUp, NEW k \in Keys, step[k].status = "running"
  PROVE  /\ k[1] = "main"
         /\ \A j \in Recorded : j # k => Settled(j) /\ step[j].seq < step[k].seq
<1>1. \A j \in Recorded : j[1] = "main" /\ j = Main(j[2]) /\ j[2] \in 1..N
  BY PairKeys DEF Recorded, Promised, Undoes
<1>2. k \in Recorded
  BY DEF Recorded
<1>3. ASSUME NEW j \in Recorded, j # k
      PROVE  Settled(j) /\ step[j].seq < step[k].seq
  <2> DEFINE a == j[2]
             b == k[2]
  <2>1. /\ j = Main(a) /\ k = Main(b) /\ a \in 1..N /\ b \in 1..N /\ a # b
        /\ step[Main(a)].status # "none" /\ step[Main(b)].status = "running"
    BY <1>1, <1>2, <1>3 DEF Recorded
  <2>2. Passed(a) /\ Passed(b)
    BY <2>1 DEF Promised, InOrder
  <2>3. ~(b < a)
    BY <2>1, <2>2 DEF Passed
  <2>4. a < b
    BY <2>1, <2>3, ProcessorAssumption
  <2>5. step[Main(a)].status \in {"completed", "failed"}
    BY <2>1, <2>2, <2>4 DEF Passed
  <2>6. step[Main(a)].seq < step[Main(b)].seq
    BY <2>1, <2>4 DEF Promised, InOrder
  <2> QED BY <2>1, <2>5, <2>6 DEF Settled
<1> QED BY <1>1, <1>2, <1>3

(* While the job is delayed for a step, the run is shown parked on that    *)
(* very step, with its time, and never as due already.                     *)
THEOREM ShownParked ==
  ASSUME Undisturbed
  PROVE  Spec => []ShowsWhatItWaitsFor
<1>0. Budget["lockLapse"] = 0
  BY DEF Undisturbed
<1>1. TypeOK /\ Claims /\ Promised => ShowsWhatItWaitsFor
  <2> SUFFICES ASSUME TypeOK, Claims, Promised, inst.status = "yielded",
                      job.until # Soon, step[job.until].wake = "pending"
               PROVE  /\ DeriveView.status = IF IsSleep(job.until) THEN "sleeping" ELSE "retrying"
                      /\ DeriveView.current = {job.until}
                      /\ Stuck = {}
    BY DEF ShowsWhatItWaitsFor
  <2>k. PICK k \in Keys : k = job.until
    BY DEF TypeOK, Jobs
  <2>1. step[k].wake = "pending" /\ step[k].status = "running" /\ step[k].seq \in Nat
    <3>1. step[k].status \in {"none", "running", "completed", "failed"} /\ step[k].seq \in Nat
      BY DEF TypeOK, StepRecords
    <3>2. step[k].status # "none" /\ step[k].status \notin {"completed", "failed"}
      BY <2>k DEF Promised, InOrder, Claims
    <3> QED BY <2>k, <3>1, <3>2
  <2>2. /\ k[1] = "main" /\ k \in Recorded
        /\ \A j \in Recorded : j # k => Settled(j) /\ step[j].seq < step[k].seq
    BY <2>1, OneUnsettled DEF GaveUp, Recorded
  <2>3. \A j \in Recorded : step[j].seq <= step[k].seq /\ (step[k].seq <= step[j].seq => j = k)
    <3>1. \A j \in Recorded : step[j].seq \in Nat
      BY DEF Recorded, TypeOK, StepRecords
    <3> QED BY <2>1, <2>2, <3>1
  <2>4. ASSUME NEW S, S \subseteq Recorded, k \in S
        PROVE  Latest(S) = {k}
    BY <2>3, <2>4 DEF Latest
  <2>5. Running = {k}
    BY <2>1, <2>2 DEF Running, Settled
  <2>6. DeriveView = View(IF IsSleep(k) THEN "sleeping" ELSE "retrying", {k})
    <3>1. CASE IsSleep(k)
      <4>1. InFlightRetries = {}
        BY <2>5, <3>1 DEF InFlightRetries
      <4>2. Asleep \subseteq Recorded /\ k \in Asleep
        BY <2>1, <2>2, <3>1 DEF Asleep
      <4>3. DeriveParked = View("sleeping", {k})
        BY <4>1, <4>2, <2>4 DEF DeriveParked
      <4> QED BY <3>1, <4>3 DEF DeriveView
    <3>2. CASE ~IsSleep(k)
      <4>1. InFlightRetries \subseteq Recorded /\ k \in InFlightRetries
        BY <2>1, <2>2, <2>5, <3>2 DEF InFlightRetries
      <4>2. DeriveParked = View("retrying", {k})
        BY <4>1, <2>4 DEF DeriveParked
      <4> QED BY <3>2, <4>2 DEF DeriveView
    <3> QED BY <3>1, <3>2
  <2>7. /\ DeriveView.status = IF IsSleep(k) THEN "sleeping" ELSE "retrying"
        /\ DeriveView.current = {k}
    BY <2>6 DEF View
  <2>8. ClassifyLocalStuck = {}
    BY <2>1, <2>7 DEF ClassifyLocalStuck
  <2>9. Stuck = {}
    BY <2>8 DEF Stuck
  <2> QED BY <2>k, <2>7, <2>9
<1> QED BY <1>0, <1>1, LockProtects, PromiseHolds, PTL

=============================================================================
