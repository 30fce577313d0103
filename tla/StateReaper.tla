---------------------------- MODULE StateReaper ----------------------------
(***************************************************************************)
(* The runs of one queue, the index of their statuses, and the passes that *)
(* delete the state of runs whose BullMQ job is gone (reaper.ts, with the  *)
(* index reads of redis-store.ts and the bulk calls of queue.ts).          *)
(*                                                                         *)
(* A pass takes one step per store or BullMQ call, so what it has read may *)
(* be old by the time it acts on it.  Ticks are cut down to what they do   *)
(* to the instance hash and its index; DurableRuntime has the rest.        *)
(*                                                                         *)
(* A job id is used again (add) only once nothing is stored for it.  Used  *)
(* sooner, the new job's first tick finds the old run's state.             *)
(***************************************************************************)
EXTENDS InstanceStore, Sequences, FiniteSets

CONSTANTS
  Ids,          \* job ids
  Passes,       \* reapers that may be in a pass at the same time
  Batch,        \* terminalBatchSize
  MaxRounds,    \* batches of one bucket per pass
  Lives,        \* how often one id may be added
  Outcomes,     \* how a tick may end a run
  Retried,      \* ids on which run.retry() is used, once
  BulkCalls,    \* whether clean() and drain() are used
  Window,       \* how many runs of a done bucket a listing shows
  Unreadable,   \* whether the read of a hash may fail on its own
  Aborts        \* passes that may die half-way

ASSUME ReaperAssumption ==
  /\ Batch \in Nat \ {0} /\ MaxRounds \in Nat \ {0}
  /\ Lives \in Nat /\ Aborts \in Nat /\ Window \in Nat
  /\ Outcomes \subseteq Terminal \ {"cancelled"}
  /\ Retried \subseteq Ids /\ BulkCalls \in BOOLEAN /\ Unreadable \in BOOLEAN

VARIABLES
  inst,    \* instance hash and index membership, by id
  before,  \* the order of each done bucket's scores: <<i, j>> if i comes first
  quiet,   \* ids whose updatedAt lies the grace window back
  job,     \* what BullMQ has of each id
  life,    \* how often the id was added
  born,    \* the life in which the id's hash was last created
  pass,    \* what each pass is at
  retry,   \* where run.retry() is with the id
  aborts   \* aborts left

runs == <<inst, before, quiet, born>>
vars == <<runs, job, life, pass, retry, aborts>>

Buckets == <<"completed", "failed", "cancelled", "compensation_failed">>

(* `bucket` is the done bucket the walk is at, 0 before the walk; `ids`    *)
(* what the last read returned and is not dealt with, `next` the orphan    *)
(* about to be cancelled, `more` whether the bucket has another round.     *)
(* A listing of runs is a short pass of its own: "load", then "heal".      *)
PassStates ==
  [at: {"idle", "active", "look", "orphans", "cancel", "walk", "check", "remove",
        "load", "heal"},
   bucket: 0..4, round: 0..MaxRounds, ids: SUBSET Ids, next: SUBSET Ids, more: BOOLEAN]

NoPass ==
  [at |-> "idle", bucket |-> 0, round |-> 0, ids |-> {}, next |-> {}, more |-> FALSE]

TypeOK ==
  /\ inst \in [Ids -> Instances]
  /\ before \in [Terminal -> SUBSET (Ids \X Ids)]
  /\ quiet \in SUBSET Ids
  /\ job \in [Ids -> {"none", "waiting", "running", "leaving", "kept"}]
  /\ life \in [Ids -> Nat] /\ born \in [Ids -> Nat]
  /\ pass \in [Passes -> PassStates]
  /\ retry \in [Ids -> {"none", "marking", "reviving", "done"}]
  /\ aborts \in Nat

Init ==
  /\ inst = [id \in Ids |-> NoInstance]
  /\ before = [s \in Terminal |-> {}]
  /\ quiet = {}
  /\ job = [id \in Ids |-> "none"]
  /\ life = [id \in Ids |-> 0] /\ born = [id \in Ids |-> 0]
  /\ pass = [p \in Passes |-> NoPass]
  /\ retry = [id \in Ids |-> "none"]
  /\ aborts = Aborts

---------------------------------------------------------------------------
(* The status index.                                                       *)

Members(s) == {id \in Ids : s \in inst[id].done}

Ahead(id, s) == {i \in Ids : <<i, id>> \in before[s]}

(* listOldestTerminal.                                                     *)
Oldest(s) == {id \in Members(s) : Cardinality(Ahead(id, s)) < Batch}

(* Faulty: a job that no worker has is taken for one that is gone.         *)
MissingWorker(S) == {id \in S : job[id] \in {"none", "waiting"}}

(* bullJobKeysExist, negated.                                              *)
Missing(S) == {id \in S : job[id] = "none"}

(* Faulty: ids leave the active set only.                                  *)
StillRanked(S, s) == before[s]

(* A done bucket without some ids.                                         *)
Unranked(S, s) == {e \in before[s] : e[1] \notin S /\ e[2] \notin S}

(* The hash is written, its updatedAt with it; the id leaves the buckets   *)
(* the record is not in.                                                   *)
Write(id, record) ==
  /\ inst' = [inst EXCEPT ![id] = record]
  /\ before' = [s \in Terminal |-> IF s \in record.done THEN before[s] ELSE Unranked({id}, s)]
  /\ quiet' = quiet \ {id}

(* A terminal transition, if there is a hash, scores the id last in the    *)
(* bucket it joins.                                                        *)
Terminate(id, s) ==
  IF Exists(inst[id])
  THEN /\ inst' = [inst EXCEPT ![id] = Finish(@, s)]
       /\ before' = [before EXCEPT
                       ![s] = Unranked({id}, s) \cup ((Members(s) \ {id}) \X {id})]
       /\ quiet' = quiet \ {id}
  ELSE UNCHANGED <<inst, before, quiet>>

(* Faulty: the hash goes, its index entries stay.                          *)
ForgottenHash(id) == [inst[id] EXCEPT !.status = "absent", !.stepSeq = 0]

(* What removeInstances leaves of an id.                                   *)
Forgotten(id) == NoInstance

RemoveInstances(S) ==
  /\ inst' = [id \in Ids |-> IF id \in S THEN Forgotten(id) ELSE inst[id]]
  /\ before' = [s \in Terminal |-> Unranked(S, s)]
  /\ UNCHANGED <<quiet, born>>

---------------------------------------------------------------------------
(* Ticks and the application.                                              *)

Add(id) ==
  /\ job[id] = "none" /\ ~Exists(inst[id]) /\ life[id] < Lives
  /\ job' = [job EXCEPT ![id] = "waiting"]
  /\ life' = [life EXCEPT ![id] = @ + 1]
  /\ UNCHANGED <<runs, pass, retry, aborts>>

(* A delivery and its initInstance; a finished run is replayed.            *)
Begin(id) ==
  /\ job[id] = "waiting"
  /\ \/ /\ inst[id].status \notin Terminal
        /\ Write(id, BeginTick(inst[id]))
        /\ born' = IF Exists(inst[id]) THEN born ELSE [born EXCEPT ![id] = life[id]]
        /\ job' = [job EXCEPT ![id] = "running"]
     \/ /\ inst[id].status \in Terminal
        /\ job' = [job EXCEPT ![id] = "leaving"]
        /\ UNCHANGED runs
  /\ UNCHANGED <<life, pass, retry, aborts>>

(* The tick yields and the job is delayed.                                 *)
Suspend(id) ==
  /\ job[id] = "running"
  /\ Write(id, UpdateStatus(inst[id], "yielded"))
  /\ job' = [job EXCEPT ![id] = "waiting"]
  /\ UNCHANGED <<born, life, pass, retry, aborts>>

(* The tick ends the run; without an instance it reports a suspension, and *)
(* the job is found by the stall check.                                    *)
End(id) ==
  /\ job[id] = "running"
  /\ \E s \in Outcomes : Terminate(id, s)
  /\ job' = [job EXCEPT ![id] = IF Exists(inst[id]) THEN "leaving" ELSE "waiting"]
  /\ UNCHANGED <<born, life, pass, retry, aborts>>

(* A checkpoint finds the run cancelled or gone.                           *)
Stop(id) ==
  /\ job[id] = "running" /\ inst[id].status \in {"cancelled", "absent"}
  /\ Terminate(id, "cancelled")
  /\ job' = [job EXCEPT ![id] = "leaving"]
  /\ UNCHANGED <<born, life, pass, retry, aborts>>

(* BullMQ keeps or removes the finished job (removeOnComplete and -Fail).  *)
Leave(id) ==
  /\ job[id] = "leaving"
  /\ \E end \in {"kept", "none"} : job' = [job EXCEPT ![id] = end]
  /\ UNCHANGED <<runs, life, pass, retry, aborts>>

(* job.remove(), or the pruning of kept jobs.  A locked job stays.         *)
RemoveJob(id) ==
  /\ job[id] \in {"waiting", "kept"}
  /\ job' = [job EXCEPT ![id] = "none"]
  /\ UNCHANGED <<runs, life, pass, retry, aborts>>

(* DurableQueue.cancel, whatever the status; RemoveJob may follow.         *)
Cancel(id) ==
  /\ Exists(inst[id])
  /\ Terminate(id, "cancelled")
  /\ UNCHANGED <<born, job, life, pass, retry, aborts>>

BecomeQuiet(id) ==
  /\ Exists(inst[id]) /\ id \notin quiet
  /\ quiet' = quiet \cup {id}
  /\ UNCHANGED <<inst, before, born, job, life, pass, retry, aborts>>

---------------------------------------------------------------------------
(* run.retry() of a failed run: check, mark it running, revive its job.    *)

RetryRead(id) ==
  /\ id \in Retried
  /\ retry[id] = "none" /\ inst[id].status = "failed"
  /\ retry' = [retry EXCEPT ![id] = "marking"]
  /\ UNCHANGED <<runs, job, life, pass, aborts>>

RetryMark(id) ==
  /\ retry[id] = "marking"
  /\ Write(id, UpdateStatus(inst[id], "running"))
  /\ retry' = [retry EXCEPT ![id] = "reviving"]
  /\ UNCHANGED <<born, job, life, pass, aborts>>

(* reviveJob: a finished job is retried, a job that is gone is added       *)
(* again, any other is left to run.                                        *)
Revive(id) ==
  /\ retry[id] = "reviving"
  /\ retry' = [retry EXCEPT ![id] = "done"]
  /\ job' = [job EXCEPT ![id] = IF @ \in {"none", "kept"} THEN "waiting" ELSE @]
  /\ UNCHANGED <<runs, life, pass, aborts>>

---------------------------------------------------------------------------
(* A pass.                                                                 *)

Enter(p, rec) == pass' = [pass EXCEPT ![p] = rec]

Walk(b, round) == [NoPass EXCEPT !.at = "walk", !.bucket = b, !.round = round]
Reconcile == [NoPass EXCEPT !.at = "active"]

(* Faulty: one bucket too many.                                            *)
AfterBucketLate(b) == IF b <= Len(Buckets) THEN Walk(b + 1, 1) ELSE NoPass

AfterBucket(b) == IF b < Len(Buckets) THEN Walk(b + 1, 1) ELSE NoPass

(* kick() and pass().                                                      *)
Start(p, reconcile) ==
  /\ pass[p].at = "idle"
  /\ Enter(p, IF reconcile THEN Reconcile ELSE Walk(1, 1))
  /\ UNCHANGED <<runs, job, life, retry, aborts>>

ListActive(p) ==
  /\ pass[p].at = "active"
  /\ LET ids == {id \in Ids : inst[id].active}
     IN Enter(p, IF ids = {} THEN Walk(1, 1) ELSE [NoPass EXCEPT !.at = "look", !.ids = ids])
  /\ UNCHANGED <<runs, job, life, retry, aborts>>

LookForJobs(p) ==
  /\ pass[p].at = "look"
  /\ Enter(p, [pass[p] EXCEPT !.at = "orphans", !.ids = Missing(@)])
  /\ UNCHANGED <<runs, job, life, retry, aborts>>

(* Read the next orphan.  One that is gone, or not quiet yet, is left.     *)
ReadOrphan(p) ==
  /\ pass[p].at = "orphans"
  /\ \/ /\ pass[p].ids = {}
        /\ Enter(p, Walk(1, 1))
     \/ \E id \in pass[p].ids :
          Enter(p, IF Exists(inst[id]) /\ id \in quiet
                   THEN [pass[p] EXCEPT !.at = "cancel", !.ids = @ \ {id}, !.next = {id}]
                   ELSE [pass[p] EXCEPT !.ids = @ \ {id}])
  /\ UNCHANGED <<runs, job, life, retry, aborts>>

CancelOrphan(p) ==
  /\ pass[p].at = "cancel"
  /\ \E id \in pass[p].next : Terminate(id, "cancelled")
  /\ Enter(p, [pass[p] EXCEPT !.at = "orphans", !.next = {}])
  /\ UNCHANGED <<born, job, life, retry, aborts>>

(* Faulty: an empty bucket ends the walk, not only the bucket.             *)
ListOldestOrReturn(p) ==
  /\ pass[p].at = "walk"
  /\ LET ids == Oldest(Buckets[pass[p].bucket])
     IN Enter(p, IF ids = {} THEN NoPass
                 ELSE [pass[p] EXCEPT !.at = "check", !.ids = ids])
  /\ UNCHANGED <<runs, job, life, retry, aborts>>

ListOldest(p) ==
  /\ pass[p].at = "walk"
  /\ LET ids == Oldest(Buckets[pass[p].bucket])
     IN Enter(p, IF ids = {} THEN AfterBucket(pass[p].bucket)
                 ELSE [pass[p] EXCEPT !.at = "check", !.ids = ids])
  /\ UNCHANGED <<runs, job, life, retry, aborts>>

(* A full batch of dead runs is followed by another round.                 *)
CheckOldest(p) ==
  /\ pass[p].at = "check"
  /\ LET dead == Missing(pass[p].ids)
         more == /\ dead = pass[p].ids /\ Cardinality(dead) = Batch
                 /\ pass[p].round < MaxRounds
     IN Enter(p, IF dead = {} THEN AfterBucket(pass[p].bucket)
                 ELSE [pass[p] EXCEPT !.at = "remove", !.ids = dead, !.more = more])
  /\ UNCHANGED <<runs, job, life, retry, aborts>>

(* removeInstances, of the walk or (bucket 0) of clean().                  *)
Remove(p) ==
  /\ pass[p].at = "remove"
  /\ RemoveInstances(pass[p].ids)
  /\ Enter(p, IF pass[p].bucket = 0 THEN Reconcile
              ELSE IF pass[p].more THEN Walk(pass[p].bucket, pass[p].round + 1)
              ELSE AfterBucket(pass[p].bucket))
  /\ UNCHANGED <<job, life, retry, aborts>>

(* The process dies, or a store call throws: the next trigger starts over. *)
Abort(p) ==
  /\ pass[p].at # "idle" /\ aborts > 0
  /\ aborts' = aborts - 1
  /\ Enter(p, NoPass)
  /\ UNCHANGED <<runs, job, life, retry>>

(* DurableQueue.clean: BullMQ removes jobs and names them, their state     *)
(* follows, then a full pass.                                              *)
Clean(p) ==
  /\ BulkCalls
  /\ pass[p].at = "idle"
  /\ \E S \in SUBSET {id \in Ids : job[id] \in {"waiting", "kept"}} :
       /\ S # {}
       /\ job' = [id \in Ids |-> IF id \in S THEN "none" ELSE job[id]]
       /\ Enter(p, [NoPass EXCEPT !.at = "remove", !.ids = S])
  /\ UNCHANGED <<runs, life, retry, aborts>>

(* DurableQueue.drain: the waiting jobs go unnamed, then a full pass.      *)
Drain(p) ==
  /\ BulkCalls
  /\ pass[p].at = "idle"
  /\ job' = [id \in Ids |-> IF job[id] = "waiting" THEN "none" ELSE job[id]]
  /\ Enter(p, Reconcile)
  /\ UNCHANGED <<runs, life, retry, aborts>>

---------------------------------------------------------------------------
(* DurableQueue.listRuns and listRunsPage.                                 *)

(* What a listing shows of the index: the active set, or so many runs of a *)
(* done bucket in a row, from either end or any place.  A query of several *)
(* kinds is one listing for each.                                          *)
Page(s, from) ==
  {id \in Members(s) : Cardinality(Ahead(id, s)) + 1 \in from..(from + Window - 1)}

Pages ==
  {{id \in Ids : inst[id].active}} \cup
  {Page(s, from) : s \in Terminal, from \in 1..Cardinality(Ids)}

List(p) ==
  /\ Window > 0
  /\ pass[p].at = "idle"
  /\ \E ids \in Pages \ {{}} : Enter(p, [NoPass EXCEPT !.at = "load", !.ids = ids])
  /\ UNCHANGED <<runs, job, life, retry, aborts>>

(* getInstances finds no hash; a read that fails on its own looks the same. *)
NotLoaded(S) == {id \in S : ~Exists(inst[id])}

Load(p) ==
  /\ pass[p].at = "load"
  /\ \E failed \in SUBSET (IF Unreadable THEN pass[p].ids ELSE {}) :
       LET gone == NotLoaded(pass[p].ids) \cup failed
       IN Enter(p, IF gone = {} THEN NoPass ELSE [NoPass EXCEPT !.at = "heal", !.ids = gone])
  /\ UNCHANGED <<runs, job, life, retry, aborts>>

(* The entries without a hash leave the index, after the listing returned. *)
Heal(p) ==
  /\ pass[p].at = "heal"
  /\ RemoveInstances(pass[p].ids)
  /\ Enter(p, NoPass)
  /\ UNCHANGED <<job, life, retry, aborts>>

PassStep(p) ==
  \/ Load(p) \/ Heal(p)
  \/ ListActive(p) \/ LookForJobs(p) \/ ReadOrphan(p) \/ CancelOrphan(p)
  \/ ListOldest(p) \/ CheckOldest(p) \/ Remove(p)

Next ==
  \/ \E id \in Ids :
       \/ Add(id) \/ Begin(id) \/ Suspend(id) \/ End(id) \/ Stop(id) \/ Leave(id)
       \/ RemoveJob(id) \/ Cancel(id) \/ BecomeQuiet(id)
       \/ RetryRead(id) \/ RetryMark(id) \/ Revive(id)
  \/ \E p \in Passes :
       \/ \E reconcile \in BOOLEAN : Start(p, reconcile)
       \/ PassStep(p) \/ Abort(p) \/ Clean(p) \/ Drain(p) \/ List(p)

(* A pass goes on unless it dies, time passes, and full passes recur: a    *)
(* worker start, queue.reconcile() on a schedule.                          *)
Fairness ==
  /\ \A p \in Passes : WF_vars(PassStep(p)) /\ SF_vars(Start(p, TRUE))
  /\ \A id \in Ids : WF_vars(BecomeQuiet(id))

Spec == Init /\ [][Next]_vars
FairSpec == Spec /\ Fairness

---------------------------------------------------------------------------
(* Correctness.                                                            *)

(* The index never lies: the active set and the done buckets hold exactly  *)
(* what is stored, so no stored run is out of the reaper's reach and no    *)
(* listed one is a phantom.  A run that was cancelled after it had ended   *)
(* is in two buckets.                                                      *)
Indexed ==
  \A id \in Ids :
    /\ inst[id].active <=> inst[id].status \in Live
    /\ inst[id].status \in Terminal => inst[id].status \in inst[id].done
    /\ inst[id].status \notin Terminal => inst[id].done = {}

(* A done bucket ranks each of its runs once, and nothing else: the oldest *)
(* batch is made of runs, and a page of a bucket has no hole.              *)
Ranked ==
  \A s \in Terminal :
    /\ before[s] \subseteq Members(s) \X Members(s)
    /\ \A i, j \in Members(s) :
         <<i, j>> \in before[s] <=> i # j /\ <<j, i>> \notin before[s]
    /\ \A i, j, k \in Members(s) :
         <<i, j>> \in before[s] /\ <<j, k>> \in before[s] => <<i, k>> \in before[s]

(* While ids are not used twice, a pass only cancels or deletes what has   *)
(* no job, however old its reads are by then, with any number of passes.   *)
OnlyOrphansTouched ==
  [][\A p \in Passes : \A id \in Ids :
       pass'[p] # pass[p] /\ inst'[id] # inst[id] => job[id] = "none"]_vars

(* A run's state is created once: no pass takes it from under a job that   *)
(* has yet to be delivered, which would run every step again.              *)
CreatedOnce ==
  [][\A id \in Ids :
       ~Exists(inst[id]) /\ Exists(inst'[id]) => born[id] < life[id]]_vars

Lost(id) == job[id] = "none" /\ Exists(inst[id])

(* Retained runs fill the oldest batch of every bucket the run is in.      *)
Buried(id) ==
  /\ inst[id].done # {}
  /\ \A s \in inst[id].done :
       Cardinality({i \in Ahead(id, s) : job[i] # "none"}) >= Batch

(* The state of a run whose job is gone is collected, unless as many older *)
(* runs as a batch holds are retained in its bucket.                       *)
Reclaimed == \A id \in Ids : Lost(id) ~> ~Lost(id) \/ Buried(id)

=============================================================================
