------------------------- MODULE StateReaperProofs -------------------------
(***************************************************************************)
(* What StateReaper keeps, for any number of ids and passes and any batch  *)
(* size.                                                                   *)
(*                                                                         *)
(* The index never lies: each script moves the hash and its index entries  *)
(* together, so this is inductive once the records are typed.              *)
(*                                                                         *)
(* While no id is used twice and no failed run is retried by hand, a pass  *)
(* touches only what has no job.  What makes it hold is that the answer    *)
(* "no such job" cannot grow old: an id that was ever listed has had its   *)
(* one life, so a job that is gone stays gone.                             *)
(***************************************************************************)
EXTENDS StateReaper, TLAPS

(* The part of Indexed about one record, with its type.                    *)
Sound(r) ==
  /\ r \in Instances
  /\ r.active <=> r.status \in Live
  /\ r.status \in Terminal => r.status \in r.done
  /\ r.status \notin Terminal => r.done = {}

AllSound ==
  /\ inst \in [Ids -> Instances]
  /\ \A id \in Ids : Sound(inst[id])

(* Every script keeps a sound record sound.                                *)
LEMMA NoInstanceSound == Sound(NoInstance)
  BY DEF Sound, NoInstance, Instances, Live, Terminal

LEMMA BeginTickSound ==
  ASSUME NEW r, Sound(r) PROVE Sound(BeginTick(r))
  BY DEF Sound, BeginTick, Exists, Instances, Live, Terminal

LEMMA UpdateSound ==
  ASSUME NEW r, Sound(r), NEW s \in {"running", "yielded"}
  PROVE  Sound(UpdateStatus(r, s))
  BY DEF Sound, UpdateStatus, Exists, Instances, Live, Terminal

LEMMA FinishSound ==
  ASSUME NEW r, Sound(r), NEW s \in Terminal
  PROVE  Sound(Finish(r, s))
  BY DEF Sound, Finish, Instances, Live, Terminal

(* The three ways the instances change.                                    *)
LEMMA WriteSound ==
  ASSUME AllSound, NEW id, NEW record, Sound(record), Write(id, record)
  PROVE  AllSound'
  BY DEF AllSound, Write, Sound

LEMMA TerminateSound ==
  ASSUME AllSound, NEW id \in Ids, NEW s \in Terminal, Terminate(id, s)
  PROVE  AllSound'
  <1>1. CASE Exists(inst[id])
    <2>1. Sound(Finish(inst[id], s)) /\ Finish(inst[id], s) \in Instances
      BY FinishSound DEF AllSound, Sound
    <2>2. inst' = [inst EXCEPT ![id] = Finish(inst[id], s)]
      BY <1>1 DEF Terminate
    <2>. QED BY <2>1, <2>2 DEF AllSound
  <1>2. CASE ~Exists(inst[id])
    BY <1>2 DEF Terminate, AllSound
  <1>. QED BY <1>1, <1>2

LEMMA RemoveSound ==
  ASSUME AllSound, NEW S, RemoveInstances(S)
  PROVE  AllSound'
  <1>1. Sound(NoInstance) /\ NoInstance \in Instances
    BY NoInstanceSound DEF Sound
  <1>. QED BY <1>1 DEF AllSound, RemoveInstances, Forgotten

LEMMA SoundInit == Init => AllSound
  BY NoInstanceSound DEF Init, AllSound, Sound

(* What the ticks, the application and run.retry() do.                     *)
LEMMA RunStepSound ==
  ASSUME AllSound, NEW id \in Ids,
         \/ Add(id) \/ Begin(id) \/ Suspend(id) \/ End(id) \/ Stop(id) \/ Leave(id)
         \/ RemoveJob(id) \/ Cancel(id) \/ BecomeQuiet(id)
         \/ RetryRead(id) \/ RetryMark(id) \/ Revive(id)
  PROVE  AllSound'
<1>s. Sound(inst[id])
  BY DEF AllSound
<1>1. CASE Add(id) \/ Leave(id) \/ RemoveJob(id) \/ BecomeQuiet(id)
           \/ RetryRead(id) \/ Revive(id)
  BY <1>1 DEF Add, Leave, RemoveJob, BecomeQuiet, RetryRead, Revive, AllSound, runs
<1>2. CASE Begin(id)
  <2>1. CASE Write(id, BeginTick(inst[id]))
    BY <1>s, <2>1, BeginTickSound, WriteSound
  <2>2. CASE UNCHANGED runs
    BY <2>2 DEF AllSound, runs
  <2> QED BY <1>2, <2>1, <2>2 DEF Begin
<1>3. CASE Suspend(id) \/ RetryMark(id)
  <2>1. PICK s \in {"running", "yielded"} : Write(id, UpdateStatus(inst[id], s))
    BY <1>3 DEF Suspend, RetryMark
  <2>2. Sound(UpdateStatus(inst[id], s))
    BY <1>s, UpdateSound
  <2> QED BY <2>1, <2>2, WriteSound
<1>4. CASE End(id) \/ Stop(id) \/ Cancel(id)
  <2>1. PICK s \in Terminal : Terminate(id, s)
    BY <1>4, ReaperAssumption DEF End, Stop, Cancel, Terminal
  <2> QED BY <2>1, TerminateSound
<1> QED BY <1>1, <1>2, <1>3, <1>4

(* What a pass and the bulk calls do.                                      *)
LEMMA PassStepSound ==
  ASSUME AllSound, NEW p \in Passes,
         \/ \E reconcile \in BOOLEAN : Start(p, reconcile)
         \/ PassStep(p) \/ Abort(p) \/ Clean(p) \/ Drain(p) \/ List(p)
  PROVE  AllSound'
<1>1. CASE CancelOrphan(p)
  <2>1. PICK id \in pass[p].next : Terminate(id, "cancelled")
    BY <1>1 DEF CancelOrphan
  <2>2. CASE id \in Ids
    BY <2>1, <2>2, TerminateSound DEF Terminal
  <2>3. CASE id \notin Ids
    <3>1. inst' = inst
      BY <2>1, <2>3 DEF Terminate, AllSound
    <3> QED BY <3>1 DEF AllSound
  <2> QED BY <2>2, <2>3
<1>2. CASE Remove(p) \/ Heal(p)
  BY <1>2, RemoveSound DEF Remove, Heal
<1>3. CASE ~CancelOrphan(p) /\ ~Remove(p) /\ ~Heal(p)
  <2>1. inst' = inst
    BY <1>3 DEF Start, PassStep, List, Load, ListActive, LookForJobs, ReadOrphan, ListOldest,
                CheckOldest, Abort, Clean, Drain, runs
  <2> QED BY <2>1 DEF AllSound
<1> QED BY <1>1, <1>2, <1>3

LEMMA SoundNext == AllSound /\ [Next]_vars => AllSound'
<1> SUFFICES ASSUME AllSound, [Next]_vars PROVE AllSound'
  OBVIOUS
<1>1. CASE UNCHANGED vars
  BY <1>1 DEF vars, runs, AllSound
<1>2. CASE Next
  BY <1>2, RunStepSound, PassStepSound DEF Next
<1> QED BY <1>1, <1>2

(* The index never lies: the active set and the done buckets hold exactly  *)
(* what is stored (redis-store.ts moves the hash and its entries in one    *)
(* script).                                                                *)
THEOREM IndexFaithful == Spec => []Indexed
<1>1. AllSound => Indexed
  BY DEF AllSound, Sound, Indexed
<1> QED BY SoundInit, SoundNext, <1>1, PTL DEF Spec

---------------------------------------------------------------------------
(* The order of a done bucket.                                             *)

(* R orders the ids of M, each of them once.                               *)
Ordered(R, M) ==
  /\ R \subseteq M \X M
  /\ \A i, j \in M : <<i, j>> \in R <=> i # j /\ <<j, i>> \notin R
  /\ \A i, j, k \in M : <<i, j>> \in R /\ <<j, k>> \in R => <<i, k>> \in R

AllOrdered ==
  /\ before \in [Terminal -> SUBSET (Ids \X Ids)]
  /\ \A s \in Terminal : Ordered(before[s], Members(s))

LEMMA OrderedWithout ==
  ASSUME NEW R, NEW M, Ordered(R, M), NEW S
  PROVE  Ordered({e \in R : e[1] \notin S /\ e[2] \notin S}, M \ S)
<1> DEFINE T == {e \in R : e[1] \notin S /\ e[2] \notin S}
<1>1. T \subseteq (M \ S) \X (M \ S)
  BY DEF Ordered
<1>2. \A i, j \in M \ S : <<i, j>> \in T <=> <<i, j>> \in R
  OBVIOUS
<1> HIDE DEF T
<1> QED BY <1>1, <1>2 DEF Ordered, T

LEMMA OrderedLast ==
  ASSUME NEW R, NEW M, Ordered(R, M), NEW id, id \notin M
  PROVE  Ordered(R \cup (M \X {id}), M \cup {id})
<1> DEFINE T == R \cup (M \X {id})
<1>1. T \subseteq (M \cup {id}) \X (M \cup {id})
  BY DEF Ordered
<1>2. \A i, j \in M : <<i, j>> \in T <=> <<i, j>> \in R
  OBVIOUS
<1>3. \A i \in M : <<i, id>> \in T /\ <<id, i>> \notin T
  BY DEF Ordered
<1>4. <<id, id>> \notin T
  BY DEF Ordered
<1> HIDE DEF T
<1>5. \A i, j \in M \cup {id} : <<i, j>> \in T <=> i # j /\ <<j, i>> \notin T
  BY <1>2, <1>3, <1>4 DEF Ordered
<1>6. ASSUME NEW i \in M \cup {id}, NEW j \in M \cup {id}, NEW k \in M \cup {id},
             <<i, j>> \in T, <<j, k>> \in T
      PROVE  <<i, k>> \in T
  <2>1. i \in M /\ j \in M
    BY <1>3, <1>4, <1>6
  <2> QED BY <1>2, <1>3, <1>6, <2>1 DEF Ordered
<1> QED BY <1>1, <1>5, <1>6 DEF Ordered, T

(* An id that leaves a bucket leaves its order.                            *)
LEMMA UnrankedOrdered ==
  ASSUME AllOrdered, NEW S, NEW s \in Terminal
  PROVE  /\ Ordered(Unranked(S, s), Members(s) \ S)
         /\ Unranked(S, s) \in SUBSET (Ids \X Ids)
<1>1. Ordered(Unranked(S, s), Members(s) \ S)
  BY OrderedWithout DEF AllOrdered, Unranked
<1>2. Unranked(S, s) \subseteq before[s] /\ before[s] \in SUBSET (Ids \X Ids)
  BY DEF Unranked, AllOrdered
<1> QED BY <1>1, <1>2

(* The three ways the order changes.                                       *)
LEMMA WriteOrdered ==
  ASSUME AllSound, AllOrdered, NEW id \in Ids, NEW record, record.done \subseteq inst[id].done,
         Write(id, record)
  PROVE  AllOrdered'
<1>1. /\ inst' = [inst EXCEPT ![id] = record]
      /\ before' = [s \in Terminal |-> IF s \in record.done THEN before[s] ELSE Unranked({id}, s)]
  BY DEF Write
<1>2. \A i \in Ids : inst'[i] = IF i = id THEN record ELSE inst[i]
  BY <1>1 DEF AllSound
<1>3. ASSUME NEW s \in Terminal
      PROVE  before'[s] \in SUBSET (Ids \X Ids) /\ Ordered(before'[s], Members(s)')
  <2>1. CASE s \in record.done
    <3>1. Members(s)' = Members(s) /\ before'[s] = before[s]
      BY <1>1, <1>2, <2>1 DEF Members
    <3> QED BY <3>1 DEF AllOrdered
  <2>2. CASE s \notin record.done
    <3>1. Members(s)' = Members(s) \ {id} /\ before'[s] = Unranked({id}, s)
      BY <1>1, <1>2, <2>2 DEF Members
    <3>2. /\ Ordered(Unranked({id}, s), Members(s) \ {id})
          /\ Unranked({id}, s) \in SUBSET (Ids \X Ids)
      BY UnrankedOrdered
    <3> QED BY <3>1, <3>2
  <2> QED BY <2>1, <2>2
<1> QED BY <1>1, <1>3 DEF AllOrdered

LEMMA TerminateOrdered ==
  ASSUME AllSound, AllOrdered, NEW id \in Ids, NEW s \in Terminal, Terminate(id, s)
  PROVE  AllOrdered'
<1>1. CASE Exists(inst[id])
  <2>1. /\ inst' = [inst EXCEPT ![id] = Finish(inst[id], s)]
        /\ before' = [before EXCEPT
                        ![s] = Unranked({id}, s) \cup ((Members(s) \ {id}) \X {id})]
    BY <1>1 DEF Terminate
  <2>2. Finish(inst[id], s).done = inst[id].done \cup {s}
    BY DEF Finish, AllSound, Instances
  <2>3. \A i \in Ids : inst'[i].done = IF i = id THEN inst[id].done \cup {s} ELSE inst[i].done
    BY <2>1, <2>2 DEF AllSound
  <2>4. Members(s)' = (Members(s) \ {id}) \cup {id}
    BY <2>3 DEF Members
  <2>5. ASSUME NEW u \in Terminal, u # s
        PROVE  Members(u)' = Members(u) /\ before'[u] = before[u]
    BY <2>1, <2>3, <2>5 DEF Members, AllOrdered
  <2>6. before'[s] = Unranked({id}, s) \cup ((Members(s) \ {id}) \X {id})
    BY <2>1 DEF AllOrdered
  <2>7. Ordered(before'[s], Members(s)')
    <3>1. Ordered(Unranked({id}, s), Members(s) \ {id})
      BY UnrankedOrdered
    <3>2. Ordered(Unranked({id}, s) \cup ((Members(s) \ {id}) \X {id}), (Members(s) \ {id}) \cup {id})
      BY <3>1, OrderedLast
    <3> QED BY <2>4, <2>6, <3>2
  <2>8. before'[s] \in SUBSET (Ids \X Ids)
    BY <2>6, UnrankedOrdered DEF Members
  <2>9. before' \in [Terminal -> SUBSET (Ids \X Ids)]
    BY <2>1, <2>6, <2>8 DEF AllOrdered
  <2> QED BY <2>5, <2>7, <2>9 DEF AllOrdered
<1>2. CASE ~Exists(inst[id])
  BY <1>2 DEF Terminate, AllOrdered, Members
<1> QED BY <1>1, <1>2

LEMMA RemoveOrdered ==
  ASSUME AllSound, AllOrdered, NEW S, RemoveInstances(S)
  PROVE  AllOrdered'
<1>1. \A i \in Ids : inst'[i].done = IF i \in S THEN {} ELSE inst[i].done
  BY DEF RemoveInstances, Forgotten, NoInstance
<1>2. \A s \in Terminal : Members(s)' = Members(s) \ S /\ before'[s] = Unranked(S, s)
  BY <1>1 DEF Members, RemoveInstances
<1>3. before' = [s \in Terminal |-> Unranked(S, s)]
  BY DEF RemoveInstances
<1> QED BY <1>2, <1>3, UnrankedOrdered DEF AllOrdered

LEMMA OrderedSame ==
  ASSUME AllOrdered, UNCHANGED <<inst, before>>
  PROVE  AllOrdered'
  BY DEF AllOrdered, Members

LEMMA RunStepOrdered ==
  ASSUME AllSound, AllOrdered, NEW id \in Ids,
         \/ Add(id) \/ Begin(id) \/ Suspend(id) \/ End(id) \/ Stop(id) \/ Leave(id)
         \/ RemoveJob(id) \/ Cancel(id) \/ BecomeQuiet(id)
         \/ RetryRead(id) \/ RetryMark(id) \/ Revive(id)
  PROVE  AllOrdered'
<1>s. inst[id] \in Instances
  BY DEF AllSound
<1>1. CASE Add(id) \/ Leave(id) \/ RemoveJob(id) \/ BecomeQuiet(id)
           \/ RetryRead(id) \/ Revive(id)
  BY <1>1, OrderedSame DEF Add, Leave, RemoveJob, BecomeQuiet, RetryRead, Revive, runs
<1>2. CASE Begin(id)
  <2>1. BeginTick(inst[id]).done \subseteq inst[id].done
    BY <1>s DEF BeginTick, Exists, Instances
  <2> QED BY <1>2, <2>1, WriteOrdered, OrderedSame DEF Begin, runs
<1>3. CASE Suspend(id) \/ RetryMark(id)
  <2>1. PICK s \in {"running", "yielded"} : Write(id, UpdateStatus(inst[id], s))
    BY <1>3 DEF Suspend, RetryMark
  <2>2. UpdateStatus(inst[id], s).done \subseteq inst[id].done
    BY <1>s DEF UpdateStatus, Exists, Terminal, Instances
  <2> QED BY <2>1, <2>2, WriteOrdered
<1>4. CASE End(id) \/ Stop(id) \/ Cancel(id)
  <2>1. PICK s \in Terminal : Terminate(id, s)
    BY <1>4, ReaperAssumption DEF End, Stop, Cancel, Terminal
  <2> QED BY <2>1, TerminateOrdered
<1> QED BY <1>1, <1>2, <1>3, <1>4

LEMMA PassStepOrdered ==
  ASSUME AllSound, AllOrdered, NEW p \in Passes,
         \/ \E reconcile \in BOOLEAN : Start(p, reconcile)
         \/ PassStep(p) \/ Abort(p) \/ Clean(p) \/ Drain(p) \/ List(p),
         pass[p].next \subseteq Ids
  PROVE  AllOrdered'
<1>1. CASE CancelOrphan(p)
  BY <1>1, TerminateOrdered DEF CancelOrphan, Terminal
<1>2. CASE Remove(p) \/ Heal(p)
  BY <1>2, RemoveOrdered DEF Remove, Heal
<1>3. CASE ~CancelOrphan(p) /\ ~Remove(p) /\ ~Heal(p)
  <2>1. UNCHANGED <<inst, before>>
    BY <1>3 DEF Start, PassStep, List, Load, ListActive, LookForJobs, ReadOrphan, ListOldest,
                CheckOldest, Abort, Clean, Drain, runs
  <2> QED BY <2>1, OrderedSame
<1> QED BY <1>1, <1>2, <1>3

---------------------------------------------------------------------------
(* What is stored keeps its shape, and the order of the buckets with it.   *)

(* A pass does not ask for another round beyond the last.                  *)
PassTyped(r) == r \in PassStates /\ (r.more => r.round < MaxRounds)

AllTyped ==
  /\ AllSound
  /\ AllOrdered
  /\ quiet \in SUBSET Ids
  /\ job \in [Ids -> {"none", "waiting", "running", "leaving", "kept"}]
  /\ life \in [Ids -> Nat] /\ born \in [Ids -> Nat]
  /\ pass \in [Passes -> PassStates]
  /\ \A p \in Passes : PassTyped(pass[p])
  /\ retry \in [Ids -> {"none", "marking", "reviving", "done"}]
  /\ aborts \in Nat

LEMMA TypedInit == Init => AllTyped
<1> SUFFICES ASSUME Init PROVE AllTyped
  OBVIOUS
<1>1. AllSound
  BY SoundInit
<1>2. \A s \in Terminal : Members(s) = {} /\ before[s] = {}
  BY DEF Init, Members, NoInstance
<1>3. AllOrdered
  BY <1>2 DEF AllOrdered, Ordered, Init
<1>4. PassTyped(NoPass) /\ NoPass \in PassStates
  BY ReaperAssumption DEF PassTyped, NoPass, PassStates
<1> QED BY <1>1, <1>3, <1>4, ReaperAssumption DEF Init, AllTyped

LEMMA RunStepTyped ==
  ASSUME AllTyped, NEW id \in Ids,
         \/ Add(id) \/ Begin(id) \/ Suspend(id) \/ End(id) \/ Stop(id) \/ Leave(id)
         \/ RemoveJob(id) \/ Cancel(id) \/ BecomeQuiet(id)
         \/ RetryRead(id) \/ RetryMark(id) \/ Revive(id)
  PROVE  AllTyped'
<1> USE DEF AllTyped
<1>1. AllSound' /\ AllOrdered'
  BY RunStepSound, RunStepOrdered
<1>2. UNCHANGED <<pass, aborts>>
  BY DEF Add, Begin, Suspend, End, Stop, Leave, RemoveJob, Cancel, BecomeQuiet,
         RetryRead, RetryMark, Revive
<1>3. quiet' \in SUBSET Ids
  BY DEF Add, Begin, Suspend, End, Stop, Leave, RemoveJob, Cancel, BecomeQuiet,
         RetryRead, RetryMark, Revive, Write, Terminate, runs
<1>4. job' \in [Ids -> {"none", "waiting", "running", "leaving", "kept"}]
  BY DEF Add, Begin, Suspend, End, Stop, Leave, RemoveJob, Cancel, BecomeQuiet,
         RetryRead, RetryMark, Revive
<1>5. /\ life' \in [Ids -> Nat] /\ born' \in [Ids -> Nat]
      /\ retry' \in [Ids -> {"none", "marking", "reviving", "done"}]
  BY DEF Add, Begin, Suspend, End, Stop, Leave, RemoveJob, Cancel, BecomeQuiet,
         RetryRead, RetryMark, Revive, runs
<1> QED BY <1>1, <1>2, <1>3, <1>4, <1>5 DEF PassTyped

LEMMA FreshPassTyped ==
  ASSUME NEW b \in 0..4
  PROVE  PassTyped(NoPass) /\ PassTyped(Walk(1, 1)) /\ PassTyped(Reconcile)
         /\ PassTyped(AfterBucket(b))
<1>0. 0 \in 0..4 /\ 0 \in 0..MaxRounds /\ 1 \in 0..MaxRounds
  BY ReaperAssumption
<1>1. PassTyped(NoPass) /\ PassTyped(Reconcile)
  <2>1. NoPass \in PassStates /\ Reconcile \in PassStates
    BY <1>0 DEF PassStates, NoPass, Reconcile
  <2> QED BY <2>1 DEF PassTyped, NoPass, Reconcile
<1>2. \A c \in 0..4 : PassTyped(Walk(c, 1))
  <2> TAKE c \in 0..4
  <2>1. Walk(c, 1) \in PassStates /\ ~Walk(c, 1).more
    BY <1>0 DEF PassStates, NoPass, Walk
  <2> QED BY <2>1 DEF PassTyped
<1>3. Len(Buckets) = 4
  BY DEF Buckets
<1>4. PassTyped(AfterBucket(b))
  <2>1. b < 4 => b + 1 \in 0..4
    OBVIOUS
  <2> QED BY <1>1, <1>2, <1>3, <2>1 DEF AfterBucket
<1> QED BY <1>1, <1>2, <1>4

LEMMA PassStepTyped ==
  ASSUME AllTyped, NEW p \in Passes,
         \/ \E reconcile \in BOOLEAN : Start(p, reconcile)
         \/ PassStep(p) \/ Abort(p) \/ Clean(p) \/ Drain(p) \/ List(p)
  PROVE  AllTyped'
<1> USE DEF AllTyped
<1>t. PassTyped(pass[p]) /\ pass[p] \in PassStates
  OBVIOUS
<1>f. /\ pass[p].ids \subseteq Ids /\ pass[p].next \subseteq Ids
      /\ pass[p].bucket \in 0..4 /\ pass[p].round \in 0..MaxRounds /\ MaxRounds \in Nat
      /\ pass[p].more => pass[p].round < MaxRounds
  BY <1>t, ReaperAssumption DEF PassStates, PassTyped
<1>1. AllSound' /\ AllOrdered'
  BY <1>f, PassStepSound, PassStepOrdered
<1>2. UNCHANGED <<life, born, retry>>
  BY DEF Start, PassStep, ListActive, LookForJobs, ReadOrphan, CancelOrphan, ListOldest,
         CheckOldest, Remove, Abort, Clean, Drain, List, Load, Heal, RemoveInstances, runs
<1>3. quiet' \in SUBSET Ids
  BY DEF Start, PassStep, ListActive, LookForJobs, ReadOrphan, CancelOrphan, ListOldest,
         CheckOldest, Remove, Abort, Clean, Drain, List, Load, Heal, RemoveInstances,
         Terminate, runs
<1>4. job' \in [Ids -> {"none", "waiting", "running", "leaving", "kept"}]
  BY DEF Start, PassStep, ListActive, LookForJobs, ReadOrphan, CancelOrphan, ListOldest,
         CheckOldest, Remove, Abort, Clean, Drain, List, Load, Heal
<1>5. aborts' \in Nat
  <2>1. CASE Abort(p)
    BY <2>1 DEF Abort
  <2>2. CASE ~Abort(p)
    BY <2>2 DEF Start, PassStep, ListActive, LookForJobs, ReadOrphan, CancelOrphan, ListOldest,
         CheckOldest, Remove, Clean, Drain, List, Load, Heal
  <2> QED BY <2>1, <2>2
<1>e. \A at \in {"look", "orphans", "cancel", "walk", "check", "remove", "load", "heal"},
         ids \in SUBSET Ids, next \in SUBSET Ids :
        /\ PassTyped([pass[p] EXCEPT !.at = at, !.ids = ids, !.next = next])
        /\ PassTyped([NoPass EXCEPT !.at = at, !.ids = ids])
  <2>1. 0 \in 0..4 /\ 0 \in 0..MaxRounds
    BY <1>f
  <2> TAKE at \in {"look", "orphans", "cancel", "walk", "check", "remove", "load", "heal"},
           ids \in SUBSET Ids, next \in SUBSET Ids
  <2>2. PassTyped([pass[p] EXCEPT !.at = at, !.ids = ids, !.next = next])
    BY <1>t, <1>f DEF PassTyped, PassStates
  <2>3. /\ [NoPass EXCEPT !.at = at, !.ids = ids] \in PassStates
        /\ ~[NoPass EXCEPT !.at = at, !.ids = ids].more
    BY <2>1 DEF PassStates, NoPass
  <2> QED BY <2>2, <2>3 DEF PassTyped
<1>6. PICK rec : Enter(p, rec) /\ PassTyped(rec)
  <2>1. CASE (\E reconcile \in BOOLEAN : Start(p, reconcile)) \/ Abort(p) \/ Drain(p) \/ Heal(p)
    BY <2>1, FreshPassTyped, <1>f DEF Start, Abort, Drain, Heal
  <2>2. CASE ListActive(p)
    <3>1. {id \in Ids : inst[id].active} \in SUBSET Ids
      OBVIOUS
    <3> QED BY <2>2, <3>1, <1>e, FreshPassTyped, <1>f DEF ListActive
  <2>3. CASE LookForJobs(p)
    <3>1. PassTyped([pass[p] EXCEPT !.at = "orphans", !.ids = Missing(@)])
      BY <1>t, <1>f DEF PassTyped, PassStates, Missing
    <3> QED BY <2>3, <3>1 DEF LookForJobs
  <2>4. CASE ReadOrphan(p)
    <3>1. \A id \in pass[p].ids :
            /\ PassTyped([pass[p] EXCEPT !.at = "cancel", !.ids = @ \ {id}, !.next = {id}])
            /\ PassTyped([pass[p] EXCEPT !.ids = @ \ {id}])
      BY <1>t, <1>f DEF PassTyped, PassStates
    <3> QED BY <2>4, <3>1, FreshPassTyped, <1>f DEF ReadOrphan
  <2>5. CASE CancelOrphan(p)
    <3>1. PassTyped([pass[p] EXCEPT !.at = "orphans", !.next = {}])
      BY <1>t, <1>f DEF PassTyped, PassStates
    <3> QED BY <2>5, <3>1 DEF CancelOrphan
  <2>6. CASE ListOldest(p)
    <3>1. \A s : PassTyped([pass[p] EXCEPT !.at = "check", !.ids = Oldest(s)])
      BY <1>t, <1>f DEF PassTyped, PassStates, Oldest, Members
    <3> QED BY <2>6, <3>1, FreshPassTyped, <1>f DEF ListOldest
  <2>7. CASE CheckOldest(p)
    <3>1. \A b \in BOOLEAN : (b => pass[p].round < MaxRounds) =>
            PassTyped([pass[p] EXCEPT !.at = "remove", !.ids = Missing(pass[p].ids), !.more = b])
      BY <1>t, <1>f DEF PassTyped, PassStates, Missing
    <3> DEFINE dead == Missing(pass[p].ids)
               more == /\ dead = pass[p].ids /\ Cardinality(dead) = Batch
                       /\ pass[p].round < MaxRounds
    <3>2. more \in BOOLEAN /\ (more => pass[p].round < MaxRounds)
      OBVIOUS
    <3>3. Enter(p, IF dead = {} THEN AfterBucket(pass[p].bucket)
                   ELSE [pass[p] EXCEPT !.at = "remove", !.ids = dead, !.more = more])
      BY <2>7 DEF CheckOldest
    <3> HIDE DEF more
    <3>4. PassTyped([pass[p] EXCEPT !.at = "remove", !.ids = dead, !.more = more])
      BY <3>1, <3>2
    <3> QED BY <3>3, <3>4, FreshPassTyped, <1>f
  <2>8. CASE Remove(p)
    <3>1. CASE pass[p].bucket # 0 /\ pass[p].more
      <4>1. pass[p].round + 1 \in 0..MaxRounds
        BY <1>f, <3>1
      <4>2. PassTyped(Walk(pass[p].bucket, pass[p].round + 1))
        BY <1>f, <4>1 DEF PassTyped, PassStates, Walk, NoPass
      <4> QED BY <2>8, <3>1, <4>2 DEF Remove
    <3>2. CASE ~(pass[p].bucket # 0 /\ pass[p].more)
      <4>1. pass[p].bucket = 0 \/ ~pass[p].more
        BY <3>2
      <4>2. Enter(p, Reconcile) \/ Enter(p, AfterBucket(pass[p].bucket))
        BY <2>8, <4>1 DEF Remove
      <4> QED BY <4>2, FreshPassTyped, <1>f
    <3> QED BY <3>1, <3>2
  <2>9. CASE Clean(p) \/ List(p)
    <3>1. \A ids \in Pages : ids \in SUBSET Ids
      BY DEF Pages, Page, Members
    <3> QED BY <2>9, <3>1, <1>e DEF Clean, List
  <2>10. CASE Load(p)
    <3>1. \A failed \in SUBSET (IF Unreadable THEN pass[p].ids ELSE {}) :
            NotLoaded(pass[p].ids) \cup failed \in SUBSET Ids
      BY <1>f DEF NotLoaded
    <3> QED BY <2>10, <3>1, <1>e, FreshPassTyped, <1>f DEF Load
  <2> QED BY <2>1, <2>2, <2>3, <2>4, <2>5, <2>6, <2>7, <2>8, <2>9, <2>10 DEF PassStep
<1>7. /\ pass' \in [Passes -> PassStates]
      /\ \A q \in Passes : PassTyped(pass'[q])
  <2>1. pass' = [pass EXCEPT ![p] = rec] /\ rec \in PassStates
    BY <1>6 DEF Enter, PassTyped
  <2> QED BY <2>1, <1>6
<1> QED BY <1>1, <1>2, <1>3, <1>4, <1>5, <1>7 DEF PassTyped

LEMMA TypedNext == AllTyped /\ [Next]_vars => AllTyped'
<1> SUFFICES ASSUME AllTyped, [Next]_vars PROVE AllTyped'
  OBVIOUS
<1>1. CASE UNCHANGED vars
  BY <1>1, OrderedSame DEF vars, runs, AllTyped, AllSound, PassTyped
<1>2. CASE Next
  BY <1>2, RunStepTyped, PassStepTyped DEF Next
<1> QED BY <1>1, <1>2

(* Type correctness: what reaper.ts, the index scripts of redis-store.ts   *)
(* and the bulk calls of queue.ts leave in the store and in a pass is what *)
(* the next call expects; no pass walks past the last bucket or round.     *)
THEOREM ReaperTyped == Spec => []TypeOK
<1>1. AllTyped => TypeOK
  BY DEF AllTyped, AllSound, AllOrdered, TypeOK
<1> QED BY TypedInit, TypedNext, <1>1, PTL DEF Spec

(* A done bucket ranks each of its runs once and nothing else, so that the *)
(* oldest batch and every page are made of runs (the sorted sets of        *)
(* redis-store.ts, whose members the scripts move with the hash).          *)
THEOREM RankedOnce == Spec => []Ranked
<1>1. AllTyped => Ranked
  BY DEF AllTyped, AllOrdered, Ordered, Ranked
<1> QED BY TypedInit, TypedNext, <1>1, PTL DEF Spec

---------------------------------------------------------------------------
(* Ids that were added, and those of them whose job is gone.               *)
Spent == {id \in Ids : life[id] >= 1}
Gone == {id \in Spent : job[id] = "none"}

(* Ids that have been delivered: what has no state by now is gone.         *)
Known == {id \in Spent : Exists(inst[id]) \/ job[id] = "none"}

PassRecords ==
  [at: {"idle", "active", "look", "orphans", "cancel", "walk", "check", "remove",
        "load", "heal"},
   bucket: Nat, round: Nat, ids: SUBSET Ids, next: SUBSET Ids, more: BOOLEAN]

(* What a pass holds was added once; what it is about to touch is gone.    *)
Careful(r, spent, gone, known) ==
  /\ r \in PassRecords
  /\ r.at # "cancel" => r.next = {}
  /\ r.at \in {"look", "check"} => r.ids \subseteq spent
  /\ r.at = "load" => r.ids \subseteq known
  /\ r.at \in {"orphans", "cancel", "remove", "heal"} => r.ids \cup r.next \subseteq gone

OrphanInv ==
  /\ AllSound
  /\ life \in [Ids -> Nat]
  /\ job \in [Ids -> {"none", "waiting", "running", "leaving", "kept"}]
  /\ retry = [id \in Ids |-> "none"]
  /\ \A id \in Ids : job[id] # "none" \/ Exists(inst[id]) => id \in Spent
  /\ pass \in [Passes -> PassRecords]
  /\ \A p \in Passes : Careful(pass[p], Spent, Gone, Known)

LEMMA CarefulLater ==
  ASSUME NEW r, NEW S, NEW G, NEW K, NEW S2, NEW G2, NEW K2,
         S \subseteq S2, G \subseteq G2, K \subseteq K2, Careful(r, S, G, K)
  PROVE  Careful(r, S2, G2, K2)
  BY DEF Careful

LEMMA FreshPassCareful ==
  ASSUME NEW S, NEW G, NEW K, NEW b \in Nat, NEW n \in Nat
  PROVE  /\ Careful(NoPass, S, G, K)
         /\ Careful(Reconcile, S, G, K)
         /\ Careful(Walk(b, n), S, G, K)
         /\ Careful(AfterBucket(b), S, G, K)
<1>1. Careful(NoPass, S, G, K) /\ Careful(Reconcile, S, G, K)
  BY DEF Careful, PassRecords, NoPass, Reconcile
<1>2. \A c \in Nat, m \in Nat : Careful(Walk(c, m), S, G, K)
  BY DEF Careful, PassRecords, NoPass, Walk
<1>3. Careful(AfterBucket(b), S, G, K)
  BY <1>1, <1>2 DEF AfterBucket
<1> QED BY <1>1, <1>2, <1>3

(* What the index lists was added.                                         *)
LEMMA ListedSpent ==
  ASSUME OrphanInv
  PROVE  /\ {id \in Ids : inst[id].active} \subseteq Spent
         /\ \A s : Oldest(s) \subseteq Spent
         /\ \A ids \in Pages : ids \subseteq Known
<1>1. ASSUME NEW id \in Ids, inst[id].active \/ inst[id].done # {}
      PROVE  Exists(inst[id])
  BY <1>1 DEF OrphanInv, AllSound, Sound, Exists, Live, Terminal
<1> QED BY <1>1 DEF Oldest, Members, Page, Pages, Known, OrphanInv

(* A tick, the application or the clock: ids only get older, and a job     *)
(* that is gone does not come back.                                        *)
LEMMA RunStepOrphans ==
  ASSUME Lives <= 1, Retried = {}, OrphanInv, NEW id \in Ids,
         \/ Add(id) \/ Begin(id) \/ Suspend(id) \/ End(id) \/ Stop(id) \/ Leave(id)
         \/ RemoveJob(id) \/ Cancel(id) \/ BecomeQuiet(id)
         \/ RetryRead(id) \/ RetryMark(id) \/ Revive(id)
  PROVE  OrphanInv' /\ pass' = pass
<1> USE DEF OrphanInv
<1>1. AllSound'
  BY RunStepSound
<1>2. pass' = pass /\ retry' = retry
  BY DEF Add, Begin, Suspend, End, Stop, Leave, RemoveJob, Cancel, BecomeQuiet,
         RetryRead, RetryMark, Revive
<1>3. /\ life' \in [Ids -> Nat] /\ Spent \subseteq Spent'
      /\ job' \in [Ids -> {"none", "waiting", "running", "leaving", "kept"}]
      /\ Gone \subseteq Gone'
  <2>1. CASE Add(id)
    BY <2>1, ReaperAssumption DEF Add, Spent, Gone
  <2>2. CASE Begin(id) \/ Suspend(id) \/ End(id) \/ Stop(id) \/ Leave(id)
             \/ RemoveJob(id) \/ Cancel(id) \/ BecomeQuiet(id)
    BY <2>2 DEF Begin, Suspend, End, Stop, Leave, RemoveJob, Cancel, BecomeQuiet, Spent, Gone
  <2>3. CASE RetryRead(id) \/ RetryMark(id) \/ Revive(id)
    BY <2>3 DEF RetryRead, RetryMark, Revive
  <2> QED BY <2>1, <2>2, <2>3
<1>4. ASSUME NEW i \in Ids, job'[i] # "none" PROVE i \in Spent'
  <2>1. CASE Add(id)
    BY <1>4, <2>1 DEF Add, Spent
  <2>2. CASE ~Add(id)
    BY <1>3, <1>4, <2>2 DEF Begin, Suspend, End, Stop, Leave, RemoveJob, Cancel,
         BecomeQuiet, RetryRead, RetryMark, Revive
  <2> QED BY <2>1, <2>2
<1>5. ASSUME NEW i \in Ids, Exists(inst'[i]) PROVE i \in Spent'
  <2>1. CASE Exists(inst[i])
    BY <1>3, <2>1
  <2>2. CASE ~Exists(inst[i]) /\ job[i] # "none"
    BY <1>3, <2>2
  <2>3. CASE ~Exists(inst[i]) /\ job[i] = "none"
    <3>1. inst'[i] = inst[i]
      BY <2>3 DEF Add, Begin, Suspend, End, Stop, Leave, RemoveJob, Cancel, BecomeQuiet,
           RetryRead, RetryMark, Revive, Write, Terminate, UpdateStatus, AllSound, runs
    <3> QED BY <1>5, <2>3, <3>1
  <2> QED BY <2>1, <2>2, <2>3
<1>k. Known \subseteq Known'
  <2> SUFFICES ASSUME NEW i \in Known, ~Exists(inst'[i]) PROVE i \in Gone
    BY <1>3 DEF Known, Gone
  <2>i. i \in Ids /\ inst[i] \in Instances /\ inst[id] \in Instances
    BY DEF Known, Spent, AllSound
  <2>1. ~Exists(inst[i])
    <3>1. CASE inst' = inst
      BY <3>1
    <3>2. ASSUME NEW record, Write(id, record), Exists(record) \/ ~Exists(inst[id])
          PROVE  ~Exists(inst[i])
      BY <3>2, <2>i DEF Write, AllSound
    <3>3. ASSUME NEW s \in Terminal, Terminate(id, s) PROVE ~Exists(inst[i])
      <4>1. Exists(Finish(inst[id], s))
        BY <2>i DEF Finish, Exists, Terminal, Instances
      <4> QED BY <3>3, <4>1, <2>i DEF Terminate, AllSound
    <3>4. CASE Begin(id)
      <4>1. Exists(BeginTick(inst[id]))
        BY <2>i DEF BeginTick, Exists, Instances, Live, Terminal
      <4> QED BY <3>1, <3>2, <3>4, <4>1 DEF Begin, runs
    <3>5. CASE Suspend(id) \/ RetryMark(id)
      <4>1. \A s \in {"running", "yielded"} :
              Exists(UpdateStatus(inst[id], s)) \/ ~Exists(inst[id])
        BY <2>i DEF UpdateStatus, Exists, Instances
      <4> QED BY <3>2, <3>5, <4>1 DEF Suspend, RetryMark
    <3>6. CASE End(id) \/ Stop(id) \/ Cancel(id)
      <4>1. PICK s \in Terminal : Terminate(id, s)
        BY <3>6, ReaperAssumption DEF End, Stop, Cancel, Terminal
      <4> QED BY <3>3, <4>1
    <3>7. CASE Add(id) \/ Leave(id) \/ RemoveJob(id) \/ BecomeQuiet(id) \/ RetryRead(id)
               \/ Revive(id)
      BY <3>1, <3>7 DEF Add, Leave, RemoveJob, BecomeQuiet, RetryRead, Revive, runs
    <3> QED BY <3>4, <3>5, <3>6, <3>7
  <2> QED BY <2>1 DEF Known, Gone
<1>6. \A p \in Passes : Careful(pass[p], Spent', Gone', Known')
  BY <1>3, <1>k, CarefulLater
<1> QED BY <1>1, <1>2, <1>3, <1>4, <1>5, <1>6

(* A step of one pass: what it goes on with is spent, or gone.             *)
LEMMA PassStepOrphans ==
  ASSUME Unreadable = FALSE, OrphanInv, NEW p \in Passes,
         \/ \E reconcile \in BOOLEAN : Start(p, reconcile)
         \/ PassStep(p) \/ Abort(p) \/ Clean(p) \/ Drain(p) \/ List(p)
  PROVE  /\ OrphanInv'
         /\ \A q \in Passes : q # p => pass'[q] = pass[q]
         /\ \A id \in Ids : inst'[id] # inst[id] => job[id] = "none"
<1> USE DEF OrphanInv
<1>t. pass[p] \in PassRecords /\ Careful(pass[p], Spent, Gone, Known)
  OBVIOUS
<1>1. AllSound'
  BY PassStepSound
<1>2. life' = life /\ retry' = retry /\ Spent' = Spent
  BY DEF Start, PassStep, ListActive, LookForJobs, ReadOrphan, CancelOrphan, ListOldest,
         CheckOldest, Remove, Abort, Clean, Drain, List, Load, Heal, Spent
<1>3. /\ job' \in [Ids -> {"none", "waiting", "running", "leaving", "kept"}]
      /\ \A id \in Ids : job'[id] # "none" => job'[id] = job[id]
  <2>1. CASE Clean(p) \/ Drain(p)
    BY <2>1 DEF Clean, Drain
  <2>2. CASE ~Clean(p) /\ ~Drain(p)
    <3>1. job' = job
      BY <2>2 DEF Start, PassStep, ListActive, LookForJobs, ReadOrphan, CancelOrphan,
           ListOldest, CheckOldest, Remove, Abort, List, Load, Heal
    <3> QED BY <3>1
  <2> QED BY <2>1, <2>2
<1>4. Gone \subseteq Gone'
  BY <1>2, <1>3 DEF Gone, Spent
<1>7. \A id \in Ids : inst'[id] # inst[id] => id \in Gone
  <2>1. CASE CancelOrphan(p)
    <3>1. PICK i \in pass[p].next : Terminate(i, "cancelled")
      BY <2>1 DEF CancelOrphan
    <3>2. i \in Gone
      BY <2>1, <1>t DEF CancelOrphan, Careful
    <3> QED BY <3>1, <3>2 DEF Terminate, AllSound
  <2>2. CASE Remove(p) \/ Heal(p)
    <3>1. pass[p].ids \subseteq Gone
      BY <2>2, <1>t DEF Remove, Heal, Careful
    <3> QED BY <2>2, <3>1 DEF Remove, Heal, RemoveInstances, AllSound
  <2>3. CASE ~CancelOrphan(p) /\ ~Remove(p) /\ ~Heal(p)
    BY <2>3 DEF Start, PassStep, List, Load, ListActive, LookForJobs, ReadOrphan, ListOldest,
                CheckOldest, Abort, Clean, Drain, runs
  <2> QED BY <2>1, <2>2, <2>3
<1>k. Known \subseteq Known'
  <2> SUFFICES ASSUME NEW i \in Known PROVE i \in Known'
    OBVIOUS
  <2>1. i \in Ids /\ i \in Spent'
    BY <1>2 DEF Known, Spent
  <2>2. CASE inst'[i] = inst[i]
    BY <2>1, <2>2, <1>3 DEF Known
  <2>3. CASE inst'[i] # inst[i]
    BY <2>1, <2>3, <1>3, <1>7 DEF Known, Gone
  <2> QED BY <2>2, <2>3
<1>c. \A r : Careful(r, Spent, Gone, Known) => Careful(r, Spent', Gone', Known')
  BY <1>2, <1>4, <1>k, CarefulLater
<1>5. PICK rec : Enter(p, rec) /\ Careful(rec, Spent', Gone', Known')
  <2>1. CASE \E reconcile \in BOOLEAN : Start(p, reconcile)
    BY <2>1, FreshPassCareful DEF Start
  <2>2. CASE ListActive(p)
    <3>1. Careful([NoPass EXCEPT !.at = "look", !.ids = {id \in Ids : inst[id].active}],
                  Spent, Gone, Known)
      BY ListedSpent DEF Careful, NoPass, PassRecords
    <3> QED BY <2>2, <3>1, <1>c, FreshPassCareful DEF ListActive
  <2>3. CASE LookForJobs(p)
    <3>1. Careful([pass[p] EXCEPT !.at = "orphans", !.ids = Missing(@)], Spent, Gone, Known)
      BY <2>3, <1>t DEF LookForJobs, Careful, PassRecords, Missing, Gone
    <3> QED BY <2>3, <3>1, <1>c DEF LookForJobs
  <2>4. CASE ReadOrphan(p)
    <3>1. CASE Enter(p, Walk(1, 1))
      BY <3>1, FreshPassCareful
    <3>a. pass[p].at = "orphans" /\ pass[p].ids \subseteq Gone /\ pass[p].next = {}
      BY <2>4, <1>t DEF ReadOrphan, Careful
    <3>2. ASSUME NEW id \in pass[p].ids
          PROVE  Careful([pass[p] EXCEPT !.at = "cancel", !.ids = @ \ {id}, !.next = {id}],
                         Spent, Gone, Known)
      <4>1. [pass[p] EXCEPT !.at = "cancel", !.ids = @ \ {id}, !.next = {id}] \in PassRecords
        BY <1>t, <3>2 DEF PassRecords
      <4>2. id \in Gone /\ pass[p].ids \ {id} \subseteq Gone
        BY <3>a, <3>2
      <4>3. /\ [pass[p] EXCEPT !.at = "cancel", !.ids = @ \ {id}, !.next = {id}].at = "cancel"
            /\ [pass[p] EXCEPT !.at = "cancel", !.ids = @ \ {id}, !.next = {id}].ids
                 = pass[p].ids \ {id}
            /\ [pass[p] EXCEPT !.at = "cancel", !.ids = @ \ {id}, !.next = {id}].next = {id}
        BY <1>t DEF PassRecords
      <4> QED BY <4>1, <4>2, <4>3 DEF Careful
    <3>3. ASSUME NEW id \in pass[p].ids
          PROVE  Careful([pass[p] EXCEPT !.ids = @ \ {id}], Spent, Gone, Known)
      BY <3>a, <3>3, <1>t DEF Careful, PassRecords
    <3> QED BY <2>4, <3>1, <3>2, <3>3, <1>c DEF ReadOrphan
  <2>5. CASE CancelOrphan(p)
    <3>1. Careful([pass[p] EXCEPT !.at = "orphans", !.next = {}], Spent, Gone, Known)
      BY <2>5, <1>t DEF CancelOrphan, Careful, PassRecords
    <3> QED BY <2>5, <3>1, <1>c DEF CancelOrphan
  <2>6. CASE ListOldest(p)
    <3>1. \A s : Careful([pass[p] EXCEPT !.at = "check", !.ids = Oldest(s)], Spent, Gone, Known)
      BY <2>6, <1>t, ListedSpent DEF ListOldest, Careful, PassRecords, Spent
    <3>2. pass[p].bucket \in Nat
      BY <1>t DEF PassRecords
    <3> QED BY <2>6, <3>1, <3>2, <1>c, FreshPassCareful DEF ListOldest
  <2>7. CASE CheckOldest(p)
    <3>1. \A b \in BOOLEAN :
            Careful([pass[p] EXCEPT !.at = "remove", !.ids = Missing(pass[p].ids), !.more = b],
                    Spent, Gone, Known)
      BY <2>7, <1>t DEF CheckOldest, Careful, PassRecords, Missing, Gone
    <3>2. pass[p].bucket \in Nat
      BY <1>t DEF PassRecords
    <3> QED BY <2>7, <3>1, <3>2, <1>c, FreshPassCareful DEF CheckOldest
  <2>8. CASE Remove(p)
    <3>1. pass[p].bucket \in Nat /\ pass[p].round + 1 \in Nat
      BY <1>t DEF PassRecords
    <3> QED BY <2>8, <3>1, FreshPassCareful DEF Remove
  <2>9. CASE Abort(p) \/ Drain(p)
    BY <2>9, FreshPassCareful DEF Abort, Drain
  <2>10. CASE Clean(p)
    <3>1. PICK S \in SUBSET {id \in Ids : job[id] \in {"waiting", "kept"}} :
            /\ job' = [id \in Ids |-> IF id \in S THEN "none" ELSE job[id]]
            /\ Enter(p, [NoPass EXCEPT !.at = "remove", !.ids = S])
      BY <2>10 DEF Clean
    <3>2. S \subseteq Gone'
      BY <3>1, <1>2 DEF Gone, Spent
    <3>3. Careful([NoPass EXCEPT !.at = "remove", !.ids = S], Spent', Gone', Known')
      BY <3>1, <3>2 DEF Careful, NoPass, PassRecords
    <3> QED BY <3>1, <3>3
  <2>11. CASE List(p)
    <3>1. PICK ids \in Pages : Enter(p, [NoPass EXCEPT !.at = "load", !.ids = ids])
      BY <2>11 DEF List
    <3>2. ids \subseteq Known
      BY ListedSpent
    <3>3. Careful([NoPass EXCEPT !.at = "load", !.ids = ids], Spent, Gone, Known)
      BY <3>2 DEF Careful, NoPass, PassRecords, Known, Spent
    <3> QED BY <3>1, <3>3, <1>c
  <2>12. CASE Load(p)
    <3>1. NotLoaded(pass[p].ids) \subseteq Gone
      BY <2>12, <1>t DEF Load, Careful, NotLoaded, Known, Gone
    <3>2. Careful([NoPass EXCEPT !.at = "heal", !.ids = NotLoaded(pass[p].ids)],
                  Spent, Gone, Known)
      BY <3>1 DEF Careful, NoPass, PassRecords, Gone, Spent
    <3>3. NotLoaded(pass[p].ids) \cup {} = NotLoaded(pass[p].ids)
      OBVIOUS
    <3> QED BY <2>12, <3>2, <3>3, <1>c, FreshPassCareful DEF Load
  <2>13. CASE Heal(p)
    BY <2>13, FreshPassCareful DEF Heal
  <2> QED BY <2>1, <2>2, <2>3, <2>4, <2>5, <2>6, <2>7, <2>8, <2>9, <2>10, <2>11, <2>12, <2>13
          DEF PassStep
<1>6. /\ pass' \in [Passes -> PassRecords]
      /\ \A q \in Passes : q # p => pass'[q] = pass[q]
      /\ \A q \in Passes : Careful(pass'[q], Spent', Gone', Known')
  <2>1. pass' = [pass EXCEPT ![p] = rec] /\ rec \in PassRecords
    BY <1>5 DEF Enter, Careful
  <2>2. \A q \in Passes : Careful(pass[q], Spent', Gone', Known')
    BY <1>2, <1>4, <1>k, CarefulLater
  <2> QED BY <2>1, <2>2, <1>5
<1>8. \A id \in Ids : job'[id] # "none" \/ Exists(inst'[id]) => id \in Spent'
  BY <1>2, <1>3, <1>7 DEF Gone
<1>9. \A id \in Ids : inst'[id] # inst[id] => job[id] = "none"
  BY <1>7 DEF Gone
<1> QED BY <1>1, <1>2, <1>3, <1>6, <1>8, <1>9

LEMMA OrphanInit == Init => OrphanInv
<1> SUFFICES ASSUME Init PROVE OrphanInv
  OBVIOUS
<1>1. AllSound
  BY SoundInit
<1>2. Careful(NoPass, Spent, Gone, Known) /\ NoPass \in PassRecords
  BY FreshPassCareful DEF Careful
<1> QED BY <1>1, <1>2 DEF Init, OrphanInv, NoInstance, Exists

LEMMA OrphanNext ==
  ASSUME Lives <= 1, Retried = {}, Unreadable = FALSE
  PROVE  OrphanInv /\ [Next]_vars =>
           /\ OrphanInv'
           /\ \A p \in Passes : \A id \in Ids :
                pass'[p] # pass[p] /\ inst'[id] # inst[id] => job[id] = "none"
<1> SUFFICES ASSUME OrphanInv, [Next]_vars
             PROVE  /\ OrphanInv'
                    /\ \A p \in Passes : \A id \in Ids :
                         pass'[p] # pass[p] /\ inst'[id] # inst[id] => job[id] = "none"
  OBVIOUS
<1>1. CASE UNCHANGED vars
  BY <1>1 DEF vars, runs, OrphanInv, AllSound, Careful, Spent, Gone, Known
<1>2. ASSUME NEW id \in Ids,
             \/ Add(id) \/ Begin(id) \/ Suspend(id) \/ End(id) \/ Stop(id) \/ Leave(id)
             \/ RemoveJob(id) \/ Cancel(id) \/ BecomeQuiet(id)
             \/ RetryRead(id) \/ RetryMark(id) \/ Revive(id)
      PROVE  OrphanInv' /\ pass' = pass
  BY <1>2, RunStepOrphans
<1>3. ASSUME NEW p \in Passes,
             \/ \E reconcile \in BOOLEAN : Start(p, reconcile)
             \/ PassStep(p) \/ Abort(p) \/ Clean(p) \/ Drain(p) \/ List(p)
      PROVE  /\ OrphanInv'
             /\ \A q \in Passes : \A id \in Ids :
                  pass'[q] # pass[q] /\ inst'[id] # inst[id] => job[id] = "none"
  BY <1>3, PassStepOrphans
<1> QED BY <1>1, <1>2, <1>3 DEF Next

(* While ids are not used twice and no failed run is retried by hand, a    *)
(* pass of reaper.ts only cancels or deletes what has no job.              *)
THEOREM OnlyOrphans ==
  ASSUME Lives <= 1, Retried = {}, Unreadable = FALSE
  PROVE  Spec => OnlyOrphansTouched
<1>1. OrphanInv /\ [Next]_vars => OrphanInv'
  BY OrphanNext
<1>2. OrphanInv /\ [Next]_vars =>
        [\A p \in Passes : \A id \in Ids :
           pass'[p] # pass[p] /\ inst'[id] # inst[id] => job[id] = "none"]_vars
  BY OrphanNext
<1> QED BY OrphanInit, <1>1, <1>2, PTL DEF Spec, OnlyOrphansTouched


---------------------------------------------------------------------------
(* The life a hash was created in.                                         *)

(* A job that is there and was delivered in this life has its state.       *)
BornInv ==
  /\ born \in [Ids -> Nat]
  /\ \A id \in Ids :
       /\ born[id] <= life[id]
       /\ job[id] # "none" /\ born[id] = life[id] => Exists(inst[id])

Creates(id) == ~Exists(inst[id]) /\ Exists(inst'[id])

(* Of the ticks and the application only a first delivery creates a hash,  *)
(* and none takes one away.                                                *)
LEMMA RunStepCreates ==
  ASSUME OrphanInv, NEW id \in Ids,
         \/ Add(id) \/ Begin(id) \/ Suspend(id) \/ End(id) \/ Stop(id) \/ Leave(id)
         \/ RemoveJob(id) \/ Cancel(id) \/ BecomeQuiet(id)
         \/ RetryRead(id) \/ RetryMark(id) \/ Revive(id)
  PROVE  \A i \in Ids :
           /\ Exists(inst[i]) => Exists(inst'[i])
           /\ Creates(i) => i = id /\ Begin(id)
<1> USE DEF OrphanInv
<1>i. /\ inst \in [Ids -> Instances] /\ inst[id] \in Instances
      /\ retry[id] = "none"
  BY DEF AllSound
<1>1. CASE inst' = inst
  BY <1>1 DEF Creates
<1>2. CASE Begin(id)
  <2>1. Exists(BeginTick(inst[id]))
    BY <1>i DEF BeginTick, Exists, Instances, Live, Terminal
  <2>2. inst' = inst \/ inst' = [inst EXCEPT ![id] = BeginTick(inst[id])]
    BY <1>2 DEF Begin, Write, runs
  <2> QED BY <1>i, <1>2, <2>1, <2>2 DEF Creates
<1>3. CASE Suspend(id)
  <2>1. Exists(UpdateStatus(inst[id], "yielded")) <=> Exists(inst[id])
    BY <1>i DEF UpdateStatus, Exists, Instances
  <2>2. inst' = [inst EXCEPT ![id] = UpdateStatus(inst[id], "yielded")]
    BY <1>3 DEF Suspend, Write
  <2> QED BY <1>i, <2>1, <2>2 DEF Creates
<1>4. CASE End(id) \/ Stop(id) \/ Cancel(id)
  <2>1. PICK s \in Terminal : Terminate(id, s)
    BY <1>4, ReaperAssumption DEF End, Stop, Cancel, Terminal
  <2>2. Exists(Finish(inst[id], s))
    BY <1>i DEF Finish, Exists, Terminal, Instances
  <2> QED BY <1>i, <2>1, <2>2 DEF Terminate, Creates
<1>5. CASE Add(id) \/ Leave(id) \/ RemoveJob(id) \/ BecomeQuiet(id) \/ RetryRead(id)
           \/ RetryMark(id) \/ Revive(id)
  BY <1>i, <1>1, <1>5 DEF Add, Leave, RemoveJob, BecomeQuiet, RetryRead, RetryMark, Revive, runs
<1> QED BY <1>2, <1>3, <1>4, <1>5

LEMMA RunStepBorn ==
  ASSUME Retried = {}, OrphanInv, BornInv, NEW id \in Ids,
         \/ Add(id) \/ Begin(id) \/ Suspend(id) \/ End(id) \/ Stop(id) \/ Leave(id)
         \/ RemoveJob(id) \/ Cancel(id) \/ BecomeQuiet(id)
         \/ RetryRead(id) \/ RetryMark(id) \/ Revive(id)
  PROVE  BornInv' /\ \A i \in Ids : Creates(i) => born[i] < life[i]
<1> USE DEF OrphanInv
<1>c. \A i \in Ids : /\ Exists(inst[i]) => Exists(inst'[i])
                     /\ Creates(i) => i = id /\ Begin(id)
  BY RunStepCreates
<1>1. CASE Add(id)
  <2>1. born' = born /\ inst' = inst
    BY <1>1 DEF Add, runs
  <2>2. \A i \in Ids : /\ life'[i] = IF i = id THEN life[id] + 1 ELSE life[i]
                       /\ i # id => job'[i] = job[i]
    BY <1>1 DEF Add
  <2>3. \A i \in Ids : born[i] \in Nat /\ life[i] \in Nat
    BY DEF BornInv
  <2> QED BY <2>1, <2>2, <2>3 DEF BornInv, Creates
<1>2. CASE Begin(id)
  <2>1. job[id] = "waiting" /\ life' = life
    BY <1>2 DEF Begin
  <2>2. born[id] \in Nat /\ life[id] \in Nat
    BY DEF BornInv
  <2>3. Creates(id) => born[id] < life[id]
    BY <2>1, <2>2 DEF BornInv, Creates
  <2>4. Exists(inst'[id])
    <3>1. CASE Write(id, BeginTick(inst[id]))
      <4>1. Exists(BeginTick(inst[id]))
        BY DEF AllSound, BeginTick, Exists, Instances, Live, Terminal
      <4> QED BY <3>1, <4>1 DEF Write, AllSound
    <3>2. CASE inst[id].status \in Terminal
      BY <1>c, <3>2 DEF Exists, Terminal
    <3> QED BY <1>2, <3>1, <3>2 DEF Begin
  <2>5. born' = born \/ born' = [born EXCEPT ![id] = life[id]]
    BY <1>2 DEF Begin, runs
  <2>6. \A i \in Ids : i # id => born'[i] = born[i] /\ job'[i] = job[i] /\ inst'[i] = inst[i]
    <3>1. inst' = inst \/ inst' = [inst EXCEPT ![id] = BeginTick(inst[id])]
      BY <1>2 DEF Begin, Write, runs
    <3>2. job' = [job EXCEPT ![id] = "running"] \/ job' = [job EXCEPT ![id] = "leaving"]
      BY <1>2 DEF Begin
    <3> QED BY <2>5, <3>1, <3>2 DEF BornInv, AllSound
  <2>7. born' \in [Ids -> Nat] /\ born'[id] <= life[id]
    BY <2>2, <2>5 DEF BornInv
  <2> QED BY <1>c, <2>1, <2>3, <2>4, <2>6, <2>7 DEF BornInv
<1>3. CASE Suspend(id) \/ End(id) \/ Stop(id) \/ Leave(id) \/ RemoveJob(id) \/ Cancel(id)
           \/ BecomeQuiet(id) \/ RetryRead(id) \/ RetryMark(id) \/ Revive(id)
  <2>1. born' = born /\ life' = life
    BY <1>3 DEF Suspend, End, Stop, Leave, RemoveJob, Cancel, BecomeQuiet, RetryRead,
         RetryMark, Revive, runs
  <2>2. \A i \in Ids : job[i] = "none" => job'[i] = "none"
    BY <1>3 DEF Suspend, End, Stop, Leave, RemoveJob, Cancel, BecomeQuiet, RetryRead,
         RetryMark, Revive
  <2>3. \A i \in Ids : ~Creates(i)
    <3>1. ~Begin(id) \/ inst' = inst
      BY <1>3 DEF Begin, Suspend, End, Stop, Leave, RemoveJob, Cancel, BecomeQuiet, RetryRead,
         RetryMark, Revive, runs
    <3> QED BY <1>c, <3>1 DEF Creates
  <2> QED BY <1>c, <2>1, <2>2, <2>3 DEF BornInv
<1> QED BY <1>1, <1>2, <1>3

(* A pass creates nothing, and takes state only from what has no job.      *)
LEMMA PassStepBorn ==
  ASSUME Unreadable = FALSE, OrphanInv, BornInv, NEW p \in Passes,
         \/ \E reconcile \in BOOLEAN : Start(p, reconcile)
         \/ PassStep(p) \/ Abort(p) \/ Clean(p) \/ Drain(p) \/ List(p)
  PROVE  BornInv' /\ \A i \in Ids : ~Creates(i)
<1>1. UNCHANGED <<born, life>>
  BY DEF Start, PassStep, ListActive, LookForJobs, ReadOrphan, CancelOrphan, ListOldest,
         CheckOldest, Remove, Abort, Clean, Drain, List, Load, Heal, RemoveInstances, runs
<1>2. \A i \in Ids : job[i] = "none" => job'[i] = "none"
  BY DEF Start, PassStep, ListActive, LookForJobs, ReadOrphan, CancelOrphan, ListOldest,
         CheckOldest, Remove, Abort, Clean, Drain, List, Load, Heal, OrphanInv
<1>3. \A i \in Ids : inst'[i] # inst[i] => job[i] = "none"
  BY PassStepOrphans
<1>4. \A i \in Ids : ~Creates(i)
  <2>1. CASE CancelOrphan(p)
    <3>1. PICK i : Terminate(i, "cancelled")
      BY <2>1 DEF CancelOrphan
    <3> QED BY <3>1 DEF Terminate, Creates, OrphanInv, AllSound
  <2>2. CASE Remove(p) \/ Heal(p)
    BY <2>2 DEF Remove, Heal, RemoveInstances, Forgotten, NoInstance, Exists, Creates
  <2>3. CASE ~CancelOrphan(p) /\ ~Remove(p) /\ ~Heal(p)
    <3>1. inst' = inst
      BY <2>3 DEF Start, PassStep, List, Load, ListActive, LookForJobs, ReadOrphan, ListOldest,
                  CheckOldest, Abort, Clean, Drain, runs
    <3> QED BY <3>1 DEF Creates
  <2> QED BY <2>1, <2>2, <2>3
<1> QED BY <1>1, <1>2, <1>3, <1>4 DEF BornInv

LEMMA BornNext ==
  ASSUME Lives <= 1, Retried = {}, Unreadable = FALSE
  PROVE  OrphanInv /\ BornInv /\ [Next]_vars =>
           /\ OrphanInv' /\ BornInv'
           /\ \A i \in Ids : Creates(i) => born[i] < life[i]
<1> SUFFICES ASSUME OrphanInv, BornInv, [Next]_vars
             PROVE  /\ OrphanInv' /\ BornInv'
                    /\ \A i \in Ids : Creates(i) => born[i] < life[i]
  OBVIOUS
<1>1. OrphanInv'
  BY OrphanNext
<1>2. CASE UNCHANGED vars
  BY <1>1, <1>2 DEF vars, runs, BornInv, Creates
<1>3. CASE Next
  <2>1. BornInv' /\ \A i \in Ids : Creates(i) => born[i] < life[i]
    BY <1>3, RunStepBorn, PassStepBorn DEF Next
  <2> QED BY <1>1, <2>1
<1> QED BY <1>2, <1>3

(* While ids are not used twice, a run's state is created once: no pass of *)
(* reaper.ts, no clean() or drain() of queue.ts and no self-heal of a      *)
(* listing takes it from under a job that has yet to be delivered, which   *)
(* would run every step again.                                             *)
THEOREM CreatedOnceOnly ==
  ASSUME Lives <= 1, Retried = {}, Unreadable = FALSE
  PROVE  Spec => CreatedOnce
<1>1. Init => BornInv
  BY DEF Init, BornInv
<1>2. OrphanInv /\ BornInv /\ [Next]_vars => OrphanInv' /\ BornInv'
  BY BornNext
<1>3. OrphanInv /\ BornInv /\ [Next]_vars =>
        [\A id \in Ids : ~Exists(inst[id]) /\ Exists(inst'[id]) => born[id] < life[id]]_vars
  BY BornNext DEF Creates
<1> QED BY OrphanInit, <1>1, <1>2, <1>3, PTL DEF Spec, CreatedOnce
=============================================================================
