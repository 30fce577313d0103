----------------------- MODULE ConcurrentStepsProofs -----------------------
(***************************************************************************)
(* The waits of concurrent steps stay within their ceilings, for all retry *)
(* options, processors and numbers of branches.  The arithmetic comes      *)
(* first: what options resolve to, and what a backoff is bounded by.       *)
(***************************************************************************)
EXTENDS ConcurrentSteps, FiniteSetTheorems, TLAPS

LEMMA OptionalType ==
  ASSUME NEW S, NEW a \in Optional(S)
  PROVE  /\ a \subseteq S
         /\ \A x \in a : a = {x} /\ (CHOOSE y \in a : TRUE) = x
  BY DEF Optional

LEMMA DefaultType ==
  ASSUME NEW S, NEW a \in SUBSET S, NEW value \in S
  PROVE  Default(a, value) \in S
  BY DEF Default

LEMMA OrElseType ==
  ASSUME NEW S, NEW a \in Optional(S), NEW b \in Optional(S)
  PROVE  OrElse(a, b) \in Optional(S) /\ OrElse(a, b) \subseteq S
  BY DEF OrElse, Optional

(* Options of any two levels resolve to a policy.                          *)
LEMMA ResolvedType ==
  ASSUME NEW step \in RetryOptions, NEW fallback \in RetryOptions
  PROVE  ResolveRetry(step, fallback) \in Policies
<1> DEFINE attempts == Default(OrElse(step.attempts, fallback.attempts), 10)
           type == Default(OrElse(step.backoff.type, fallback.backoff.type), "fixed")
           delays == OrElse(OrElse(step.backoff.delay, step.delay),
                            OrElse(fallback.backoff.delay, fallback.delay))
           jitter == Default(OrElse(step.backoff.jitter, fallback.backoff.jitter), 0)
           ceiling == OrElse(OrElse(step.backoff.maxDelay, step.maxDelay),
                             OrElse(fallback.backoff.maxDelay, fallback.maxDelay))
<1>1. attempts \in Nat
  <2>1. OrElse(step.attempts, fallback.attempts) \subseteq Nat
    BY OrElseType DEF RetryOptions
  <2> QED BY <2>1, DefaultType
<1>2. type \in {"fixed", "exponential"}
  <2>1. OrElse(step.backoff.type, fallback.backoff.type) \subseteq {"fixed", "exponential"}
    BY OrElseType DEF RetryOptions
  <2> QED BY <2>1, DefaultType
<1>3. Default(delays, 0) \in Nat
  <2>1. /\ OrElse(step.backoff.delay, step.delay) \in Optional(Nat)
        /\ OrElse(fallback.backoff.delay, fallback.delay) \in Optional(Nat)
    BY OrElseType DEF RetryOptions
  <2>2. delays \subseteq Nat
    BY <2>1, OrElseType
  <2> QED BY <2>2, DefaultType
<1>4. jitter \in Int
  BY OrElseType, DefaultType DEF RetryOptions
<1>5. ceiling \in Optional(Nat)
  <2>1. /\ OrElse(step.backoff.maxDelay, step.maxDelay) \in Optional(Nat)
        /\ OrElse(fallback.backoff.maxDelay, fallback.maxDelay) \in Optional(Nat)
    BY OrElseType DEF RetryOptions
  <2> QED BY <2>1, OrElseType
<1>6. Larger(1, attempts \div 10) \in Nat \ {0}
  BY <1>1 DEF Larger
<1>7. Smaller(100, Larger(0, jitter)) \in 0..100
  BY <1>4 DEF Larger, Smaller
<1> HIDE DEF attempts, type, delays, jitter, ceiling
<1>8. ResolveRetry(step, fallback) =
        [attempts |-> Larger(1, attempts \div 10), type |-> type,
         delay |-> Default(delays, 0), jitter |-> Smaller(100, Larger(0, jitter)),
         maxDelay |-> ceiling]
  BY DEF ResolveRetry, attempts, type, delays, jitter, ceiling
<1> QED BY <1>2, <1>3, <1>5, <1>6, <1>7, <1>8 DEF Policies

(* A power of two counts the subsets of a finite set.                      *)
LEMMA PowerType ==
  ASSUME NEW n \in Nat
  PROVE  2 ^ n \in Nat
<1>1. IsFiniteSet(1..n) /\ Cardinality(1..n) = n
  BY FS_Interval
<1>2. IsFiniteSet(SUBSET (1..n)) /\ Cardinality(SUBSET (1..n)) = 2 ^ n
  BY <1>1, FS_SUBSET
<1> QED BY <1>2, FS_CardinalityType

LEMMA BaseType ==
  ASSUME NEW retry \in Policies, NEW n \in Nat
  PROVE  /\ Base(retry, n) \in Nat
         /\ \A cap \in retry.maxDelay : Base(retry, n) <= cap
<1>1. Uncapped(retry, n) \in Nat
  <2>1. Larger(0, n - 1) \in Nat
    BY DEF Larger
  <2>2. 2 ^ Larger(0, n - 1) \in Nat
    BY <2>1, PowerType
  <2> QED BY <2>2 DEF Uncapped, Policies
<1>2. retry.maxDelay \in Optional(Nat)
  BY DEF Policies
<1>3. Cap(retry) \in SUBSET Nat
  BY <1>2, OptionalType DEF Cap, OrElse, DefaultMaxBackoff
<1>4. Default(Cap(retry), Uncapped(retry, n)) \in Nat
  BY <1>1, <1>3, DefaultType
<1>5. ASSUME NEW cap \in retry.maxDelay
      PROVE  Default(Cap(retry), Uncapped(retry, n)) = cap
  BY <1>2, <1>5, OptionalType DEF Default, Cap, OrElse
<1> QED BY <1>1, <1>4, <1>5 DEF Base, Smaller

(* Jitter never takes a delay over its ceiling.                            *)
LEMMA BackoffCapped ==
  ASSUME NEW retry \in Policies, NEW n \in Nat, NEW delay \in ComputeBackoff(retry, n)
  PROVE  /\ delay \in Nat
         /\ \A cap \in retry.maxDelay : delay <= cap
<1> DEFINE base == Base(retry, n)
           least == (base * (100 - retry.jitter)) \div 100
<1>1. base \in Nat /\ \A cap \in retry.maxDelay : base <= cap /\ cap \in Nat
  BY BaseType DEF Policies, Optional
<1>2. retry.jitter \in 0..100
  BY DEF Policies
<1> HIDE DEF base
<1>3. least \in Nat /\ least <= base
  BY <1>1, <1>2
<1>4. delay \in Nat /\ delay <= base
  <2>1. CASE retry.jitter = 0
    BY <2>1, <1>1 DEF ComputeBackoff, base
  <2>2. CASE retry.jitter # 0
    <3>1. delay \in least..Larger(least, base - 1)
      BY <2>2 DEF ComputeBackoff, base
    <3> QED BY <3>1, <1>1, <1>3 DEF Larger
  <2> QED BY <2>1, <2>2
<1> QED BY <1>1, <1>4

---------------------------------------------------------------------------
(* What retryLater is called with parses to numbers of milliseconds.       *)
LEMMA ParsedType ==
  ASSUME NEW input \in Durations
  PROVE  ParseDuration(input) \subseteq Nat
<1>1. /\ input.form \in {"number", "text", "other"} /\ input.tenths \in Int
      /\ input.unit \in Optional(DOMAIN UnitToMs)
      /\ input.form = "text" => input.tenths >= 0
  BY DEF Durations
<1>2. input.tenths >= 0 => Rounded(input.tenths) \in Nat
  BY <1>1 DEF Rounded
<1> DEFINE unit == UnitToMs[Default(input.unit, "ms")]
<1>3. unit \in {1, 1000, 60000, 3600000, 86400000, 604800000}
  <2>1. Default(input.unit, "ms") \in {"ms", "s", "m", "h", "d", "w"}
    BY <1>1 DEF Default, Optional, UnitToMs
  <2> QED BY <2>1 DEF UnitToMs
<1>4. input.tenths >= 0 => input.tenths * (unit \div 10) \in Nat
  <2>1. unit \div 10 \in Nat
    BY <1>3
  <2> HIDE DEF unit
  <2> QED BY <1>1, <2>1
<1> QED BY <1>1, <1>2, <1>4 DEF ParseDuration

LEMMA AskType ==
  ASSUME NEW first \in Optional(Durations), NEW second,
         NEW asked \in RetryLater(first, second)
  PROVE  asked.delay \in SUBSET Nat
<1>1. \A ms \in UNION {ParseDuration(x) : x \in first} : ms \in Nat
  BY ParsedType DEF Optional
<1> QED BY <1>1 DEF RetryLater

---------------------------------------------------------------------------
(* The invariant: a branch at work is at an operation of its own, and a    *)
(* wait it is about to save was asked for.                                 *)

Asked(delay) ==
  \E ask \in Asks : \E asked \in RetryLater(ask[1], ask[2]) : delay = asked.delay

WellPlaced(f, m) ==
  /\ m \in Fragments
  /\ m.at \notin {"idle", "done", "thrown"} => <<f[2], m.i>> \in Ops
  /\ m.at = "save" /\ m.error = "later" => Asked(m.asked)

Placed == \A f \in Slots \X Branches : WellPlaced(f, frag[f])

(* A wait within its ceiling, or one that was asked for.                   *)
Within(k, wait) ==
  \/ \A cap \in Options[k].backoff.maxDelay : wait <= cap
  \/ \E ask \in Asks : \E asked \in RetryLater(ask[1], ask[2]) :
       \E delay \in asked.delay : wait <= delay

StepsInv == TypeOK /\ Placed /\ WaitsWithinCap

LEMMA WaitsDef ==
  WaitsWithinCap <=> \A k \in Ops \ shape.sleeps : Within(k, rec[k].wake)
  BY DEF WaitsWithinCap, Within

LEMMA PolicyType ==
  ASSUME NEW k \in Ops
  PROVE  /\ Policy(k) \in Policies
         /\ Options[k].backoff.maxDelay \subseteq Policy(k).maxDelay
         /\ Options[k].backoff.maxDelay \subseteq Nat
<1>1. Options[k] \in RetryOptions /\ Fallback \in RetryOptions
  BY BranchAssumption
<1>2. \A cap \in Options[k].backoff.maxDelay :
        OrElse(Options[k].backoff.maxDelay, Options[k].maxDelay)
          = Options[k].backoff.maxDelay
  BY DEF OrElse
<1>3. \A cap \in Options[k].backoff.maxDelay :
        Policy(k).maxDelay = Options[k].backoff.maxDelay
  BY <1>2 DEF Policy, ResolveRetry, OrElse
<1> QED BY <1>1, <1>3, ResolvedType DEF Policy, RetryOptions, Optional

(* No wait at all is within any ceiling.                                   *)
LEMMA NoWait ==
  ASSUME NEW k \in Ops
  PROVE  Within(k, 0)
  BY PolicyType DEF Within

LEMMA LessWait ==
  ASSUME NEW k \in Ops, NEW wait \in Nat, Within(k, wait)
  PROVE  Less(wait) \in Nat /\ Within(k, Less(wait))
<1>1. Less(wait) \in Nat /\ Less(wait) <= wait
  BY DEF Less
<1>2. ASSUME NEW ask \in Asks, NEW asked \in RetryLater(ask[1], ask[2])
      PROVE  asked.delay \subseteq Nat
  BY <1>2, AskType, BranchAssumption
<1> QED BY <1>1, <1>2, PolicyType DEF Within

(* The delay to the next attempt is one of the two kinds.                  *)
LEMMA NextDelayWithin ==
  ASSUME NEW k \in Ops, NEW error, NEW asked \in SUBSET Nat, NEW n \in Nat,
         error = "later" => Asked(asked),
         NEW delay \in NextDelay(error, asked, Policy(k), n)
  PROVE  delay \in Nat /\ Within(k, delay)
<1>1. CASE error = "later" /\ asked # {}
  <2>1. delay \in asked /\ Asked(asked)
    BY <1>1 DEF NextDelay
  <2> QED BY <2>1 DEF Asked, Within
<1>2. CASE ~(error = "later" /\ asked # {})
  <2>1. delay \in ComputeBackoff(Policy(k), n)
    BY <1>2 DEF NextDelay
  <2> QED BY <2>1, PolicyType, BackoffCapped DEF Within
<1> QED BY <1>1, <1>2

---------------------------------------------------------------------------
(* Where the steps of a branch leave it and its tick.                      *)

Ticks ==
  [slot: SUBSET Slots, at: {"none", "running", "quiet", "suspend"},
   error: {"none", "yield", "failed"}, resume: SUBSET Nat, regs: SUBSET Ops]

Working(f) == f \in Slots \X Branches /\ frag[f].at \notin {"idle", "done", "thrown"}

LEMMA AtWork ==
  ASSUME StepsInv, NEW f, Working(f)
  PROVE  /\ f \in Slots \X Branches /\ Op(f) \in Ops /\ frag[f] \in Fragments
         /\ WellPlaced(f, frag[f])
  BY DEF StepsInv, Placed, WellPlaced, Working, Op

LEMMA PutPlaced ==
  ASSUME StepsInv, NEW f \in Slots \X Branches, NEW m, WellPlaced(f, m), Put(f, m)
  PROVE  frag' \in [Slots \X Branches -> Fragments] /\ Placed'
<1>1. m \in Fragments
  BY DEF WellPlaced
<1>2. frag' \in [Slots \X Branches -> Fragments]
  BY <1>1 DEF Put, StepsInv, TypeOK
<1>3. ASSUME NEW g \in Slots \X Branches
      PROVE  WellPlaced(g, frag'[g])
  BY <1>3 DEF Put, StepsInv, TypeOK, Placed
<1> QED BY <1>2, <1>3 DEF Placed, WellPlaced, Asked

LEMMA AtOpPlaced ==
  ASSUME StepsInv, NEW f \in Slots \X Branches, NEW i \in Nat \ {0}
  PROVE  WellPlaced(f, AtOp(f[2], i))
<1>1. f[2] \in Branches /\ shape.length[f[2]] \in 0..MaxLength /\ MaxLength \in Nat
  BY BranchAssumption DEF StepsInv, TypeOK
<1>2. AtOp(f[2], i) \in Fragments /\ AtOp(f[2], i).i = i
  BY DEF AtOp, Idle, Fragments
<1>3. AtOp(f[2], i).at \in {"done", "gap", "begin"}
  BY DEF AtOp, Idle
<1>4. AtOp(f[2], i).at # "done" => i \in 1..MaxLength
  BY <1>1 DEF AtOp, Idle
<1> QED BY <1>1, <1>2, <1>3, <1>4 DEF WellPlaced, Ops

LEMMA GoOnType ==
  ASSUME StepsInv, NEW f, Working(f), GoOn(f)
  PROVE  /\ frag' \in [Slots \X Branches -> Fragments] /\ Placed'
         /\ tick' \in Ticks
<1>1. Op(f) \in Ops /\ frag[f].i \in Nat /\ f \in Slots \X Branches
  BY AtWork DEF Fragments
<1>2. WellPlaced(f, AtOp(f[2], frag[f].i + 1))
  BY <1>1, AtOpPlaced
<1>3. Put(f, AtOp(f[2], frag[f].i + 1))
  BY DEF GoOn
<1>4. tick \in Ticks
  BY DEF StepsInv, TypeOK, Ticks
<1>5. Registered(f, tick) \in Ticks
  BY <1>1, <1>4 DEF Registered, Ticks
<1>6. tick' \in {tick, Registered(f, tick), [Registered(f, tick) EXCEPT !.at = "quiet"]}
  BY DEF GoOn
<1>7. [Registered(f, tick) EXCEPT !.at = "quiet"] \in Ticks
  BY <1>5 DEF Ticks
<1> QED BY <1>1, <1>2, <1>3, <1>4, <1>5, <1>6, <1>7, PutPlaced

LEMMA ThrowType ==
  ASSUME StepsInv, NEW f, Working(f),
         NEW error \in {"yield", "failed"}, NEW resume \in SUBSET Nat,
         Throw(f, error, resume)
  PROVE  /\ frag' \in [Slots \X Branches -> Fragments] /\ Placed'
         /\ tick' \in Ticks
<1>1. f \in Slots \X Branches /\ WellPlaced(f, [frag[f] EXCEPT !.at = "thrown"])
  BY AtWork DEF WellPlaced, Fragments
<1>2. Put(f, [frag[f] EXCEPT !.at = "thrown"])
  BY DEF Throw
<1>3. tick \in Ticks
  BY DEF StepsInv, TypeOK, Ticks
<1>4. tick' \in Ticks
  BY <1>3 DEF Throw, Ticks
<1> QED BY <1>1, <1>2, <1>4, PutPlaced

LEMMA StopType ==
  ASSUME StepsInv, NEW f, Working(f),
         \/ FailWith(f)
         \/ \E delay \in Nat : YieldFor(f, delay)
  PROVE  /\ frag' \in [Slots \X Branches -> Fragments] /\ Placed'
         /\ tick' \in Ticks
<1>1. tick.resume \in SUBSET Nat
  BY DEF StepsInv, TypeOK
<1>2. CASE FailWith(f)
  BY <1>1, <1>2, ThrowType DEF FailWith
<1>3. ASSUME NEW delay \in Nat, YieldFor(f, delay)
      PROVE  /\ frag' \in [Slots \X Branches -> Fragments] /\ Placed'
             /\ tick' \in Ticks
  <2>1. Default(tick.resume, delay) \in Nat
    BY <1>1, DefaultType
  <2>2. Shortest(delay) \in SUBSET Nat
    BY <2>1 DEF Shortest, Smaller
  <2> QED BY <1>3, <2>2, ThrowType DEF YieldFor
<1> QED BY <1>2, <1>3

LEMMA StayType ==
  ASSUME StepsInv, NEW f, Working(f), NEW m, WellPlaced(f, m), Put(f, m), UNCHANGED tick
  PROVE  /\ frag' \in [Slots \X Branches -> Fragments] /\ Placed'
         /\ tick' \in Ticks
  BY PutPlaced DEF Working, StepsInv, TypeOK, Ticks

---------------------------------------------------------------------------
(* A branch writes one record at most, and a wait it writes is within.     *)

LEMMA WriteKeeps ==
  ASSUME StepsInv, NEW f, Working(f),
         NEW r \in Records, Within(Op(f), r.wake) \/ Op(f) \in shape.sleeps,
         rec' = [rec EXCEPT ![Op(f)] = r],
         frag' \in [Slots \X Branches -> Fragments], Placed', tick' \in Ticks,
         UNCHANGED <<shape, job, run, handed, crashes>>
  PROVE  StepsInv'
<1>1. Op(f) \in Ops
  BY AtWork
<1>2. rec' \in [Ops -> Records]
  BY <1>1 DEF StepsInv, TypeOK
<1>3. \A k \in Ops \ shape.sleeps : Within(k, rec'[k].wake)
  BY <1>1, WaitsDef DEF StepsInv, TypeOK
<1>4. WaitsWithinCap'
  BY <1>3 DEF WaitsWithinCap, Within
<1>5. TypeOK'
  BY <1>2 DEF StepsInv, TypeOK, Ticks
<1> QED BY <1>4, <1>5 DEF StepsInv

LEMMA ReadKeeps ==
  ASSUME StepsInv, frag' \in [Slots \X Branches -> Fragments], Placed', tick' \in Ticks,
         UNCHANGED <<shape, rec, job, run, handed, crashes>>
  PROVE  StepsInv'
<1>1. TypeOK'
  BY DEF StepsInv, TypeOK, Ticks
<1>2. WaitsWithinCap'
  BY DEF StepsInv, WaitsWithinCap
<1> QED BY <1>1, <1>2 DEF StepsInv

---------------------------------------------------------------------------
(* The steps of a branch.                                                  *)

LEMMA BeginNewKeeps ==
  ASSUME StepsInv, NEW f \in Slots \X Branches, BeginNew(f)
  PROVE  StepsInv'
<1> DEFINE k == Op(f)
<1>1. Working(f) /\ k \in Ops /\ frag[f] \in Fragments /\ frag[f].at = "begin"
  <2>1. Working(f)
    BY DEF Working, BeginNew
  <2> QED BY <2>1, AtWork DEF BeginNew
<1>2. CASE k \in shape.sleeps
  <2>1. Naps[k] \in Nat
    BY <1>1, BranchAssumption
  <2>2. rec' = [rec EXCEPT ![k] = [status |-> "running", attempts |-> 1, wake |-> Naps[k]]]
    BY <1>2 DEF BeginNew
  <2>3. [status |-> "running", attempts |-> 1, wake |-> Naps[k]] \in Records
    BY <2>1 DEF Records
  <2>4. CASE Naps[k] = 0
    <3>1. WellPlaced(f, [frag[f] EXCEPT !.at = "elapse"])
      BY <1>1, AtWork DEF WellPlaced, Fragments
    <3>2. Put(f, [frag[f] EXCEPT !.at = "elapse"]) /\ UNCHANGED tick
      BY <1>2, <2>4 DEF BeginNew
    <3> QED BY <1>1, <1>2, <2>2, <2>3, <3>1, <3>2, StayType, WriteKeeps DEF BeginNew
  <2>5. CASE Naps[k] # 0
    <3>1. YieldFor(f, Naps[k])
      BY <1>2, <2>5 DEF BeginNew
    <3> QED BY <1>1, <1>2, <2>1, <2>2, <2>3, <3>1, StopType, WriteKeeps DEF BeginNew
  <2> QED BY <2>4, <2>5
<1>3. CASE k \notin shape.sleeps
  <2>1. rec' = [rec EXCEPT ![k] = [status |-> "running", attempts |-> 1, wake |-> 0]]
    BY <1>3 DEF BeginNew
  <2>2. [status |-> "running", attempts |-> 1, wake |-> 0] \in Records
    BY DEF Records
  <2>3. WellPlaced(f, [frag[f] EXCEPT !.at = "body", !.attempts = 1])
    BY <1>1, AtWork DEF WellPlaced, Fragments
  <2>4. Put(f, [frag[f] EXCEPT !.at = "body", !.attempts = 1]) /\ UNCHANGED tick
    BY <1>3 DEF BeginNew
  <2> QED BY <1>1, <2>1, <2>2, <2>3, <2>4, StayType, NoWait, WriteKeeps DEF BeginNew
<1> QED BY <1>2, <1>3

LEMMA BeginExistingKeeps ==
  ASSUME StepsInv, NEW f \in Slots \X Branches, BeginExisting(f)
  PROVE  StepsInv'
<1> DEFINE k == Op(f)
           Well == frag' \in [Slots \X Branches -> Fragments] /\ Placed' /\ tick' \in Ticks
<1>1. Working(f) /\ k \in Ops /\ frag[f] \in Fragments /\ frag[f].at = "begin"
  <2>1. Working(f)
    BY DEF Working, BeginExisting
  <2> QED BY <2>1, AtWork DEF BeginExisting
<1>2. rec[k] \in Records
  BY <1>1 DEF StepsInv, TypeOK
<1>3. CASE GoOn(f)
  <2>1. Well
    BY <1>1, <1>3, GoOnType
  <2> QED BY <2>1, ReadKeeps DEF BeginExisting
<1>4. CASE FailWith(f) \/ YieldFor(f, rec[k].wake)
  <2>1. rec[k].wake \in Nat
    BY <1>2 DEF Records
  <2>2. Well
    BY <1>1, <1>4, <2>1, StopType
  <2> QED BY <2>2, ReadKeeps DEF BeginExisting
<1>5. ASSUME UNCHANGED tick,
             \/ Put(f, [frag[f] EXCEPT !.at = "elapse"])
             \/ Put(f, [frag[f] EXCEPT !.at = "claim", !.attempts = rec[k].attempts + 1])
      PROVE  StepsInv'
  <2>1. WellPlaced(f, [frag[f] EXCEPT !.at = "elapse"])
    BY <1>1, AtWork DEF WellPlaced, Fragments
  <2>2. WellPlaced(f, [frag[f] EXCEPT !.at = "claim", !.attempts = rec[k].attempts + 1])
    <3>1. rec[k].attempts + 1 \in Nat
      BY <1>2 DEF Records
    <3> QED BY <1>1, <3>1, AtWork DEF WellPlaced, Fragments
  <2>3. Well
    BY <1>1, <1>5, <2>1, <2>2, StayType
  <2> QED BY <2>3, ReadKeeps DEF BeginExisting
<1> QED BY <1>3, <1>4, <1>5 DEF BeginExisting

LEMMA BodyKeeps ==
  ASSUME StepsInv, NEW f \in Slots \X Branches, GapOver(f) \/ RunBody(f)
  PROVE  StepsInv'
<1>1. Working(f) /\ frag[f] \in Fragments
  <2>1. Working(f)
    BY DEF Working, GapOver, RunBody
  <2> QED BY <2>1, AtWork
<1>2. PICK m : WellPlaced(f, m) /\ Put(f, m)
  <2>1. CASE GapOver(f)
    <3>1. WellPlaced(f, [frag[f] EXCEPT !.at = "begin"])
      BY <1>1, <2>1, AtWork DEF WellPlaced, Fragments, GapOver
    <3> QED BY <2>1, <3>1 DEF GapOver
  <2>2. ASSUME NEW error \in {"none", "error", "fatal"},
               Put(f, [frag[f] EXCEPT !.at = "save", !.error = error])
        PROVE  \E m : WellPlaced(f, m) /\ Put(f, m)
    <3>1. WellPlaced(f, [frag[f] EXCEPT !.at = "save", !.error = error])
      BY <1>1, AtWork DEF WellPlaced, Fragments, Working
    <3> QED BY <2>2, <3>1
  <2>3. ASSUME NEW ask \in Asks, NEW asked \in RetryLater(ask[1], ask[2]),
               Put(f, [frag[f] EXCEPT !.at = "save", !.error = "later", !.asked = asked.delay])
        PROVE  \E m : WellPlaced(f, m) /\ Put(f, m)
    <3>1. asked.delay \in SUBSET Nat
      BY AskType, BranchAssumption
    <3>2. Asked(asked.delay)
      BY DEF Asked
    <3>3. WellPlaced(f, [frag[f] EXCEPT !.at = "save", !.error = "later",
                                        !.asked = asked.delay])
      BY <1>1, <3>1, <3>2, AtWork DEF WellPlaced, Fragments, Working
    <3> QED BY <2>3, <3>3
  <2> QED BY <2>1, <2>2, <2>3 DEF RunBody
<1>3. UNCHANGED <<shape, rec, tick, job, run, handed, crashes>>
  BY DEF GapOver, RunBody
<1>4. frag' \in [Slots \X Branches -> Fragments] /\ Placed' /\ tick' \in Ticks
  BY <1>1, <1>2, <1>3, StayType
<1> QED BY <1>3, <1>4, ReadKeeps

LEMMA ClaimKeeps ==
  ASSUME StepsInv, NEW f \in Slots \X Branches, Claim(f)
  PROVE  StepsInv'
<1> DEFINE k == Op(f)
           r == [rec[k] EXCEPT !.attempts = frag[f].attempts, !.wake = 0]
<1>1. Working(f) /\ k \in Ops /\ frag[f] \in Fragments /\ frag[f].at = "claim"
  <2>1. Working(f)
    BY DEF Working, Claim
  <2> QED BY <2>1, AtWork DEF Claim
<1>2. r \in Records /\ r.wake = 0
  <2>1. rec[k] \in Records /\ frag[f].attempts \in Nat
    BY <1>1 DEF StepsInv, TypeOK, Fragments
  <2> QED BY <2>1 DEF Records
<1>3. rec' = [rec EXCEPT ![k] = r]
  BY <1>1 DEF Claim, StepsInv, TypeOK, Records
<1>4. WellPlaced(f, [frag[f] EXCEPT !.at = "body"])
  BY <1>1, AtWork DEF WellPlaced, Fragments
<1>5. frag' \in [Slots \X Branches -> Fragments] /\ Placed' /\ tick' \in Ticks
  BY <1>1, <1>4, StayType DEF Claim
<1> QED BY <1>1, <1>2, <1>3, <1>5, NoWait, WriteKeeps DEF Claim

LEMMA SaveKeeps ==
  ASSUME StepsInv, NEW f \in Slots \X Branches, Elapse(f) \/ SaveResult(f)
  PROVE  StepsInv'
<1> DEFINE k == Op(f)
<1>1. Working(f) /\ k \in Ops /\ frag[f] \in Fragments
  <2>1. Working(f)
    BY DEF Working, Elapse, SaveResult
  <2> QED BY <2>1, AtWork
<1>2. rec[k] \in Records /\ rec \in [Ops -> Records]
  BY <1>1 DEF StepsInv, TypeOK
<1>3. PICK r \in Records :
        rec' = [rec EXCEPT ![k] = r] /\ (r.wake = 0 \/ r.wake = rec[k].wake)
  <2>1. CASE Elapse(f)
    <3>1. [rec[k] EXCEPT !.status = "completed"] \in Records
      BY <1>2 DEF Records
    <3>2. rec' = [rec EXCEPT ![k] = [rec[k] EXCEPT !.status = "completed"]]
      BY <1>1, <1>2, <2>1 DEF Elapse, Records
    <3> QED BY <1>2, <3>1, <3>2 DEF Records
  <2>2. CASE SaveResult(f)
    <3> DEFINE s == [rec[k] EXCEPT !.status = "completed", !.attempts = frag[f].attempts,
                                   !.wake = 0]
    <3>1. s \in Records /\ s.wake = 0
      BY <1>1, <1>2 DEF Records, Fragments
    <3>2. rec' = [rec EXCEPT ![k] = s]
      BY <1>1, <1>2, <2>2 DEF SaveResult, Records
    <3> QED BY <3>1, <3>2
  <2> QED BY <2>1, <2>2
<1>4. Within(k, r.wake) \/ k \in shape.sleeps
  BY <1>1, <1>2, <1>3, NoWait, WaitsDef DEF StepsInv
<1>5. frag' \in [Slots \X Branches -> Fragments] /\ Placed' /\ tick' \in Ticks
  BY <1>1, GoOnType DEF Elapse, SaveResult
<1>6. UNCHANGED <<shape, job, run, handed, crashes>>
  BY DEF Elapse, SaveResult
<1> QED BY <1>1, <1>3, <1>4, <1>5, <1>6, WriteKeeps

LEMMA SaveErrorKeeps ==
  ASSUME StepsInv, NEW f \in Slots \X Branches, SaveError(f)
  PROVE  StepsInv'
<1> DEFINE k == Op(f)
           m == frag[f]
<1>1. Working(f) /\ k \in Ops /\ m \in Fragments /\ m.at = "save"
  <2>1. Working(f)
    BY DEF Working, SaveError
  <2> QED BY <2>1, AtWork DEF SaveError
<1>2. m.error = "later" => Asked(m.asked)
  BY <1>1, AtWork DEF WellPlaced
<1>3. UNCHANGED <<shape, job, run, handed, crashes>>
  BY DEF SaveError
<1>4. ASSUME NEW delay \in NextDelay(m.error, m.asked, Policy(k), m.attempts),
             rec' = [rec EXCEPT ![k] = [status |-> "running", attempts |-> m.attempts,
                                        wake |-> delay]],
             YieldFor(f, delay)
      PROVE  StepsInv'
  <2>1. delay \in Nat /\ Within(k, delay)
    BY <1>1, <1>2, <1>4, NextDelayWithin DEF Fragments
  <2>2. [status |-> "running", attempts |-> m.attempts, wake |-> delay] \in Records
    BY <1>1, <2>1 DEF Records, Fragments
  <2>3. frag' \in [Slots \X Branches -> Fragments] /\ Placed' /\ tick' \in Ticks
    BY <1>1, <1>4, <2>1, StopType
  <2> QED BY <1>1, <1>3, <1>4, <2>1, <2>2, <2>3, WriteKeeps
<1>5. ASSUME rec' = [rec EXCEPT ![k] = [status |-> "failed", attempts |-> m.attempts,
                                        wake |-> 0]],
             FailWith(f)
      PROVE  StepsInv'
  <2>1. [status |-> "failed", attempts |-> m.attempts, wake |-> 0] \in Records
    BY <1>1 DEF Records, Fragments
  <2>2. frag' \in [Slots \X Branches -> Fragments] /\ Placed' /\ tick' \in Ticks
    BY <1>1, <1>5, StopType
  <2> QED BY <1>1, <1>3, <1>5, <2>1, <2>2, NoWait, WriteKeeps
<1> QED BY <1>4, <1>5 DEF SaveError

---------------------------------------------------------------------------
(* The tick, the job and time.                                             *)

LEMMA TickKeeps ==
  ASSUME StepsInv, \/ \E s \in Slots : Deliver(s)
                   \/ Finish \/ Suspend \/ DelayOver \/ Crash
  PROVE  StepsInv'
<1>t. TypeOK /\ tick \in Ticks /\ NoTick \in Ticks
  BY DEF StepsInv, TypeOK, Ticks, NoTick
<1>1. \A f \in Slots \X Branches : WellPlaced(f, Idle) /\ WellPlaced(f, AtOp(f[2], 1))
  BY AtOpPlaced DEF WellPlaced, Idle, Fragments
<1>2. \A f \in Slots \X Branches : WellPlaced(f, frag[f])
  BY DEF StepsInv, Placed
<1>3. \A f \in Slots \X Branches : frag'[f] \in {Idle, AtOp(f[2], 1), frag[f]}
  BY DEF Deliver, Finish, Suspend, DelayOver, Crash
<1>4. \A f \in Slots \X Branches : WellPlaced(f, frag'[f])
  BY <1>1, <1>2, <1>3
<1>5. Placed'
  BY <1>4 DEF Placed, WellPlaced, Asked
<1>6. frag' \in [Slots \X Branches -> Fragments]
  <2>1. frag' = [f \in Slots \X Branches |-> frag'[f]]
    BY <1>t DEF TypeOK, Deliver, Finish, Suspend, DelayOver, Crash
  <2>2. \A f \in Slots \X Branches : frag'[f] \in Fragments
    BY <1>4 DEF WellPlaced
  <2> QED BY <2>1, <2>2
<1>7. tick' \in Ticks
  <2>1. ASSUME NEW s \in Slots
        PROVE  [NoTick EXCEPT !.slot = {s}, !.at = "running"] \in Ticks
    BY DEF Ticks, NoTick
  <2>2. [NoTick EXCEPT !.at = "suspend", !.resume = tick.resume] \in Ticks
    BY <1>t DEF Ticks, NoTick
  <2>3. \/ tick' \in {tick, NoTick}
        \/ tick' = [NoTick EXCEPT !.at = "suspend", !.resume = tick.resume]
        \/ \E s \in Slots : tick' = [NoTick EXCEPT !.slot = {s}, !.at = "running"]
    BY DEF Deliver, Finish, Suspend, DelayOver, Crash
  <2> QED BY <1>t, <2>1, <2>2, <2>3
<1> DEFINE Jobs == [state: {"waiting", "active", "delayed", "ended"}, due: Nat]
<1>8. job' \in Jobs
  <2>1. Default(tick.resume, 0) \in Nat
    BY <1>t, DefaultType DEF Ticks
  <2>2. job \in Jobs
    BY <1>t DEF TypeOK
  <2>3. \/ job' \in {job, [job EXCEPT !.state = "active"], [job EXCEPT !.state = "waiting"]}
        \/ job' = [state |-> "ended", due |-> 0]
        \/ job' = [state |-> "delayed", due |-> Default(tick.resume, 0)]
    BY DEF Deliver, Finish, Suspend, DelayOver, Crash
  <2> QED BY <2>1, <2>2, <2>3
<1>9. /\ run' \in {"live", "completed", "failed"} /\ handed' \in SUBSET Ops
      /\ crashes' \in Nat
  <2>1. run' \in {run, "completed", "failed"} /\ handed' \in {handed, tick.regs}
    BY DEF Deliver, Finish, Suspend, DelayOver, Crash
  <2>2. crashes' = crashes \/ (crashes > 0 /\ crashes' = crashes - 1)
    BY DEF Deliver, Finish, Suspend, DelayOver, Crash
  <2> QED BY <1>t, <2>1, <2>2 DEF TypeOK, Ticks
<1>10. shape' = shape /\ rec' = rec
  BY DEF Deliver, Finish, Suspend, DelayOver, Crash
<1>11. TypeOK'
  BY <1>t, <1>6, <1>7, <1>8, <1>9, <1>10 DEF TypeOK, Ticks
<1>12. WaitsWithinCap'
  BY <1>10 DEF StepsInv, WaitsWithinCap
<1> QED BY <1>5, <1>11, <1>12 DEF StepsInv

LEMMA TimeKeeps ==
  ASSUME StepsInv, TimePasses
  PROVE  StepsInv'
<1>t. TypeOK
  BY DEF StepsInv
<1>1. \A k \in Ops : rec[k].wake \in Nat /\ Less(rec[k].wake) \in Nat
  BY <1>t DEF TypeOK, Records, Less
<1>2. job' \in [state: {"waiting", "active", "delayed", "ended"}, due: Nat]
  <2>1. Less(job.due) \in Nat
    BY <1>t DEF TypeOK, Less
  <2> QED BY <1>t, <2>1 DEF TimePasses, TypeOK
<1>3. rec' \in [Ops -> Records]
  BY <1>t, <1>1 DEF TimePasses, TypeOK, Records
<1>4. \A k \in Ops : rec'[k].wake = Less(rec[k].wake)
  BY <1>t DEF TimePasses, TypeOK, Records
<1>5. \A k \in Ops \ shape.sleeps : Within(k, rec'[k].wake)
  BY <1>1, <1>4, LessWait, WaitsDef DEF StepsInv
<1>6. UNCHANGED <<shape, frag, tick, run, handed, crashes>>
  BY DEF TimePasses
<1>7. WaitsWithinCap'
  BY <1>5, <1>6 DEF WaitsWithinCap, Within
<1>8. Placed'
  BY <1>6 DEF StepsInv, Placed, WellPlaced, Asked
<1>9. TypeOK'
  BY <1>t, <1>2, <1>3, <1>6 DEF TypeOK
<1> QED BY <1>7, <1>8, <1>9 DEF StepsInv

---------------------------------------------------------------------------
LEMMA StepsInit ==
  ASSUME Init
  PROVE  StepsInv
<1>1. NoRecord \in Records /\ Idle \in Fragments
  BY DEF NoRecord, Records, Idle, Fragments
<1>2. TypeOK
  BY <1>1, BranchAssumption DEF Init, TypeOK, NoTick
<1>3. Placed
  BY <1>1 DEF Init, Placed, WellPlaced, Idle
<1>4. \A k \in Ops \ shape.sleeps : Within(k, rec[k].wake)
  BY NoWait DEF Init, NoRecord
<1> QED BY <1>2, <1>3, <1>4, WaitsDef DEF StepsInv

LEMMA StepsNext ==
  ASSUME StepsInv, [Next]_vars
  PROVE  StepsInv'
<1>1. ASSUME NEW f \in Slots \X Branches, BranchStep(f)
      PROVE  StepsInv'
  BY <1>1, BeginNewKeeps, BeginExistingKeeps, BodyKeeps, ClaimKeeps, SaveKeeps,
     SaveErrorKeeps DEF BranchStep
<1>2. CASE UNCHANGED vars
  BY <1>2 DEF vars, StepsInv, TypeOK, Placed, WellPlaced, Asked, WaitsWithinCap
<1> QED BY <1>1, <1>2, TickKeeps, TimeKeeps DEF Next

(* Every state of the branches, the tick and the job is well typed, and a  *)
(* branch at work is at an operation of its own.                           *)
THEOREM StepsTyped == Spec => []TypeOK
<1>1. StepsInv => TypeOK
  BY DEF StepsInv
<1> QED BY <1>1, StepsInit, StepsNext, PTL DEF Spec

(* No step waits longer than the ceiling of its own options, whatever the  *)
(* worker's options, the jitter and the number of failed attempts, unless  *)
(* its body asked for the wait.                                            *)
THEOREM WaitsCapped == Spec => []WaitsWithinCap
<1>1. StepsInv => WaitsWithinCap
  BY DEF StepsInv
<1> QED BY <1>1, StepsInit, StepsNext, PTL DEF Spec

---------------------------------------------------------------------------
(* What ctx.step's tracking gives: when the branches of a processor make   *)
(* nothing but ctx.step calls, one right after the other, the tick waits   *)
(* for all of them before it decides, whatever they end in.  Then no       *)
(* branch writes after its tick, every completed step is handed to the     *)
(* failure sequence and retry budgets are kept, for all numbers of         *)
(* branches and steps, retry options, ticks and crashes.                   *)
(*                                                                         *)
(* With a sleep, or something else a branch awaits between two steps, none *)
(* of it holds in general: LostRollback.cfg shows it.                      *)

OnlySteps == \A s \in Shapes : s.sleeps = {} /\ s.gaps = {}

Before(f) == {<<f[2], j>> : j \in 1..(frag[f].i - 1)}

(* A branch at work belongs to the tick, and the operations before its own *)
(* are over.                                                               *)
AtWorkOK(f) ==
  /\ Current(f) /\ tick.at \in {"running", "quiet"}
  /\ frag[f].at \in {"begin", "claim", "body", "save"}
  /\ frag[f].i \in 1..shape.length[f[2]]
  /\ \A j \in 1..(frag[f].i - 1) : rec[<<f[2], j>>].status = "completed"
  /\ frag[f].at # "begin" => rec[Op(f)].status = "running"

(* A branch of the tick has registered what it passed; it threw at a step  *)
(* that is not completed, or is at its end.                                *)
OfTickOK(f) ==
  /\ frag[f].at # "idle"
  /\ frag[f].i \in Nat \ {0}
  /\ \A j \in 1..(frag[f].i - 1) : <<f[2], j>> \in shape.undoable => <<f[2], j>> \in tick.regs
  /\ frag[f].at = "thrown" => Op(f) \in Ops /\ rec[Op(f)].status # "completed"
  /\ frag[f].at = "done" => frag[f].i > shape.length[f[2]]

(* A branch begins a step when those before it are over.                   *)
InOrder ==
  \A b \in Branches : \A i \in 1..MaxLength :
    rec[<<b, i>>].status # "none" =>
      /\ i <= shape.length[b]
      /\ \A j \in 1..(i - 1) : rec[<<b, j>>].status = "completed"

TickOK ==
  /\ tick.at \in {"running", "quiet"} => \E s \in Slots : tick.slot = {s}
  /\ tick.at \notin {"running", "quiet"} => tick.slot = {}
  /\ run # "live" => job.state = "ended" /\ tick.at = "none"

Orderly ==
  /\ \A f \in Slots \X Branches : Working(f) => AtWorkOK(f)
  /\ \A f \in Slots \X Branches : Current(f) => OfTickOK(f)
  /\ InOrder /\ TickOK

(* Two branches of the tick are different branches of the processor.       *)
LEMMA OneEach ==
  ASSUME NEW f \in Slots \X Branches, NEW g \in Slots \X Branches,
         Current(f), Current(g), f[2] = g[2]
  PROVE  f = g
<1>1. f[1] = g[1]
  BY DEF Current
<1> QED BY <1>1

(* What a step of a branch does, by where it leaves the branch.            *)
Steady(f) ==
  /\ tick' = tick
  /\ frag'[f].i = frag[f].i
  /\ frag'[f].at \in {"claim", "body", "save"} \ {frag[f].at}
  /\ rec'[Op(f)].status = "running"

Passes(f) == rec'[Op(f)].status = "completed" /\ GoOn(f)

Throws(f) ==
  /\ rec'[Op(f)].status \in {"running", "failed"}
  /\ frag'[f] = [frag[f] EXCEPT !.at = "thrown"]
  /\ tick'.slot = tick.slot /\ tick'.regs = tick.regs
  /\ tick'.at \in {"quiet", tick.at}

LEMMA ThrowsLemma ==
  ASSUME StepsInv, NEW f, Working(f), NEW error, NEW resume,
         Throw(f, error, resume), Current(f)
  PROVE  /\ frag' = [frag EXCEPT ![f] = [frag[f] EXCEPT !.at = "thrown"]]
         /\ tick'.slot = tick.slot /\ tick'.regs = tick.regs
         /\ tick'.at \in {"quiet", tick.at}
<1>1. tick \in Ticks
  BY DEF StepsInv, TypeOK, Ticks
<1> QED BY <1>1 DEF Throw, Put, Ticks

LEMMA BranchMoves ==
  ASSUME OnlySteps, StepsInv, Orderly, NEW f \in Slots \X Branches, BranchStep(f)
  PROVE  /\ Working(f)
         /\ UNCHANGED <<shape, job, run, handed, crashes>>
         /\ \E m : frag' = [frag EXCEPT ![f] = m]
         /\ \E r : rec' = [rec EXCEPT ![Op(f)] = r]
         /\ rec[Op(f)].status = "completed" => rec'[Op(f)] = rec[Op(f)]
         /\ Steady(f) \/ Passes(f) \/ Throws(f)
<1>1. Working(f) /\ AtWorkOK(f)
  <2>1. Working(f)
    BY DEF Working, BranchStep, GapOver, BeginNew, BeginExisting, Claim, Elapse, RunBody,
           SaveResult, SaveError
  <2> QED BY <2>1 DEF Orderly
<1>2. Op(f) \in Ops /\ frag[f] \in Fragments /\ frag \in [Slots \X Branches -> Fragments]
  BY <1>1, AtWork DEF StepsInv, TypeOK
<1>3. rec \in [Ops -> Records] /\ rec[Op(f)] \in Records
  BY <1>2 DEF StepsInv, TypeOK
<1>4. Op(f) \notin shape.sleeps
  BY DEF OnlySteps, StepsInv, TypeOK
<1>5. frag[f].at \in {"begin", "claim", "body", "save"} /\ Current(f)
  BY <1>1 DEF AtWorkOK
<1> DEFINE Goal ==
      /\ UNCHANGED <<shape, job, run, handed, crashes>>
      /\ \E m : frag' = [frag EXCEPT ![f] = m]
      /\ \E r : rec' = [rec EXCEPT ![Op(f)] = r]
      /\ rec[Op(f)].status = "completed" => rec'[Op(f)] = rec[Op(f)]
      /\ Steady(f) \/ Passes(f) \/ Throws(f)
<1>r. rec' = rec => \E r : rec' = [rec EXCEPT ![Op(f)] = r]
  <2>1. rec = [rec EXCEPT ![Op(f)] = rec[Op(f)]]
    BY <1>3
  <2> QED BY <2>1
<1>6. CASE BeginNew(f)
  <2>1. Put(f, [frag[f] EXCEPT !.at = "body", !.attempts = 1]) /\ tick' = tick
    BY <1>4, <1>6 DEF BeginNew
  <2>b. frag[f].at = "begin"
    BY <1>6 DEF BeginNew
  <2>2. rec' = [rec EXCEPT ![Op(f)] = [status |-> "running", attempts |-> 1, wake |-> 0]]
    BY <1>4, <1>6 DEF BeginNew
  <2>3. Steady(f)
    BY <1>2, <1>3, <2>1, <2>2, <2>b DEF Steady, Put, Fragments
  <2> QED BY <1>1, <1>6, <2>1, <2>2, <2>3 DEF BeginNew, Put
<1>7. CASE BeginExisting(f)
  <2>1. /\ rec' = rec /\ UNCHANGED <<shape, job, run, handed, crashes>>
        /\ frag[f].at = "begin"
    BY <1>7 DEF BeginExisting
  <2>2. ASSUME rec[Op(f)].status = "completed", GoOn(f)
        PROVE  Goal
    BY <1>1, <1>r, <2>1, <2>2 DEF Passes, GoOn, Put
  <2>3. ASSUME rec[Op(f)].status \in {"running", "failed"},
               NEW error, NEW resume, Throw(f, error, resume)
        PROVE  Goal
    BY <1>1, <1>2, <1>5, <1>r, <2>1, <2>3, ThrowsLemma DEF Throws
  <2>4. ASSUME rec[Op(f)].status = "running", UNCHANGED tick,
               Put(f, [frag[f] EXCEPT !.at = "claim", !.attempts = rec[Op(f)].attempts + 1])
        PROVE  Goal
    BY <1>2, <1>r, <2>1, <2>4 DEF Steady, Put, Fragments
  <2>5. ASSUME \/ rec[Op(f)].status = "failed" /\ FailWith(f)
               \/ rec[Op(f)].status = "running" /\ YieldFor(f, rec[Op(f)].wake)
        PROVE  Goal
    BY <2>3, <2>5 DEF FailWith, YieldFor
  <2> HIDE DEF Goal
  <2>6. Goal
    BY <1>4, <1>7, <2>2, <2>4, <2>5 DEF BeginExisting
  <2> QED BY <1>1, <2>6 DEF Goal
<1>8. CASE Claim(f)
  <2> DEFINE r == [rec[Op(f)] EXCEPT !.attempts = frag[f].attempts, !.wake = 0]
  <2>1. rec' = [rec EXCEPT ![Op(f)] = r]
    BY <1>2, <1>3, <1>8 DEF Claim, Records
  <2>2. rec[Op(f)].status = "running" /\ r.status = "running"
    BY <1>1, <1>3, <1>8 DEF AtWorkOK, Claim, Records
  <2>3. Steady(f)
    BY <1>2, <1>3, <1>8, <2>1, <2>2 DEF Steady, Claim, Put, Fragments
  <2> QED BY <1>1, <1>8, <2>1, <2>2, <2>3 DEF Claim, Put
<1>9. CASE RunBody(f)
  <2>1. /\ rec' = rec /\ tick' = tick /\ UNCHANGED <<shape, job, run, handed, crashes>>
        /\ \E m : frag' = [frag EXCEPT ![f] = m] /\ m.at = "save" /\ m.i = frag[f].i
    <3>1. /\ rec' = rec /\ tick' = tick /\ UNCHANGED <<shape, job, run, handed, crashes>>
      BY <1>9 DEF RunBody
    <3>2. ASSUME NEW error, Put(f, [frag[f] EXCEPT !.at = "save", !.error = error])
          PROVE  \E m : frag' = [frag EXCEPT ![f] = m] /\ m.at = "save" /\ m.i = frag[f].i
      <4> DEFINE m == [frag[f] EXCEPT !.at = "save", !.error = error]
      <4>1. m.at = "save" /\ m.i = frag[f].i
        BY <1>2 DEF Fragments
      <4>2. frag' = [frag EXCEPT ![f] = m]
        BY <3>2 DEF Put
      <4> HIDE DEF m
      <4> QED BY <4>1, <4>2
    <3>3. ASSUME NEW error, NEW asked,
                 Put(f, [frag[f] EXCEPT !.at = "save", !.error = error, !.asked = asked])
          PROVE  \E m : frag' = [frag EXCEPT ![f] = m] /\ m.at = "save" /\ m.i = frag[f].i
      <4> DEFINE m == [frag[f] EXCEPT !.at = "save", !.error = error, !.asked = asked]
      <4>1. m.at = "save" /\ m.i = frag[f].i
        BY <1>2 DEF Fragments
      <4>2. frag' = [frag EXCEPT ![f] = m]
        BY <3>3 DEF Put
      <4> HIDE DEF m
      <4> QED BY <4>1, <4>2
    <3> QED BY <1>9, <3>1, <3>2, <3>3 DEF RunBody
  <2>2. frag[f].at = "body" /\ rec[Op(f)].status = "running"
    BY <1>1, <1>9 DEF AtWorkOK, RunBody
  <2>3. Steady(f)
    BY <1>2, <2>1, <2>2 DEF Steady
  <2> QED BY <1>1, <1>r, <2>1, <2>3
<1>10. CASE SaveResult(f)
  <2> DEFINE r == [rec[Op(f)] EXCEPT !.status = "completed", !.attempts = frag[f].attempts,
                                     !.wake = 0]
  <2>1. rec' = [rec EXCEPT ![Op(f)] = r] /\ r.status = "completed"
    BY <1>2, <1>3, <1>10 DEF SaveResult, Records
  <2>2. rec[Op(f)].status = "running"
    BY <1>1, <1>10 DEF AtWorkOK, SaveResult
  <2>3. Passes(f)
    BY <1>2, <1>3, <1>10, <2>1 DEF Passes, SaveResult
  <2> QED BY <1>1, <1>10, <2>1, <2>2, <2>3 DEF SaveResult, GoOn, Put
<1>11. CASE SaveError(f)
  <2>1. rec[Op(f)].status = "running"
    BY <1>1, <1>11 DEF AtWorkOK, SaveError
  <2>2. PICK r, error, resume :
          /\ rec' = [rec EXCEPT ![Op(f)] = r] /\ r.status \in {"running", "failed"}
          /\ Throw(f, error, resume)
    BY <1>11 DEF SaveError, YieldFor, FailWith
  <2>3. rec'[Op(f)] = r
    BY <1>2, <1>3, <2>2
  <2>4. Throws(f)
    BY <1>1, <1>2, <1>5, <2>2, <2>3, ThrowsLemma DEF Throws
  <2>5. frag' = [frag EXCEPT ![f] = [frag[f] EXCEPT !.at = "thrown"]]
    BY <2>2 DEF Throw, Put
  <2> QED BY <1>1, <1>11, <2>1, <2>2, <2>4, <2>5 DEF SaveError
<1> QED BY <1>1, <1>5, <1>6, <1>7, <1>8, <1>9, <1>10, <1>11 DEF BranchStep, GapOver, Elapse

---------------------------------------------------------------------------
LEMMA GoOnMoves ==
  ASSUME StepsInv, NEW f, Working(f), Current(f), GoOn(f)
  PROVE  /\ frag'[f] = AtOp(f[2], frag[f].i + 1)
         /\ tick'.slot = tick.slot /\ tick.regs \subseteq tick'.regs
         /\ Op(f) \in shape.undoable => Op(f) \in tick'.regs
         /\ tick'.at \in {"quiet", tick.at}
<1>1. tick \in Ticks /\ frag \in [Slots \X Branches -> Fragments] /\ f \in Slots \X Branches
  BY DEF StepsInv, TypeOK, Ticks, Working
<1>2. /\ Registered(f, tick).slot = tick.slot /\ Registered(f, tick).at = tick.at
      /\ tick.regs \subseteq Registered(f, tick).regs
      /\ Op(f) \in shape.undoable => Op(f) \in Registered(f, tick).regs
      /\ Registered(f, tick) \in Ticks
  BY <1>1, AtWork DEF Registered, Ticks
<1>3. tick' \in {Registered(f, tick), [Registered(f, tick) EXCEPT !.at = "quiet"]}
  BY DEF GoOn
<1>4. frag'[f] = AtOp(f[2], frag[f].i + 1)
  BY <1>1 DEF GoOn, Put
<1> QED BY <1>2, <1>3, <1>4 DEF Ticks

LEMMA BranchOrderly ==
  ASSUME OnlySteps, StepsInv, StepsInv', Orderly, NEW f \in Slots \X Branches, BranchStep(f)
  PROVE  Orderly'
<1>0. /\ Working(f) /\ AtWorkOK(f) /\ Op(f) \in Ops /\ Current(f) /\ OfTickOK(f)
      /\ shape' = shape /\ job' = job /\ run' = run
  <2>1. Working(f) /\ UNCHANGED <<shape, job, run>>
    BY BranchMoves
  <2> QED BY <2>1, AtWork DEF Orderly, AtWorkOK
<1>1. \A g \in Slots \X Branches : g # f => frag'[g] = frag[g]
  <2>1. PICK m : frag' = [frag EXCEPT ![f] = m]
    BY BranchMoves
  <2> QED BY <2>1 DEF StepsInv, TypeOK
<1>2. \A k \in Ops : k # Op(f) => rec'[k] = rec[k]
  <2>1. PICK r : rec' = [rec EXCEPT ![Op(f)] = r]
    BY BranchMoves
  <2> QED BY <2>1 DEF StepsInv, TypeOK
<1>3. Steady(f) \/ Passes(f) \/ Throws(f)
  BY BranchMoves
<1>4. \A k \in Ops : rec[k].status = "completed" => rec'[k].status = "completed"
  BY <1>2, BranchMoves
<1>5. /\ tick'.slot = tick.slot /\ tick.regs \subseteq tick'.regs
      /\ tick'.at \in {"running", "quiet"}
  BY <1>0, <1>3, GoOnMoves DEF Steady, Passes, Throws, AtWorkOK
<1>6. \A g \in Slots \X Branches : Current(g)' <=> Current(g)
  BY <1>5 DEF Current
<1>7. \A g \in Slots \X Branches : Current(g) /\ g # f =>
        /\ g[2] # f[2] /\ \A i \in 1..MaxLength : rec'[<<g[2], i>>] = rec[<<g[2], i>>]
  <2>1. ASSUME NEW g \in Slots \X Branches, Current(g), g # f
        PROVE  g[2] # f[2]
    BY <1>0, <2>1, OneEach
  <2> QED BY <1>2, <2>1 DEF Ops, Op
<1>8. InOrder'
  <2> SUFFICES ASSUME NEW b \in Branches, NEW i \in 1..MaxLength, rec'[<<b, i>>].status # "none"
               PROVE  /\ i <= shape.length[b]
                      /\ \A j \in 1..(i - 1) : rec'[<<b, j>>].status = "completed"
    BY <1>0 DEF InOrder
  <2>1. \A j \in 1..(i - 1) : <<b, j>> \in Ops
    BY BranchAssumption DEF Ops
  <2>2. CASE <<b, i>> = Op(f)
    BY <1>0, <1>4, <2>1, <2>2 DEF AtWorkOK, Op
  <2>3. CASE <<b, i>> # Op(f)
    <3>1. rec[<<b, i>>].status # "none"
      BY <1>2, <2>3 DEF Ops
    <3> QED BY <1>4, <2>1, <3>1 DEF Orderly, InOrder
  <2> QED BY <2>2, <2>3
<1>9. TickOK'
  BY <1>0, <1>5 DEF Orderly, TickOK, AtWorkOK
<1>10. ASSUME NEW g \in Slots \X Branches, g # f, Working(g)'
       PROVE  AtWorkOK(g)'
  <2>1. Working(g) /\ AtWorkOK(g) /\ Current(g)
    BY <1>1, <1>10 DEF Working, Orderly, AtWorkOK
  <2>2. Op(g) \in Ops
    BY <2>1, AtWork
  <2>3. \A i \in 1..MaxLength : rec'[<<g[2], i>>] = rec[<<g[2], i>>]
    BY <1>7, <1>10, <2>1
  <2>4. frag[g].i \in 1..MaxLength
    BY <2>2 DEF Op, Ops
  <2>5. \A j \in 1..(frag[g].i - 1) : rec'[<<g[2], j>>].status = "completed"
    BY <2>1, <2>3, <2>4, BranchAssumption DEF AtWorkOK
  <2> QED BY <1>0, <1>1, <1>5, <1>6, <1>10, <2>1, <2>3, <2>4, <2>5 DEF AtWorkOK, Op
<1>11. ASSUME NEW g \in Slots \X Branches, g # f, Current(g)'
       PROVE  OfTickOK(g)'
  <2>1. Current(g) /\ OfTickOK(g) /\ frag'[g] = frag[g]
    BY <1>1, <1>6, <1>11 DEF Orderly
  <2>2. Op(g) \in Ops => rec'[Op(g)] = rec[Op(g)]
    BY <1>7, <1>11, <2>1 DEF Op, Ops
  <2> QED BY <1>0, <1>5, <2>1, <2>2 DEF OfTickOK, Op
<1>12. OfTickOK(f)' /\ (Working(f)' => AtWorkOK(f)')
  <2>1. frag[f].i \in 1..MaxLength /\ f[2] \in Branches /\ frag[f].i \in Nat /\ Op(f) = <<f[2], frag[f].i>>
    BY <1>0, BranchAssumption DEF Op, Ops
  <2>2. \A j \in 1..(frag[f].i - 1) : <<f[2], j>> \in Ops /\ rec'[<<f[2], j>>].status = "completed"
    BY <1>0, <1>4, <2>1, BranchAssumption DEF AtWorkOK, Ops
  <2>3. CASE Steady(f)
    <3>1. Op(f)' = Op(f)
      BY <2>3 DEF Steady, Op
    <3> QED BY <1>0, <1>5, <1>6, <2>1, <2>2, <2>3, <3>1 DEF Steady, OfTickOK, AtWorkOK
  <2>4. CASE Throws(f)
    <3>1. frag[f] \in Fragments
      BY <1>0, AtWork
    <3>2. frag'[f].at = "thrown" /\ frag'[f].i = frag[f].i
      BY <2>4, <3>1 DEF Throws, Fragments
    <3>3. Op(f)' = Op(f)
      BY <3>2 DEF Op
    <3> QED BY <1>0, <1>5, <2>1, <2>4, <3>2, <3>3 DEF Throws, OfTickOK, Working
  <2>5. CASE Passes(f)
    <3>1. /\ frag'[f] = AtOp(f[2], frag[f].i + 1)
          /\ Op(f) \in shape.undoable => Op(f) \in tick'.regs
      BY <1>0, <2>5, GoOnMoves DEF Passes
    <3>2. shape.gaps = {}
      BY DEF OnlySteps, StepsInv, TypeOK
    <3>3. /\ frag'[f].i = frag[f].i + 1
          /\ frag'[f].at = IF frag[f].i + 1 > shape.length[f[2]] THEN "done" ELSE "begin"
      BY <3>1, <3>2 DEF AtOp, Idle
    <3>4. \A j \in 1..(frag'[f].i - 1) : <<f[2], j>> \in shape.undoable => <<f[2], j>> \in tick'.regs
      <4>1. \A j \in 1..(frag'[f].i - 1) : j \in 1..(frag[f].i - 1) \/ j = frag[f].i
        BY <2>1, <3>3
      <4> QED BY <1>0, <1>5, <2>1, <3>1, <4>1 DEF OfTickOK
    <3>5. \A j \in 1..(frag'[f].i - 1) : rec'[<<f[2], j>>].status = "completed"
      <4>1. \A j \in 1..(frag'[f].i - 1) : j \in 1..(frag[f].i - 1) \/ j = frag[f].i
        BY <2>1, <3>3
      <4> QED BY <2>1, <2>2, <2>5, <4>1 DEF Passes
    <3>6. shape.length[f[2]] \in 0..MaxLength /\ MaxLength \in Nat
      BY <2>1, BranchAssumption DEF StepsInv, TypeOK
    <3>7. OfTickOK(f)'
      BY <1>0, <2>1, <3>3, <3>4, <3>6 DEF OfTickOK
    <3>8. Working(f)' => AtWorkOK(f)'
      BY <1>0, <1>5, <1>6, <2>1, <3>3, <3>5, <3>6 DEF AtWorkOK, Working
    <3> QED BY <3>7, <3>8
  <2> QED BY <1>3, <2>3, <2>4, <2>5
<1> QED BY <1>8, <1>9, <1>10, <1>11, <1>12 DEF Orderly

---------------------------------------------------------------------------
(* The tick decides when no branch is at work.                             *)
LEMMA NobodyAtWork ==
  ASSUME OnlySteps, StepsInv, Orderly, tick.at \notin {"running", "quiet"} \/ Quiescent
  PROVE  \A f \in Slots \X Branches : ~Working(f)
<1> SUFFICES ASSUME NEW f \in Slots \X Branches, Working(f)
             PROVE  FALSE
  OBVIOUS
<1>1. AtWorkOK(f)
  BY DEF Orderly
<1>2. Op(f) \notin shape.sleeps
  BY DEF OnlySteps, StepsInv, TypeOK
<1> QED BY <1>1, <1>2 DEF AtWorkOK, Quiescent, InFlight

LEMMA DeliverOrderly ==
  ASSUME OnlySteps, StepsInv, Orderly, NEW s \in Slots, Deliver(s)
  PROVE  Orderly'
<1>1. /\ tick'.slot = {s} /\ tick'.at = "running" /\ tick'.regs = {}
      /\ rec' = rec /\ shape' = shape /\ run' = run
      /\ run = "live"
  BY DEF Deliver, NoTick, Orderly, TickOK
<1>2. \A f \in Slots \X Branches : ~Working(f)
  BY NobodyAtWork DEF Deliver
<1>3. \A f \in Slots \X Branches :
        frag'[f] = IF f[1] = s THEN AtOp(f[2], 1) ELSE frag[f]
  BY DEF Deliver
<1>4. shape.gaps = {} /\ \A b \in Branches : shape.length[b] \in 0..MaxLength
  BY BranchAssumption DEF OnlySteps, StepsInv, TypeOK
<1>5. ASSUME NEW f \in Slots \X Branches, f[1] = s
      PROVE  /\ frag'[f].i = 1
             /\ frag'[f].at = IF 1 > shape.length[f[2]] THEN "done" ELSE "begin"
  BY <1>3, <1>4, <1>5 DEF AtOp, Idle
<1>6. \A f \in Slots \X Branches : Current(f)' <=> f[1] = s
  BY <1>1 DEF Current
<1>7. ASSUME NEW f \in Slots \X Branches, Working(f)'
      PROVE  AtWorkOK(f)'
  <2>1. f[1] = s
    BY <1>2, <1>3, <1>7 DEF Working
  <2> QED BY <1>1, <1>4, <1>5, <1>6, <1>7, <2>1 DEF AtWorkOK, Working
<1>8. ASSUME NEW f \in Slots \X Branches, Current(f)'
      PROVE  OfTickOK(f)'
  <2>1. f[1] = s
    BY <1>6, <1>8
  <2> QED BY <1>1, <1>4, <1>5, <2>1 DEF OfTickOK
<1>9. InOrder' /\ TickOK'
  BY <1>1 DEF Orderly, InOrder, TickOK
<1> QED BY <1>7, <1>8, <1>9 DEF Orderly

(* When no branch is at work and no tick is open, only the order is left.  *)
LEMMA ClosedOrderly ==
  ASSUME Orderly, tick'.slot = {}, tick'.at \notin {"running", "quiet"},
         \A f \in Slots \X Branches : ~Working(f)',
         shape' = shape, \A k \in Ops : rec'[k].status = rec[k].status,
         run' # "live" => job'.state = "ended" /\ tick'.at = "none"
  PROVE  Orderly'
<1>1. \A f \in Slots \X Branches : ~Current(f)'
  BY DEF Current
<1>2. InOrder'
  <2>1. \A b \in Branches : \A i \in 1..MaxLength : rec'[<<b, i>>].status = rec[<<b, i>>].status
    BY DEF Ops
  <2>2. \A i \in 1..MaxLength : \A j \in 1..(i - 1) : j \in 1..MaxLength
    BY BranchAssumption
  <2> QED BY <2>1, <2>2 DEF Orderly, InOrder
<1> QED BY <1>1, <1>2 DEF Orderly, TickOK

LEMMA TickOrderly ==
  ASSUME OnlySteps, StepsInv, Orderly, Finish \/ Suspend \/ Crash
  PROVE  Orderly'
<1>1. shape' = shape /\ rec' = rec
  BY DEF Finish, Suspend, Crash
<1>2. tick'.slot = {} /\ tick'.at \notin {"running", "quiet"}
  <2>1. tick' \in {NoTick, [NoTick EXCEPT !.at = "suspend", !.resume = tick.resume]}
    BY DEF Finish, Suspend, Crash
  <2>2. NoTick.slot = {} /\ NoTick.at = "none"
    BY DEF NoTick
  <2>3. ASSUME NEW wait
        PROVE  /\ [NoTick EXCEPT !.at = "suspend", !.resume = wait].slot = {}
               /\ [NoTick EXCEPT !.at = "suspend", !.resume = wait].at = "suspend"
    BY DEF NoTick
  <2> QED BY <2>1, <2>2, <2>3
<1>3. \A f \in Slots \X Branches : ~Working(f)'
  <2>1. CASE Crash
    BY <2>1 DEF Crash, Working, Idle
  <2>2. CASE Finish \/ Suspend
    <3>1. \A f \in Slots \X Branches : ~Working(f)
      BY <2>2, NobodyAtWork DEF Finish, Suspend
    <3>2. \A f \in Slots \X Branches : frag'[f] \in {Idle, frag[f]}
      BY <2>2 DEF Finish, Suspend
    <3> QED BY <3>1, <3>2 DEF Working, Idle
  <2> QED BY <2>1, <2>2
<1>4. run' # "live" => job'.state = "ended" /\ tick'.at = "none"
  <2>1. tick.at \in {"quiet", "suspend"} => run = "live"
    BY DEF Orderly, TickOK
  <2>2. job.state = "active" => run = "live"
    BY DEF Orderly, TickOK
  <2> QED BY <2>1, <2>2 DEF Finish, Suspend, Crash, NoTick
<1> QED BY <1>1, <1>2, <1>3, <1>4, ClosedOrderly

LEMMA WaitOrderly ==
  ASSUME OnlySteps, StepsInv, Orderly, DelayOver \/ TimePasses \/ UNCHANGED vars
  PROVE  Orderly'
<1>1. UNCHANGED <<shape, frag, tick, run>>
  BY DEF DelayOver, TimePasses, vars
<1>2. \A k \in Ops : rec'[k].status = rec[k].status
  BY DEF DelayOver, TimePasses, vars, StepsInv, TypeOK, Records
<1>3. \A b \in Branches : \A i \in 1..MaxLength : rec'[<<b, i>>].status = rec[<<b, i>>].status
  BY <1>2 DEF Ops
<1>4. \A i \in 1..MaxLength : \A j \in 1..(i - 1) : j \in 1..MaxLength
  BY BranchAssumption
<1>5. TickOK'
  <2>1. job.state = "ended" => job'.state = "ended"
    BY DEF DelayOver, TimePasses, vars, StepsInv, TypeOK
  <2> QED BY <1>1, <2>1 DEF Orderly, TickOK
<1>6. InOrder'
  BY <1>1, <1>3, <1>4 DEF Orderly, InOrder
<1>7. ASSUME NEW f \in Slots \X Branches, Working(f)'
      PROVE  AtWorkOK(f)'
  <2>1. Working(f) /\ AtWorkOK(f) /\ Op(f) \in Ops
    BY <1>1, <1>7, AtWork DEF Working, Orderly
  <2>2. frag[f].i \in 1..MaxLength /\ f[2] \in Branches
    BY <2>1 DEF Op, Ops
  <2> QED BY <1>1, <1>2, <1>3, <1>4, <2>1, <2>2 DEF AtWorkOK, Op, Current
<1>8. ASSUME NEW f \in Slots \X Branches, Current(f)'
      PROVE  OfTickOK(f)'
  <2>1. OfTickOK(f)
    BY <1>1, <1>8 DEF Orderly, Current
  <2> QED BY <1>1, <1>2, <2>1 DEF OfTickOK, Op
<1> QED BY <1>5, <1>6, <1>7, <1>8 DEF Orderly

LEMMA OrderlyInit ==
  ASSUME Init
  PROVE  Orderly
  BY DEF Init, Orderly, Working, Current, InOrder, TickOK, Idle, NoTick, NoRecord, Ops

LEMMA OrderlyNext ==
  ASSUME OnlySteps, StepsInv, Orderly, [Next]_vars
  PROVE  Orderly'
<1>1. StepsInv'
  BY StepsNext
<1>2. ASSUME NEW f \in Slots \X Branches, BranchStep(f)
      PROVE  Orderly'
  BY <1>1, <1>2, BranchOrderly
<1> QED BY <1>2, DeliverOrderly, TickOrderly, WaitOrderly DEF Next

(* The order the tracking of steps keeps the branches in: the inductive    *)
(* invariant the next theorems rest on.                                    *)
THEOREM StepsInOrder ==
  ASSUME OnlySteps
  PROVE  Spec => [](StepsInv /\ Orderly)
<1>1. Init => StepsInv /\ Orderly
  BY StepsInit, OrderlyInit
<1>2. StepsInv /\ Orderly /\ [Next]_vars => (StepsInv /\ Orderly)'
  BY StepsNext, OrderlyNext
<1> QED BY <1>1, <1>2, PTL DEF Spec

(* No step body runs twice at a time, in whichever ticks.                  *)
THEOREM BodiesAlone ==
  ASSUME OnlySteps
  PROVE  Spec => []BodyAlone
<1>1. ASSUME Orderly, NEW f \in Slots \X Branches, NEW g \in Slots \X Branches,
             frag[f].at = "body", frag[g].at = "body", Op(f) = Op(g)
      PROVE  f = g
  <2>1. Current(f) /\ Current(g)
    BY <1>1 DEF Orderly, Working, AtWorkOK
  <2>2. f[2] = g[2]
    BY <1>1 DEF Op
  <2> QED BY <2>1, <2>2, OneEach
<1>2. Orderly => BodyAlone
  BY <1>1 DEF BodyAlone
<1> QED BY <1>2, StepsInOrder, PTL

(* Once a tick has given up the lock nothing of it writes: a record only   *)
(* changes by a branch of the tick that is open.                           *)
THEOREM NothingAfterTick ==
  ASSUME OnlySteps
  PROVE  Spec => QuietAfterTick
<1> DEFINE Quiet ==
      \A k \in Ops : <<rec'[k].status, rec'[k].attempts>> # <<rec[k].status, rec[k].attempts>> =>
        /\ tick.at \in {"running", "quiet"}
        /\ \E f \in Slots \X Branches : Current(f) /\ Op(f) = k /\ frag'[f] # frag[f]
<1>1. ASSUME StepsInv, Orderly, NEW f \in Slots \X Branches, BranchStep(f)
      PROVE  Quiet
  <2>1. Working(f) /\ AtWorkOK(f)
    BY <1>1, BranchMoves DEF Orderly
  <2>2. PICK r : rec' = [rec EXCEPT ![Op(f)] = r]
    BY <1>1, BranchMoves
  <2>3. \A k \in Ops : k # Op(f) => rec'[k] = rec[k]
    BY <1>1, <2>2 DEF StepsInv, TypeOK
  <2>4. frag'[f] # frag[f]
    <3>1. CASE Steady(f)
      BY <3>1 DEF Steady
    <3>2. CASE Throws(f)
      <4>1. frag'[f].at = "thrown"
        BY <1>1, <2>1, <3>2, AtWork DEF Throws, Fragments
      <4> QED BY <2>1, <4>1 DEF AtWorkOK
    <3>3. CASE Passes(f)
      <4>1. frag'[f] = AtOp(f[2], frag[f].i + 1)
        BY <1>1, <2>1, <3>3, GoOnMoves DEF Passes, AtWorkOK
      <4>2. frag[f].i \in Nat /\ AtOp(f[2], frag[f].i + 1).i = frag[f].i + 1
        BY <1>1, <2>1, AtWork DEF AtOp, Idle, Fragments
      <4> QED BY <4>1, <4>2
    <3> QED BY <1>1, <3>1, <3>2, <3>3, BranchMoves
  <2> QED BY <2>1, <2>3, <2>4 DEF AtWorkOK
<1>2. ASSUME StepsInv, TimePasses
      PROVE  Quiet
  BY <1>2 DEF TimePasses, StepsInv, TypeOK, Records
<1>3. ASSUME Next, rec' # rec
      PROVE  TimePasses \/ \E f \in Slots \X Branches : BranchStep(f)
  BY <1>3 DEF Next, Deliver, Finish, Suspend, DelayOver, Crash
<1>4. StepsInv /\ Orderly /\ [Next]_vars => [Quiet]_vars
  BY <1>1, <1>2, <1>3
<1> QED BY <1>4, StepsInOrder, PTL DEF Spec, QuietAfterTick

---------------------------------------------------------------------------
(* When the tick fails every branch is at its end or at a step that is not *)
(* completed, so what is completed lies behind it and is registered.       *)
LEMMA AllRegistered ==
  ASSUME OnlySteps, StepsInv, Orderly, tick.at = "quiet", Quiescent,
         NEW k \in shape.undoable, rec[k].status = "completed"
  PROVE  k \in tick.regs
<1>1. PICK s \in Slots : tick.slot = {s}
  BY DEF Orderly, TickOK
<1>2. PICK b \in Branches, i \in 1..MaxLength : k = <<b, i>>
  BY BranchAssumption DEF StepsInv, TypeOK, Ops
<1> DEFINE f == <<s, b>>
<1>3. f \in Slots \X Branches /\ Current(f) /\ f[2] = b
  BY <1>1 DEF Current
<1>4. OfTickOK(f) /\ ~Working(f) /\ frag[f] \in Fragments
  BY <1>3, NobodyAtWork DEF Orderly, StepsInv, TypeOK
<1>5. i <= shape.length[b] /\ \A j \in 1..(i - 1) : rec[<<b, j>>].status = "completed"
  BY <1>2 DEF Orderly, InOrder
<1> HIDE DEF f
<1>6. frag[f].at \in {"done", "thrown"}
  BY <1>3, <1>4 DEF Working, OfTickOK
<1>7. shape.length[b] \in Nat /\ MaxLength \in Nat
  BY BranchAssumption DEF StepsInv, TypeOK
<1>8. i < frag[f].i
  <2>1. CASE frag[f].at = "done"
    BY <1>3, <1>4, <1>5, <1>7, <2>1 DEF OfTickOK
  <2>2. CASE frag[f].at = "thrown"
    <3>1. rec[<<b, frag[f].i>>].status # "completed"
      BY <1>3, <1>4, <2>2 DEF OfTickOK, Op
    <3>2. frag[f].i # i
      BY <1>2, <3>1
    <3>3. frag[f].i \notin 1..(i - 1)
      BY <1>5, <3>1
    <3> QED BY <1>4, <3>2, <3>3 DEF OfTickOK
  <2> QED BY <1>6, <2>1, <2>2
<1>9. i \in 1..(frag[f].i - 1)
  BY <1>4, <1>8 DEF OfTickOK
<1> QED BY <1>2, <1>3, <1>4, <1>9 DEF OfTickOK

(* A run that has failed gave the rollback of every completed step to its  *)
(* failure sequence, whichever branch and tick completed it.               *)
THEOREM RollbacksHanded ==
  ASSUME OnlySteps
  PROVE  Spec => []RollbacksComplete
<1>1. Init => RollbacksComplete
  BY DEF Init, RollbacksComplete
<1>2. ASSUME StepsInv, Orderly, RollbacksComplete, [Next]_vars
      PROVE  RollbacksComplete'
  <2>1. CASE Finish
    <3>1. rec' = rec /\ shape' = shape /\ tick.at = "quiet" /\ Quiescent
      BY <2>1 DEF Finish
    <3>2. run = "live"
      BY <1>2, <3>1 DEF Orderly, TickOK
    <3>3. run' = "failed" => handed' = tick.regs
      BY <2>1, <3>2 DEF Finish
    <3> QED BY <1>2, <3>1, <3>3, AllRegistered DEF RollbacksComplete
  <2>2. ASSUME NEW f \in Slots \X Branches, BranchStep(f)
        PROVE  RollbacksComplete'
    <3>1. Working(f) /\ run' = run
      BY <1>2, <2>2, BranchMoves
    <3>2. tick.at \in {"running", "quiet"}
      BY <1>2, <3>1 DEF Orderly, AtWorkOK
    <3>3. run = "live"
      BY <1>2, <3>2 DEF Orderly, TickOK
    <3> QED BY <3>1, <3>3 DEF RollbacksComplete
  <2>3. CASE \/ \E s \in Slots : Deliver(s)
             \/ Suspend \/ DelayOver \/ TimePasses \/ Crash \/ UNCHANGED vars
    <3>1. run' = run /\ handed' = handed /\ shape' = shape
      BY <2>3 DEF Deliver, Suspend, DelayOver, TimePasses, Crash, vars
    <3>2. \A k \in Ops : rec'[k].status = rec[k].status
      <4>1. rec' = rec \/ TimePasses
        BY <2>3 DEF Deliver, Suspend, DelayOver, Crash, vars
      <4> QED BY <1>2, <4>1 DEF TimePasses, StepsInv, TypeOK, Records
    <3>3. shape.undoable \subseteq Ops
      BY <1>2, BranchAssumption DEF StepsInv, TypeOK
    <3> QED BY <1>2, <3>1, <3>2, <3>3 DEF RollbacksComplete
  <2> QED BY <1>2, <2>1, <2>2, <2>3 DEF Next
<1> QED BY <1>1, <1>2, StepsInOrder, PTL DEF Spec

---------------------------------------------------------------------------
(* Retry budgets.  An attempt is claimed for any running record whose wait *)
(* is over.  Such a record has an attempt to spare: its last attempt asked *)
(* for another, which its policy allowed, or was cut short by a crash.     *)

Limit(k) == Larger(Policy(k).attempts, IF NoLimit(k) THEN Polls + 1 ELSE 1)
Top(k) == Limit(k) + (Crashes - crashes)

InBody(k) ==
  \E f \in Slots \X Branches : Working(f) /\ frag[f].at \in {"body", "save"} /\ Op(f) = k

Spare ==
  \A k \in Ops : rec[k].status = "running" => InBody(k) \/ rec[k].attempts < Top(k)

HeldOK(f) ==
  /\ frag[f].at \in {"claim", "body", "save"} => frag[f].attempts <= Top(Op(f))
  /\ frag[f].at = "save" /\ frag[f].error = "later" => frag[f].attempts <= Polls

Budgets ==
  /\ crashes <= Crashes
  /\ \A k \in Ops : rec[k].attempts <= Top(k)
  /\ Spare
  /\ \A f \in Slots \X Branches : Working(f) => HeldOK(f)

LEMMA LimitType ==
  ASSUME StepsInv, NEW k \in Ops
  PROVE  /\ Limit(k) \in Nat /\ Limit(k) >= Policy(k).attempts /\ Limit(k) >= 1
         /\ ~Configured(k) => Limit(k) > Polls
         /\ Polls \in Nat /\ Crashes \in Nat /\ crashes \in Nat
         /\ Policy(k).attempts \in Nat \ {0}
<1>1. Policy(k).attempts \in Nat \ {0}
  BY PolicyType DEF Policies
<1>2. Polls \in Nat /\ Crashes \in Nat /\ crashes \in Nat
  BY BranchAssumption DEF StepsInv, TypeOK
<1>3. ~Configured(k) => NoLimit(k)
  BY DEF Configured, NoLimit, OrElse
<1> QED BY <1>1, <1>2, <1>3 DEF Limit, Larger

(* The tops stay where they are unless the process dies.                   *)
LEMMA SameTop ==
  ASSUME crashes' = crashes
  PROVE  \A k : Top(k)' = Top(k)
  BY DEF Top, Limit, Policy, NoLimit

LEMMA BranchBudgets ==
  ASSUME OnlySteps, StepsInv, Orderly, Budgets, NEW f \in Slots \X Branches, BranchStep(f),
         rec'[Op(f)].attempts <= Top(Op(f)),
         rec'[Op(f)].status = "running" =>
           \/ frag'[f].at \in {"body", "save"} /\ Op(f)' = Op(f)
           \/ rec'[Op(f)].attempts < Top(Op(f)),
         HeldOK(f)'
  PROVE  Budgets'
<1>1. /\ Working(f) /\ crashes' = crashes
      /\ \E m : frag' = [frag EXCEPT ![f] = m]
      /\ \E r : rec' = [rec EXCEPT ![Op(f)] = r]
  BY BranchMoves
<1>2. \A g \in Slots \X Branches : g # f => frag'[g] = frag[g]
  BY <1>1 DEF StepsInv, TypeOK
<1>3. \A k \in Ops : k # Op(f) => rec'[k] = rec[k]
  BY <1>1 DEF StepsInv, TypeOK
<1>4. \A k : Top(k)' = Top(k)
  BY <1>1, SameTop
<1>5. \A k \in Ops : rec'[k].attempts <= Top(k)'
  BY <1>3, <1>4 DEF Budgets
<1>6. Spare'
  <2> SUFFICES ASSUME NEW k \in Ops, rec'[k].status = "running"
               PROVE  InBody(k)' \/ rec'[k].attempts < Top(k)'
    BY DEF Spare
  <2>1. CASE k = Op(f)
    BY <1>4, <2>1 DEF InBody, Working
  <2>2. CASE k # Op(f)
    <3>1. InBody(k) => InBody(k)'
      BY <1>2, <2>2 DEF InBody, Working, Op
    <3> QED BY <1>3, <1>4, <2>2, <3>1 DEF Budgets, Spare
  <2> QED BY <2>1, <2>2
<1>7. ASSUME NEW g \in Slots \X Branches, Working(g)'
      PROVE  HeldOK(g)'
  <2>1. CASE g # f
    <3>1. Working(g) /\ HeldOK(g)
      BY <1>2, <1>7, <2>1 DEF Working, Budgets
    <3> QED BY <1>2, <1>4, <2>1, <3>1 DEF HeldOK, Op
  <2> QED BY <2>1
<1> QED BY <1>1, <1>5, <1>6, <1>7 DEF Budgets

LEMMA StepBudgets ==
  ASSUME OnlySteps, StepsInv, Orderly, Budgets, NEW f \in Slots \X Branches, BranchStep(f)
  PROVE  Budgets'
<1> DEFINE k == Op(f)
<1>1. /\ Working(f) /\ AtWorkOK(f) /\ HeldOK(f) /\ k \in Ops /\ crashes' = crashes
      /\ frag[f] \in Fragments /\ rec[k] \in Records /\ k \notin shape.sleeps
      /\ frag \in [Slots \X Branches -> Fragments] /\ rec \in [Ops -> Records]
  <2>1. Working(f) /\ crashes' = crashes
    BY BranchMoves
  <2> QED BY <2>1, AtWork DEF Orderly, Budgets, StepsInv, TypeOK, OnlySteps
<1>t. /\ rec[k].attempts <= Top(k) /\ Top(k) >= 1
      /\ Top(k) \in Int /\ Top(k) >= Limit(k)
      /\ frag[f].attempts \in Nat
  <2>1. crashes <= Crashes /\ rec[k].attempts <= Top(k)
    BY <1>1 DEF Budgets
  <2> QED BY <1>1, <2>1, LimitType DEF Top, Fragments
<1>2. \A j : Top(j)' = Top(j)
  BY <1>1, SameTop
<1>m. ASSUME NEW m, Put(f, m)
      PROVE  frag'[f] = m
  BY <1>1, <1>m DEF Put
<1>g. GoOn(f) => HeldOK(f)'
  <2>1. ASSUME GoOn(f)
        PROVE  frag'[f].at \in {"done", "gap", "begin"}
    BY <1>1, <1>m, <2>1 DEF GoOn, AtOp, Idle
  <2> QED BY <2>1 DEF HeldOK
<1>h. ASSUME NEW error, NEW resume, Throw(f, error, resume)
      PROVE  HeldOK(f)'
  BY <1>1, <1>m, <1>h DEF Throw, HeldOK, Fragments
<1>3. CASE BeginNew(f)
  <2>1. Put(f, [frag[f] EXCEPT !.at = "body", !.attempts = 1])
    BY <1>1, <1>3 DEF BeginNew
  <2>2. rec' = [rec EXCEPT ![k] = [status |-> "running", attempts |-> 1, wake |-> 0]]
    BY <1>1, <1>3 DEF BeginNew
  <2>3. frag'[f].at = "body" /\ frag'[f].attempts = 1 /\ k' = k
    BY <1>1, <1>m, <2>1 DEF Fragments, Op
  <2>4. rec'[k].attempts = 1
    BY <1>1, <2>2
  <2> QED BY <1>t, <1>2, <2>3, <2>4, BranchBudgets DEF HeldOK
<1>4. CASE BeginExisting(f)
  <2>1. rec' = rec /\ frag[f].at = "begin"
    BY <1>4 DEF BeginExisting
  <2>2. rec[k].status = "running" => rec[k].attempts < Top(k)
    <3>1. ~InBody(k)
      <4> SUFFICES ASSUME NEW g \in Slots \X Branches, Working(g), Op(g) = k,
                          frag[g].at \in {"body", "save"}
                   PROVE  FALSE
        BY DEF InBody
      <4>1. Current(f) /\ Current(g) /\ f[2] = g[2]
        BY <1>1 DEF Orderly, AtWorkOK, Op
      <4> QED BY <2>1, <4>1, OneEach
    <3> QED BY <1>1, <3>1 DEF Budgets, Spare
  <2>3. CASE Put(f, [frag[f] EXCEPT !.at = "claim", !.attempts = rec[k].attempts + 1])
             /\ rec[k].status = "running"
    <3>1. /\ frag'[f].at = "claim" /\ frag'[f].attempts = rec[k].attempts + 1 /\ k' = k
      BY <1>1, <1>m, <2>3 DEF Fragments, Op
    <3>2. frag'[f].attempts <= Top(k)
      BY <1>1, <1>t, <2>2, <2>3, <3>1 DEF Records
    <3>3. HeldOK(f)'
      BY <1>2, <3>1, <3>2 DEF HeldOK
    <3> QED BY <1>t, <2>1, <2>2, <3>3, BranchBudgets
  <2>4. HeldOK(f)' \/ (Put(f, [frag[f] EXCEPT !.at = "claim", !.attempts = rec[k].attempts + 1])
                        /\ rec[k].status = "running")
    BY <1>1, <1>4, <1>g, <1>h DEF BeginExisting, FailWith, YieldFor
  <2> QED BY <1>t, <2>1, <2>2, <2>3, <2>4, BranchBudgets
<1>5. CASE Claim(f)
  <2>1. frag[f].at = "claim" /\ frag[f].attempts <= Top(k)
    BY <1>1, <1>5 DEF Claim, HeldOK
  <2>2. frag'[f].at = "body" /\ frag'[f].attempts = frag[f].attempts /\ k' = k
    BY <1>1, <1>5, <1>m DEF Claim, Fragments, Op
  <2>3. rec'[k].attempts = frag[f].attempts
    BY <1>1, <1>5 DEF Claim, Records
  <2> QED BY <1>2, <2>1, <2>2, <2>3, BranchBudgets DEF HeldOK
<1>6. CASE RunBody(f)
  <2>1. rec' = rec /\ frag[f].at = "body" /\ frag[f].attempts <= Top(k)
    BY <1>1, <1>6 DEF RunBody, HeldOK
  <2>2. /\ frag'[f].at = "save" /\ frag'[f].attempts = frag[f].attempts /\ k' = k
        /\ frag'[f].error = "later" => frag[f].attempts <= Polls
    BY <1>1, <1>6, <1>m DEF RunBody, Fragments, Op
  <2> QED BY <1>t, <1>2, <2>1, <2>2, BranchBudgets DEF HeldOK
<1>7. CASE SaveResult(f)
  <2>1. frag[f].attempts <= Top(k)
    BY <1>1, <1>7 DEF SaveResult, HeldOK
  <2>2. rec'[k].attempts = frag[f].attempts /\ rec'[k].status = "completed"
    BY <1>1, <1>7 DEF SaveResult, Records
  <2>3. HeldOK(f)'
    BY <1>7, <1>g DEF SaveResult
  <2> QED BY <2>1, <2>2, <2>3, BranchBudgets
<1>8. CASE SaveError(f)
  <2> DEFINE m == frag[f]
             retried == MayRetry(m.error, Configured(k), Policy(k), FALSE, m.attempts)
  <2>1. m.attempts <= Top(k) /\ (m.error = "later" => m.attempts <= Polls)
    BY <1>1, <1>8 DEF SaveError, HeldOK
  <2>2. retried => m.attempts < Top(k)
    BY <1>1, <1>t, <2>1, LimitType DEF MayRetry
  <2>3. HeldOK(f)'
    BY <1>8, <1>h DEF SaveError, YieldFor, FailWith
  <2>4. /\ rec'[k].attempts = m.attempts
        /\ rec'[k].status = "running" => retried
    <3>1. ASSUME NEW r, rec' = [rec EXCEPT ![k] = r]
          PROVE  rec'[k] = r
      BY <1>1, <3>1
    <3> HIDE DEF m, retried
    <3>2. CASE ~retried
      <4>1. rec' = [rec EXCEPT ![k] = [status |-> "failed", attempts |-> m.attempts, wake |-> 0]]
        BY <1>8, <3>2 DEF SaveError, m, retried
      <4>2. rec'[k] = [status |-> "failed", attempts |-> m.attempts, wake |-> 0]
        BY <3>1, <4>1
      <4>3. rec'[k].status = "failed" /\ rec'[k].attempts = m.attempts
        BY <4>2
      <4> QED BY <4>3
    <3>3. CASE retried
      <4>1. PICK delay : rec' = [rec EXCEPT ![k] = [status |-> "running",
                                                    attempts |-> m.attempts, wake |-> delay]]
        BY <1>8, <3>3 DEF SaveError, m, retried
      <4> QED BY <3>1, <3>3, <4>1
    <3> QED BY <3>2, <3>3
  <2> QED BY <2>1, <2>2, <2>3, <2>4, BranchBudgets
<1> QED BY <1>1, <1>3, <1>4, <1>5, <1>6, <1>7, <1>8 DEF BranchStep, GapOver, Elapse, AtWorkOK

LEMMA CrashBudgets ==
  ASSUME StepsInv, Budgets, Crash
  PROVE  Budgets'
<1>1. rec' = rec /\ crashes' = crashes - 1
  BY DEF Crash
<1>2. \A f \in Slots \X Branches : ~Working(f)'
  BY DEF Crash, Working, Idle
<1>3. ASSUME NEW k \in Ops
      PROVE  rec[k].attempts < Top(k)'
  <2>1. Limit(k)' = Limit(k)
    BY DEF Limit, Policy, NoLimit
  <2>2. rec[k].attempts <= Top(k) /\ rec[k].attempts \in Nat
    BY DEF Budgets, StepsInv, TypeOK, Records
  <2> QED BY <1>1, <2>1, <2>2, LimitType DEF Top
<1>4. ASSUME NEW k \in Ops
      PROVE  rec[k].attempts <= Top(k)'
  <2>1. rec[k].attempts < Top(k)' /\ rec[k].attempts \in Nat
    BY <1>3 DEF StepsInv, TypeOK, Records
  <2>2. Top(k)' \in Int
    BY <1>1, LimitType DEF Top, Limit, Policy, NoLimit
  <2> QED BY <2>1, <2>2
<1>5. crashes' <= Crashes
  BY <1>1, BranchAssumption DEF Budgets, StepsInv, TypeOK
<1> QED BY <1>1, <1>2, <1>3, <1>4, <1>5 DEF Budgets, Spare

LEMMA CalmBudgets ==
  ASSUME OnlySteps, StepsInv, Orderly, Budgets,
         \/ \E s \in Slots : Deliver(s)
         \/ Finish \/ Suspend \/ DelayOver \/ TimePasses \/ UNCHANGED vars
  PROVE  Budgets'
<1>1. crashes' = crashes
  BY DEF Deliver, Finish, Suspend, DelayOver, TimePasses, vars
<1>2. \A k : Top(k)' = Top(k)
  BY <1>1, SameTop
<1>3. \A k \in Ops : rec'[k].status = rec[k].status /\ rec'[k].attempts = rec[k].attempts
  <2>1. rec' = rec \/ TimePasses
    BY DEF Deliver, Finish, Suspend, DelayOver, vars
  <2> QED BY <2>1 DEF TimePasses, StepsInv, TypeOK, Records
<1>4. CASE DelayOver \/ TimePasses \/ UNCHANGED vars
  <2>1. frag' = frag
    BY <1>4 DEF DelayOver, TimePasses, vars
  <2>2. \A k \in Ops : InBody(k)' <=> InBody(k)
    BY <2>1 DEF InBody, Working, Op
  <2> QED BY <1>1, <1>2, <1>3, <2>1, <2>2 DEF Budgets, Spare, HeldOK, Working, Op
<1>5. CASE (\E s \in Slots : Deliver(s)) \/ Finish \/ Suspend
  <2>1. \A f \in Slots \X Branches : ~Working(f)
    BY <1>5, NobodyAtWork DEF Deliver, Finish, Suspend
  <2>2. \A f \in Slots \X Branches : frag'[f] \in {Idle, AtOp(f[2], 1), frag[f]}
    BY <1>5 DEF Deliver, Finish, Suspend
  <2>3. \A f \in Slots \X Branches :
          Working(f)' => frag'[f].at \in {"begin", "gap"}
    <3>1. \A b : AtOp(b, 1).at \in {"done", "gap", "begin"} /\ Idle.at = "idle"
      BY DEF AtOp, Idle
    <3> QED BY <2>1, <2>2, <3>1 DEF Working
  <2>4. \A k \in Ops : ~InBody(k)
    BY <2>1 DEF InBody
  <2> QED BY <1>1, <1>2, <1>3, <2>3, <2>4 DEF Budgets, Spare, HeldOK
<1> QED BY <1>4, <1>5

(* A step's body is tried as often as its policy says and once more for    *)
(* each crash that cut it short, however its siblings yield or fail.       *)
THEOREM BudgetsKept ==
  ASSUME OnlySteps
  PROVE  Spec => []AttemptsKept
<1>1. Init => Budgets
  <2> SUFFICES ASSUME Init
               PROVE  Budgets
    OBVIOUS
  <2>1. StepsInv /\ crashes = Crashes
    BY StepsInit DEF Init
  <2>2. \A k \in Ops : rec[k].status = "none" /\ rec[k].attempts = 0
    BY DEF Init, NoRecord
  <2>3. \A f \in Slots \X Branches : ~Working(f)
    BY DEF Init, Working, Idle
  <2>4. \A k \in Ops : rec[k].attempts <= Top(k)
    BY <2>1, <2>2, LimitType DEF Top
  <2> QED BY <2>1, <2>2, <2>3, <2>4, BranchAssumption DEF Budgets, Spare
<1>2. StepsInv /\ Orderly /\ Budgets /\ [Next]_vars => Budgets'
  <2>1. ASSUME StepsInv, Orderly, Budgets, NEW f \in Slots \X Branches, BranchStep(f)
        PROVE  Budgets'
    BY <2>1, StepBudgets
  <2> QED BY <2>1, CrashBudgets, CalmBudgets DEF Next
<1>3. Budgets => AttemptsKept
  BY DEF Budgets, AttemptsKept, Top, Limit
<1> QED BY <1>1, <1>2, <1>3, StepsInOrder, PTL DEF Spec

=============================================================================
