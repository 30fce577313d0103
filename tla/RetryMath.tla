----------------------------- MODULE RetryMath -----------------------------
(***************************************************************************)
(* The arithmetic of retries: durations (utils/duration.ts), retry         *)
(* policies and backoff (utils/retry.ts), and what the step executor and   *)
(* ctx.retryLater make of them.  Pure functions, no state.                 *)
(*                                                                         *)
(* A value that may be undefined is a set with at most one element, and so *)
(* is the result of a function that may throw.  Fractions are counted in   *)
(* tenths, jitter in percent, durations in milliseconds.  Where options    *)
(* hold a duration it is taken as already parsed.                          *)
(***************************************************************************)
EXTENDS Integers

Optional(S) == {a \in SUBSET S : \A x, y \in a : x = y}

OrElse(a, b) == IF a # {} THEN a ELSE b

(* The value of an optional one, or a default.                             *)
Default(a, value) == IF a = {} THEN value ELSE CHOOSE x \in a : TRUE

Smaller(a, b) == IF a <= b THEN a ELSE b
Larger(a, b) == IF a <= b THEN b ELSE a

---------------------------------------------------------------------------
(* Durations: a number of milliseconds, or a text: a number with or        *)
(* without a unit, or anything else.                                       *)

UnitToMs ==
  [ms |-> 1, s |-> 1000, m |-> 60000, h |-> 3600000, d |-> 86400000, w |-> 604800000]

Number(tenths) == [form |-> "number", tenths |-> tenths, unit |-> {}]
Text(tenths, unit) == [form |-> "text", tenths |-> tenths, unit |-> unit]
OtherText == [form |-> "other", tenths |-> 0, unit |-> {}]

(* What may be given for a duration: a text shows no negative number.      *)
Durations ==
  {input \in [form: {"number", "text", "other"}, tenths: Int, unit: Optional(DOMAIN UnitToMs)] :
     input.form = "text" => input.tenths >= 0}

(* Math.round of tenths, which are not negative here.                      *)
Rounded(tenths) == (tenths + 5) \div 10

ParseDuration(input) ==
  CASE input.form = "number" ->
         IF input.tenths < 0 THEN {} ELSE {Rounded(input.tenths)}
    [] input.form = "text" ->
         LET unit == UnitToMs[Default(input.unit, "ms")]
         IN {IF unit = 1 THEN Rounded(input.tenths) ELSE input.tenths * (unit \div 10)}
    [] OTHER -> {}

(* hasExplicitDurationUnit.                                                *)
HasExplicitUnit(input) == input.form = "text" /\ input.unit # {}

(* ctx.retryLater(first?, second?).  Of one argument, a number or a text   *)
(* with a unit is a delay and any other text a reason.                     *)
RetryLater(first, second) ==
  IF second = {} /\ first = {} THEN {[delay |-> {}, reason |-> {}]}
  ELSE IF second # {} \/ \A input \in first : input.form = "number" \/ HasExplicitUnit(input)
  THEN {[delay |-> {ms}, reason |-> second] : ms \in UNION {ParseDuration(x) : x \in first}}
  ELSE {[delay |-> {}, reason |-> first]}

---------------------------------------------------------------------------
(* Retry policies.  A backoff is a bare delay, a bare type (deprecated) or *)
(* an object; next to it the flat fields of 0.1.x.                         *)

NoBackoff == [type |-> {}, delay |-> {}, jitter |-> {}, maxDelay |-> {}]
NoOptions == [attempts |-> {}, backoff |-> NoBackoff, delay |-> {}, maxDelay |-> {}]

(* Attempts are in tenths; a negative jitter counts as none.               *)
RetryOptions ==
  [attempts: Optional(Nat),
   backoff: [type: Optional({"fixed", "exponential"}), delay: Optional(Nat),
             jitter: Optional(Int), maxDelay: Optional(Nat)],
   delay: Optional(Nat), maxDelay: Optional(Nat)]

(* normalizeBackoff.                                                       *)
BareDelay(ms) == [NoBackoff EXCEPT !.type = {"fixed"}, !.delay = {ms}]
BareType(type) == [NoBackoff EXCEPT !.type = {type}]

DefaultMaxBackoff == 3600000

(* Faulty: jitter is taken as it comes.                                    *)
ResolveRetryUnclamped(step, fallback) ==
  [attempts |-> Larger(1, Default(OrElse(step.attempts, fallback.attempts), 10) \div 10),
   type     |-> Default(OrElse(step.backoff.type, fallback.backoff.type), "fixed"),
   delay    |-> Default(OrElse(OrElse(step.backoff.delay, step.delay),
                               OrElse(fallback.backoff.delay, fallback.delay)), 0),
   jitter   |-> Default(OrElse(step.backoff.jitter, fallback.backoff.jitter), 0),
   maxDelay |-> OrElse(OrElse(step.backoff.maxDelay, step.maxDelay),
                       OrElse(fallback.backoff.maxDelay, fallback.maxDelay))]

(* resolveRetry, field by field: the step's backoff, its flat fields, the  *)
(* worker's backoff, the worker's flat fields, a baseline.                 *)
ResolveRetry(step, fallback) ==
  [attempts |-> Larger(1, Default(OrElse(step.attempts, fallback.attempts), 10) \div 10),
   type     |-> Default(OrElse(step.backoff.type, fallback.backoff.type), "fixed"),
   delay    |-> Default(OrElse(OrElse(step.backoff.delay, step.delay),
                               OrElse(fallback.backoff.delay, fallback.delay)), 0),
   jitter   |-> Smaller(100, Larger(0, Default(OrElse(step.backoff.jitter,
                                                      fallback.backoff.jitter), 0))),
   maxDelay |-> OrElse(OrElse(step.backoff.maxDelay, step.maxDelay),
                       OrElse(fallback.backoff.maxDelay, fallback.maxDelay))]

Policies ==
  [attempts: Nat \ {0}, type: {"fixed", "exponential"}, delay: Nat,
   jitter: 0..100, maxDelay: Optional(Nat)]

(* The delay before jitter.                                                *)
Uncapped(retry, failedAttempt) ==
  IF retry.type = "exponential"
  THEN retry.delay * 2 ^ Larger(0, failedAttempt - 1)
  ELSE retry.delay

Cap(retry) ==
  OrElse(retry.maxDelay,
         IF retry.type = "exponential" THEN {DefaultMaxBackoff} ELSE {})

Base(retry, failedAttempt) ==
  LET delay == Uncapped(retry, failedAttempt)
  IN Smaller(delay, Default(Cap(retry), delay))

(* Faulty: the cap is applied to the random part alone.                    *)
ComputeBackoffLateCap(retry, failedAttempt) ==
  LET base == Uncapped(retry, failedAttempt)
      least == (base * (100 - retry.jitter)) \div 100
  IN IF retry.jitter = 0 THEN {Base(retry, failedAttempt)}
     ELSE least..Larger(least, base - 1)

(* computeBackoff: the delays it may return.  Jitter draws uniformly from  *)
(* the last part of the delay, the end excluded.                           *)
ComputeBackoff(retry, failedAttempt) ==
  LET base == Base(retry, failedAttempt)
      least == (base * (100 - retry.jitter)) \div 100
  IN IF retry.jitter = 0 THEN {base} ELSE least..Larger(least, base - 1)

(* Faulty: the number of attempts is taken for the number of retries.      *)
MayRetryOnceMore(error, configured, retry, settling, attempts) ==
  /\ error \in {"error", "later"}
  /\ \/ error = "later" /\ ~configured /\ ~settling
     \/ attempts <= retry.attempts

(* handleStepError: whether an attempt that ended in `error` may be        *)
(* followed by another.  retryLater polls without a limit unless attempts  *)
(* were configured, but never on a settlement tick.                        *)
MayRetry(error, configured, retry, settling, attempts) ==
  /\ error \in {"error", "later"}
  /\ \/ error = "later" /\ ~configured /\ ~settling
     \/ attempts < retry.attempts

(* The delay to the next attempt: retryLater's own, or the backoff.        *)
NextDelay(error, asked, retry, attempts) ==
  IF error = "later" /\ asked # {} THEN asked ELSE ComputeBackoff(retry, attempts)

=============================================================================
