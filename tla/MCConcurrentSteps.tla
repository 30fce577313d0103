-------------------------- MODULE MCConcurrentSteps --------------------------
(***************************************************************************)
(* Instances of ConcurrentSteps for TLC.                                   *)
(***************************************************************************)
EXTENDS ConcurrentSteps

First == <<"a", 1>>
Second == <<"a", 2>>
Other == <<"b", 1>>

Shape(a, b, sleeps, gaps) ==
  [length |-> [x \in {"a", "b"} |-> IF x = "a" THEN a ELSE b],
   sleeps |-> sleeps, gaps |-> gaps, undoable |-> {First, Second} \ sleeps]

(* Two steps next to one, with nothing but steps; and one after another,   *)
(* where anything may come in between.                                     *)
TrackedShapes ==
  {Shape(2, 1, {}, {}), Shape(2, 0, {First}, {Second}), Shape(2, 0, {Second}, {First, Second})}

(* Two steps with something in between, next to one.                       *)
GappedShape == {Shape(2, 1, {}, {Second})}

(* The first step is retried at once.  The second one only when it asks,   *)
(* with its own delay on the worker's terms; and the other one with the    *)
(* worker's delay, too much jitter and a ceiling of its own.               *)
StepOptions ==
  [k \in Ops |->
     CASE k = First -> [NoOptions EXCEPT !.attempts = {20}, !.backoff = BareDelay(1)]
       [] k = Second -> [NoOptions EXCEPT !.backoff = BareType("exponential"), !.delay = {1}]
       [] OTHER -> [NoOptions EXCEPT !.attempts = {20},
                                     !.backoff = [NoBackoff EXCEPT !.maxDelay = {2}]]]

WorkerOptions ==
  [NoOptions EXCEPT !.backoff = [type |-> {"exponential"}, delay |-> {4}, jitter |-> {120},
                                 maxDelay |-> {}]]

NapTimes == [k \in Ops |-> IF k = First THEN 1 ELSE 0]

(* retryLater(), retryLater("2ms") and retryLater("3").                    *)
Polling == {<<{}, {}>>, <<{Text(20, {"ms"})}, {}>>, <<{Text(30, {})}, {}>>}
=============================================================================
