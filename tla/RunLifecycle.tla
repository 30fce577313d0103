---------------------------- MODULE RunLifecycle ----------------------------
(***************************************************************************)
(* What a durable run promises to whoever wrote its processor, with no     *)
(* workers, jobs, locks or crashes in sight: steps complete in order; the  *)
(* run then either completes, or gives up once and for all, undoes the     *)
(* completed steps newest first, and fails.                                *)
(***************************************************************************)
EXTENDS Naturals

CONSTANTS
  N, Undoable, Optional,  \* steps 1..N, those with an undo, those that may fail
  Handled                 \* whether a failing run does anything else before it ends

VARIABLES
  phase,    \* "new", "forward", "undoing", or how the run ended
  done,     \* the completed steps
  undo      \* what became of each undo: "no", "yes" or "lost"

rvars == <<phase, done, undo>>

Phases == {"new", "forward", "undoing", "completed", "failed", "compensation_failed"}

RunTypeOK ==
  /\ phase \in Phases
  /\ done \subseteq 1..N
  /\ undo \in [Undoable -> {"no", "yes", "lost"}]

RunInit == phase = "new" /\ done = {} /\ undo = [i \in Undoable |-> "no"]

Start == phase = "new" /\ phase' = "forward" /\ UNCHANGED <<done, undo>>

CompleteStep(i) ==
  /\ phase = "forward" /\ i \notin done
  /\ \A j \in 1..(i - 1) : j \in done \cup Optional
  /\ \A j \in done : j < i
  /\ done' = done \cup {i}
  /\ UNCHANGED <<phase, undo>>

Complete ==
  /\ phase = "forward" /\ 1..N \subseteq done \cup Optional
  /\ phase' = "completed" /\ UNCHANGED <<done, undo>>

(* With nothing to undo and nobody to tell, giving up is failing.          *)
GiveUp ==
  /\ phase = "forward"
  /\ \/ phase' = "undoing"
     \/ done \cap Undoable = {} /\ ~Handled /\ phase' = "failed"
  /\ UNCHANGED <<done, undo>>

UndoStep(i) ==
  /\ phase = "undoing" /\ i \in done /\ undo[i] = "no"
  /\ \A j \in done \cap Undoable : j > i => undo[j] # "no"
  /\ \E fate \in {"yes", "lost"} : undo' = [undo EXCEPT ![i] = fate]
  /\ UNCHANGED <<phase, done>>

Fail ==
  /\ phase = "undoing"
  /\ \A i \in done \cap Undoable : undo[i] # "no"
  /\ phase' = IF \E i \in Undoable : undo[i] = "lost"
              THEN "compensation_failed" ELSE "failed"
  /\ UNCHANGED <<done, undo>>

RunNext ==
  \/ Start \/ Complete \/ GiveUp \/ Fail
  \/ \E i \in 1..N : CompleteStep(i)
  \/ \E i \in Undoable : UndoStep(i)

RunSpec == RunInit /\ [][RunNext]_rvars

=============================================================================
