---------------------------- MODULE AlertsProofs ----------------------------
(***************************************************************************)
(* Proofs about the alert notifier, for any rules, number of timer calls   *)
(* under way, worlds and budget of failures.                               *)
(*                                                                         *)
(* A post is made because of a state that was read before it.  What makes  *)
(* it right is that, while one tick is at work and no rule is removed, no  *)
(* one else writes the states: what was read of a rule still to be dealt   *)
(* with is what is stored (Current).  Between ticks that all ran to their  *)
(* end the last post about a rule is its stored state (Agreed).            *)
(***************************************************************************)
EXTENDS Alerts, TLAPS

Changed(t, r) == (r \in tick[t].firing) # (r \in tick[t].was)

Current ==
  left["remove"] = Budget["remove"] =>
    /\ removing = {}
    /\ \A t \in Timers : tick[t].at \in {"next", "save"} =>
         /\ \A r \in tick[t].todo : r \in tick[t].was <=> states[r] = "firing"
         /\ tick[t].todo \subseteq tick[t].firing \cup tick[t].was
         /\ \A r \in tick[t].rule : Changed(t, r) => said[r] = Word(tick[t], r)

Agreed ==
  Smooth => \A r \in RuleIds :
    /\ \A t \in Timers : r \in tick[t].rule => said[r] = Word(tick[t], r)
    /\ (\A t \in Timers : r \notin tick[t].rule) =>
         (states[r] = "firing" <=> said[r] = "firing")

---------------------------------------------------------------------------
(* Type correctness.                                                       *)

LEMMA NoTickType == NoTick \in TickRecords
  BY DEF NoTick, TickRecords

LEMMA SpendType ==
  ASSUME NEW kind \in Kinds, Spend(kind),
         left \in [Kinds -> Nat], \A k \in Kinds : left[k] <= Budget[k]
  PROVE  /\ left' \in [Kinds -> Nat] /\ \A k \in Kinds : left'[k] <= Budget[k]
         /\ left'[kind] < Budget[kind]
  BY AlertsAssumption DEF Spend

LEMMA InitType == Init => TypeOK
  BY NoTickType, AlertsAssumption DEF Init, TypeOK, NoTick, NoToggle

(* A tick that is under way is the only one, whatever it goes on to.       *)
LEMMA TickGoesOn ==
  ASSUME TypeOK, NEW t \in Timers, tick[t].at # "off" \/ ~running,
         NEW m \in TickRecords, tick' = [tick EXCEPT ![t] = m],
         running' <=> m.at # "off",
         m.at = "save" => \E r \in m.todo : m.rule = {r},
         m.at # "save" => m.rule = {}
  PROVE  /\ tick' \in [Timers -> TickRecords]
         /\ running' <=> \E s \in Timers : tick'[s].at # "off"
         /\ \A r, s \in Timers : tick'[r].at # "off" /\ tick'[s].at # "off" => r = s
         /\ \A s \in Timers :
              /\ tick'[s].at = "save" => \E r \in tick'[s].todo : tick'[s].rule = {r}
              /\ tick'[s].at # "save" => tick'[s].rule = {}
<1>1. \A s \in Timers : s # t => tick[s].at = "off"
  BY DEF TypeOK
<1>2. \A s \in Timers : tick'[s] = IF s = t THEN m ELSE tick[s]
  BY DEF TypeOK
<1>3. tick' \in [Timers -> TickRecords]
  BY DEF TypeOK
<1>4. running' <=> \E s \in Timers : tick'[s].at # "off"
  BY <1>1, <1>2
<1>5. \A s \in Timers :
         /\ tick'[s].at = "save" => \E r \in tick'[s].todo : tick'[s].rule = {r}
         /\ tick'[s].at # "save" => tick'[s].rule = {}
  BY <1>2 DEF TypeOK
<1> QED BY <1>1, <1>2, <1>3, <1>4, <1>5

(* The steps of a tick.                                                    *)
LEMMA StepType ==
  ASSUME TypeOK, NEW t \in Timers, Fire(t) \/ Step(t)
  PROVE  TypeOK'
<1> USE DEF stored, ui
<1>m. tick[t] \in TickRecords
  BY DEF TypeOK
<1>1. CASE Fire(t)
  <2> DEFINE m == [tick[t] EXCEPT !.at = "queues", !.rules = rules]
  <2>1. m \in TickRecords /\ m.at = "queues" /\ m.rule = {}
    BY <1>m, <1>1 DEF TypeOK, TickRecords, Fire
  <2>2. tick' = [tick EXCEPT ![t] = m]
    BY <1>1 DEF Fire
  <2>3. ~running /\ running'
    BY <1>1 DEF Fire, FreeToRun
  <2> HIDE DEF m
  <2> QED BY <1>1, <2>1, <2>2, <2>3, TickGoesOn DEF TypeOK, Fire
<1>2. CASE ReadQueues(t)
  <2>1. PICK found \in {world.queues, <<>>} :
          /\ IF found = <<>> THEN Spend("read") ELSE UNCHANGED left
          /\ tick' = [tick EXCEPT ![t].found = found,
                                  ![t].at = IF NeedStuck(tick[t].rules) THEN "stuck" ELSE "states"]
    BY <1>2 DEF ReadQueues
  <2> DEFINE m == [tick[t] EXCEPT !.found = found,
                                  !.at = IF NeedStuck(tick[t].rules) THEN "stuck" ELSE "states"]
  <2>2. world.queues \in [Queues -> Summaries]
    BY AlertsAssumption DEF TypeOK
  <2>3. m \in TickRecords /\ m.at \in {"stuck", "states"} /\ m.rule = {}
    BY <1>m, <1>2, <2>1, <2>2 DEF TypeOK, TickRecords, ReadQueues
  <2>4. tick' = [tick EXCEPT ![t] = m]
    BY <2>1
  <2>5. running /\ running' /\ tick[t].at # "off"
    BY <1>2 DEF ReadQueues, TypeOK
  <2>6. /\ left' \in [Kinds -> Nat] /\ \A k \in Kinds : left'[k] <= Budget[k]
    BY <2>1, SpendType DEF TypeOK, Kinds
  <2> HIDE DEF m
  <2> QED BY <1>2, <2>3, <2>4, <2>5, <2>6, TickGoesOn DEF TypeOK, ReadQueues
<1>3. CASE ReadStuck(t)
  <2>1. PICK stuck \in {world.stuck, tick[t].stuck} :
          tick' = [tick EXCEPT ![t] = [tick[t] EXCEPT !.at = "states", !.stuck = stuck]]
    BY <1>m, <1>3 DEF ReadStuck, TickRecords
  <2> DEFINE m == [tick[t] EXCEPT !.at = "states", !.stuck = stuck]
  <2>2. world.stuck \in Nat /\ tick[t].stuck \in Nat
    BY <1>m, AlertsAssumption DEF TypeOK, TickRecords
  <2>3. m \in TickRecords /\ m.at = "states" /\ m.rule = {}
    BY <1>m, <1>3, <2>2 DEF TypeOK, TickRecords, ReadStuck
  <2>4. tick' = [tick EXCEPT ![t] = m]
    BY <2>1
  <2>5. running /\ running' /\ tick[t].at # "off"
    BY <1>3 DEF ReadStuck, TypeOK
  <2>6. /\ left' \in [Kinds -> Nat] /\ \A k \in Kinds : left'[k] <= Budget[k]
    BY <1>3, SpendType DEF TypeOK, ReadStuck, Kinds
  <2> HIDE DEF m
  <2> QED BY <1>3, <2>3, <2>4, <2>5, <2>6, TickGoesOn DEF TypeOK, ReadStuck
<1>4. CASE LoadStates(t)
  <2> DEFINE firing == {r \in Evaluated(tick[t].rules) :
                          Firing(tick[t].rules[r], tick[t].found, tick[t].stuck)}
             was == {r \in Evaluated(tick[t].rules) : states[r] = "firing"}
             m == [NoTick EXCEPT !.at = "next", !.firing = firing,
                                 !.was = was, !.todo = firing \cup was]
  <2>1. firing \subseteq RuleIds /\ was \subseteq RuleIds
    BY DEF Evaluated
  <2>2. tick' = [tick EXCEPT ![t] = m]
    BY <1>4 DEF LoadStates
  <2>3. m \in TickRecords /\ m.at = "next" /\ m.rule = {}
    <3> HIDE DEF firing, was
    <3> QED BY <2>1, NoTickType DEF TickRecords, NoTick
  <2>4. running /\ running' /\ tick[t].at # "off"
    BY <1>4 DEF LoadStates, TypeOK
  <2>5. UNCHANGED <<stored, said, ui, world, left>>
    BY <1>4 DEF LoadStates
  <2> HIDE DEF m
  <2> QED BY <2>2, <2>3, <2>4, <2>5, TickGoesOn DEF TypeOK
<1>5. CASE Notify(t)
  <2>1. PICK r \in tick[t].todo :
          /\ tick' = [tick EXCEPT ![t].at = "save", ![t].rule = {r}]
          /\ said' \in {said, [said EXCEPT ![r] = Word(tick[t], r)]}
    BY <1>5 DEF Notify
  <2> DEFINE m == [tick[t] EXCEPT !.at = "save", !.rule = {r}]
  <2>2. r \in RuleIds
    BY <1>m DEF TickRecords
  <2>3. m \in TickRecords /\ m.at = "save" /\ m.rule = {r} /\ r \in m.todo
    BY <1>m, <2>2 DEF TickRecords
  <2>4. tick' = [tick EXCEPT ![t] = m]
    BY <2>1
  <2>5. running /\ running' /\ tick[t].at # "off"
    BY <1>5 DEF Notify, TypeOK
  <2>6. said' \in [RuleIds -> {"nothing", "firing", "resolved"}]
    BY <2>1, <2>2 DEF TypeOK, Word
  <2> HIDE DEF m
  <2> QED BY <1>5, <2>3, <2>4, <2>5, <2>6, TickGoesOn DEF TypeOK, Notify
<1>6. CASE SaveState(t)
  <2>1. PICK r \in tick[t].rule :
          /\ states' = [states EXCEPT ![r] = NextState(tick[t], r)]
          /\ tick' = [tick EXCEPT ![t].at = "next", ![t].rule = {}, ![t].todo = @ \ {r}]
    BY <1>6 DEF SaveState
  <2> DEFINE m == [tick[t] EXCEPT !.at = "next", !.rule = {}, !.todo = @ \ {r}]
  <2>2. m \in TickRecords /\ m.at = "next" /\ m.rule = {}
    BY <1>m DEF TickRecords
  <2>3. tick' = [tick EXCEPT ![t] = m]
    BY <2>1
  <2>4. running /\ running' /\ tick[t].at # "off"
    BY <1>6 DEF SaveState, TypeOK
  <2>5. states' \in [RuleIds -> {"none", "ok", "firing"}]
    BY <2>1 DEF TypeOK, NextState
  <2> HIDE DEF m
  <2> QED BY <1>6, <2>2, <2>3, <2>4, <2>5, TickGoesOn DEF TypeOK, SaveState
<1>7. CASE EndTick(t)
  <2>1. NoTick \in TickRecords /\ NoTick.at = "off" /\ NoTick.rule = {}
    BY NoTickType DEF NoTick
  <2>2. tick' = [tick EXCEPT ![t] = NoTick] /\ ~running' /\ tick[t].at # "off"
    BY <1>7 DEF EndTick
  <2> QED BY <1>7, <2>1, <2>2, TickGoesOn DEF TypeOK, EndTick
<1> QED BY <1>1, <1>2, <1>3, <1>4, <1>5, <1>6, <1>7 DEF Step

(* A tick cut short, users, and the world.                                 *)
LEMMA SurroundingsType ==
  ASSUME TypeOK,
         \/ CutShort \/ ToggleWrite \/ WorldChanges
         \/ \E r \in RuleIds : SaveRule(r) \/ ToggleRead(r) \/ RemoveRule(r) \/ RemoveState(r)
  PROVE  TypeOK'
<1> USE DEF TypeOK, stored, ui
<1>1. CASE CutShort
  <2>1. \A t \in Timers : tick'[t] = NoTick
    BY <1>1 DEF CutShort
  <2>2. tick' \in [Timers -> TickRecords]
    BY <1>1, NoTickType DEF CutShort
  <2>3. ~running' /\ NoTick.at = "off" /\ NoTick.rule = {}
    BY <1>1 DEF CutShort, Stopped, NoTick
  <2>4. /\ left' \in [Kinds -> Nat] /\ \A k \in Kinds : left'[k] <= Budget[k]
    BY <1>1, SpendType DEF CutShort, Kinds
  <2> QED BY <1>1, <2>1, <2>2, <2>3, <2>4 DEF CutShort
<1>2. CASE ToggleWrite
  <2>1. PICK r \in toggling.id :
          rules' = [rules EXCEPT ![r] = [toggling.rule EXCEPT !.enabled = ~@]]
    BY <1>2 DEF ToggleWrite
  <2>2. toggling.rule \in Rules
    BY <2>1
  <2>3. [toggling.rule EXCEPT !.enabled = ~@] \in Rules
    BY <2>2 DEF Rules
  <2>4. rules' \in [RuleIds -> Rules \cup {NoRule}]
    BY <2>1, <2>3
  <2>5. toggling' = NoToggle /\ NoToggle.id = {}
    BY <1>2 DEF ToggleWrite, NoToggle
  <2>6. toggling' \in [id: SUBSET RuleIds, rule: Rules \cup {NoRule}]
    BY <2>5 DEF NoToggle
  <2> QED BY <1>2, <2>4, <2>5, <2>6 DEF ToggleWrite
<1>3. CASE WorldChanges
  BY <1>3 DEF WorldChanges
<1>4. ASSUME NEW r \in RuleIds, SaveRule(r)
      PROVE  TypeOK'
  <2>1. rules' \in [RuleIds -> Rules \cup {NoRule}]
    BY <1>4, AlertsAssumption DEF SaveRule
  <2>2. /\ left' \in [Kinds -> Nat] /\ \A k \in Kinds : left'[k] <= Budget[k]
    BY <1>4, SpendType DEF SaveRule, Kinds
  <2> QED BY <1>4, <2>1, <2>2 DEF SaveRule
<1>5. ASSUME NEW r \in RuleIds, ToggleRead(r)
      PROVE  TypeOK'
  <2>1. /\ left' \in [Kinds -> Nat] /\ \A k \in Kinds : left'[k] <= Budget[k]
    BY <1>5, SpendType DEF ToggleRead, Kinds
  <2> QED BY <1>5, <2>1 DEF ToggleRead
<1>6. ASSUME NEW r \in RuleIds, RemoveRule(r)
      PROVE  TypeOK'
  <2>1. /\ left' \in [Kinds -> Nat] /\ \A k \in Kinds : left'[k] <= Budget[k]
    BY <1>6, SpendType DEF RemoveRule, Kinds
  <2> QED BY <1>6, <2>1 DEF RemoveRule
<1>7. ASSUME NEW r \in RuleIds, RemoveState(r)
      PROVE  TypeOK'
  BY <1>7 DEF RemoveState
<1> QED BY <1>1, <1>2, <1>3, <1>4, <1>5, <1>6, <1>7

LEMMA NextType == TypeOK /\ [Next]_vars => TypeOK'
<1>1. TypeOK /\ UNCHANGED vars => TypeOK'
  BY DEF TypeOK, vars
<1> QED BY <1>1, StepType, SurroundingsType DEF Next

(* The notifier is well typed, and at most one tick of it is at work.      *)
THEOREM NotifierTypes == Spec => []TypeOK
  BY InitType, NextType, PTL DEF Spec

---------------------------------------------------------------------------
(* What a tick read of a rule it has not dealt with is what is stored.     *)

(* The budget only shrinks.                                                *)
LEMMA Unspent ==
  ASSUME TypeOK, [Next]_vars, NEW kind \in Kinds, left'[kind] = Budget[kind]
  PROVE  left[kind] = Budget[kind]
<1> DEFINE Shrinks == left' = left \/ \E k \in Kinds : Spend(k)
<1>1. Shrinks
  <2>1. ASSUME NEW t \in Timers, Fire(t) \/ Step(t)
        PROVE  Shrinks
    BY <2>1 DEF Fire, Step, ReadQueues, ReadStuck, LoadStates, Notify, SaveState, EndTick, Kinds
  <2>2. CASE CutShort \/ ToggleWrite \/ WorldChanges \/ UNCHANGED vars
    BY <2>2 DEF CutShort, ToggleWrite, WorldChanges, vars, Kinds
  <2>3. ASSUME NEW r \in RuleIds,
               SaveRule(r) \/ ToggleRead(r) \/ RemoveRule(r) \/ RemoveState(r)
        PROVE  Shrinks
    BY <2>3 DEF SaveRule, ToggleRead, RemoveRule, RemoveState, Kinds
  <2> QED BY <2>1, <2>2, <2>3 DEF Next
<1>2. CASE left' = left
  BY <1>2
<1>3. ASSUME NEW k \in Kinds, Spend(k)
      PROVE  left[kind] = Budget[kind]
  BY <1>3, AlertsAssumption DEF Spend, TypeOK
<1> QED BY <1>1, <1>2, <1>3

(* The rest of what a tick does for one rule.                              *)
LEMMA Alone ==
  ASSUME TypeOK, NEW t \in Timers, tick[t].at # "off"
  PROVE  \A s \in Timers : s # t => tick[s].at = "off" /\ tick[s].rule = {}
  BY DEF TypeOK

(* A step of the notifier keeps both.                                      *)
LEMMA StepInvariant ==
  ASSUME TypeOK, Current, Agreed, left["remove"] = Budget["remove"],
         NEW t \in Timers, Fire(t) \/ Step(t)
  PROVE  Current' /\ (left["cut"] = Budget["cut"] => Agreed')
<1>m. tick[t] \in TickRecords /\ tick \in [Timers -> TickRecords]
  BY DEF TypeOK
<1>c. /\ removing = {}
      /\ tick[t].at \in {"next", "save"} =>
           /\ \A r \in tick[t].todo : r \in tick[t].was <=> states[r] = "firing"
           /\ tick[t].todo \subseteq tick[t].firing \cup tick[t].was
           /\ \A r \in tick[t].rule : Changed(t, r) => said[r] = Word(tick[t], r)
  BY DEF Current
<1>a. \A s \in Timers : s # t => tick[s].at = "off" /\ tick[s].rule = {}
  <2>1. tick[t].at # "off" \/ ~running
    BY DEF Fire, FreeToRun, Step, ReadQueues, ReadStuck, LoadStates, Notify, SaveState, EndTick
  <2> QED BY <2>1 DEF TypeOK
<1>1. CASE Fire(t) \/ ReadQueues(t) \/ ReadStuck(t)
  <2>1. /\ tick'[t].at \in {"queues", "stuck", "states"}
        /\ tick'[t].rule = {} /\ tick[t].rule = {}
        /\ \A s \in Timers : s # t => tick'[s] = tick[s]
    <3>1. tick[t].rule = {}
      BY <1>1 DEF Fire, ReadQueues, ReadStuck, TypeOK
    <3>2. CASE Fire(t)
      BY <1>m, <3>1, <3>2 DEF Fire, TickRecords
    <3>3. CASE ReadQueues(t)
      BY <1>m, <3>1, <3>3 DEF ReadQueues, TickRecords
    <3>4. CASE ReadStuck(t)
      BY <1>m, <3>1, <3>4 DEF ReadStuck, TickRecords
    <3> QED BY <1>1, <3>2, <3>3, <3>4
  <2>2. states' = states /\ said' = said /\ removing' = removing
    BY <1>1 DEF Fire, ReadQueues, ReadStuck, stored, ui
  <2>3. Current'
    BY <1>a, <1>c, <2>1, <2>2 DEF Current
  <2>4. left["cut"] = Budget["cut"] => Agreed'
    BY <1>a, <2>1, <2>2 DEF Agreed, Smooth
  <2> QED BY <2>3, <2>4
<1>2. CASE LoadStates(t)
  <2>1. /\ tick'[t].at = "next" /\ tick'[t].rule = {} /\ tick[t].rule = {}
        /\ tick'[t].todo = tick'[t].firing \cup tick'[t].was
        /\ \A r \in tick'[t].todo : r \in tick'[t].was <=> states[r] = "firing"
        /\ \A s \in Timers : s # t => tick'[s] = tick[s]
    BY <1>2, <1>m DEF LoadStates, TypeOK, NoTick, Evaluated
  <2>2. states' = states /\ said' = said /\ removing' = removing
    BY <1>2 DEF LoadStates, stored, ui
  <2>3. Current'
    BY <1>a, <1>c, <2>1, <2>2 DEF Current
  <2>4. left["cut"] = Budget["cut"] => Agreed'
    BY <1>a, <2>1, <2>2 DEF Agreed, Smooth
  <2> QED BY <2>3, <2>4
<1>3. CASE Notify(t)
  <2>1. PICK r \in tick[t].todo :
          /\ tick' = [tick EXCEPT ![t].at = "save", ![t].rule = {r}]
          /\ said' = IF (r \in tick[t].firing) = (r \in tick[t].was) THEN said
                     ELSE [said EXCEPT ![r] = Word(tick[t], r)]
    BY <1>3 DEF Notify
  <2>2. /\ tick'[t].at = "save" /\ tick'[t].rule = {r} /\ tick[t].rule = {} /\ tick[t].at = "next"
        /\ tick'[t].todo = tick[t].todo /\ tick'[t].firing = tick[t].firing
        /\ tick'[t].was = tick[t].was
        /\ \A s \in Timers : s # t => tick'[s] = tick[s]
    BY <1>3, <1>m, <2>1 DEF Notify, TypeOK, TickRecords
  <2>3. states' = states /\ removing' = removing
    BY <1>3 DEF Notify, stored, ui
  <2>4. r \in RuleIds /\ Word(tick'[t], r) = Word(tick[t], r)
    BY <1>m, <2>2 DEF TickRecords, Word
  <2>5. Changed(t, r) => said'[r] = Word(tick[t], r)
    BY <2>1, <2>4 DEF Changed, TypeOK
  <2>6. \A q \in RuleIds : q # r => said'[q] = said[q]
    BY <2>1, <2>4 DEF TypeOK
  <2>7. Current'
    BY <1>a, <1>c, <2>2, <2>3, <2>4, <2>5 DEF Current, Changed
  <2>8. ASSUME left["cut"] = Budget["cut"]
        PROVE  Agreed'
    <3>1. \A q \in RuleIds : states[q] = "firing" <=> said[q] = "firing"
      BY <1>a, <2>2, <2>8 DEF Agreed, Smooth
    <3>2. ~Changed(t, r) => r \in tick[t].firing /\ said'[r] = "firing"
      BY <1>c, <2>1, <2>2, <2>4, <3>1 DEF Changed
    <3>3. said'[r] = Word(tick[t], r)
      BY <2>5, <3>2 DEF Word
    <3> QED BY <1>a, <2>2, <2>3, <2>4, <2>6, <3>1, <3>3 DEF Agreed
  <2> QED BY <2>7, <2>8
<1>4. CASE SaveState(t)
  <2>1. PICK r \in tick[t].rule :
          /\ states' = [states EXCEPT ![r] = NextState(tick[t], r)]
          /\ tick' = [tick EXCEPT ![t].at = "next", ![t].rule = {}, ![t].todo = @ \ {r}]
    BY <1>4 DEF SaveState
  <2>2. /\ tick'[t].at = "next" /\ tick'[t].rule = {} /\ tick[t].at = "save"
        /\ tick'[t].todo = tick[t].todo \ {r} /\ tick'[t].firing = tick[t].firing
        /\ tick'[t].was = tick[t].was
        /\ \A s \in Timers : s # t => tick'[s] = tick[s]
    BY <1>4, <1>m, <2>1 DEF SaveState, TickRecords
  <2>3. said' = said /\ removing' = removing
    BY <1>4 DEF SaveState, ui
  <2>4. r \in RuleIds /\ tick[t].rule = {r}
    BY <1>m, <2>1, <2>2 DEF TypeOK, TickRecords
  <2>5. /\ \A q \in RuleIds : q # r => states'[q] = states[q]
        /\ states'[r] = "firing" <=> r \in tick[t].firing
    BY <2>1, <2>4 DEF TypeOK, NextState
  <2>6. tick[t].todo \subseteq RuleIds
    BY <1>m DEF TickRecords
  <2>7. Current'
    BY <1>a, <1>c, <2>2, <2>3, <2>5, <2>6 DEF Current
  <2>8. ASSUME left["cut"] = Budget["cut"]
        PROVE  Agreed'
    <3>1. said[r] = Word(tick[t], r)
      BY <2>4, <2>8 DEF Agreed, Smooth
    <3>2. \A q \in RuleIds : q # r => (states[q] = "firing" <=> said[q] = "firing")
      BY <1>a, <2>4, <2>8 DEF Agreed, Smooth
    <3>3. said[r] = "firing" <=> r \in tick[t].firing
      BY <3>1 DEF Word
    <3> QED BY <1>a, <2>2, <2>3, <2>4, <2>5, <3>2, <3>3 DEF Agreed
  <2> QED BY <2>7, <2>8
<1>5. CASE EndTick(t)
  <2>1. /\ tick'[t].at = "off" /\ tick'[t].rule = {} /\ tick[t].rule = {}
        /\ \A s \in Timers : s # t => tick'[s] = tick[s]
    BY <1>5, <1>m DEF EndTick, NoTick, TypeOK
  <2>2. states' = states /\ said' = said /\ removing' = removing
    BY <1>5 DEF EndTick, stored, ui
  <2>3. Current'
    BY <1>a, <1>c, <2>1, <2>2 DEF Current
  <2>4. left["cut"] = Budget["cut"] => Agreed'
    BY <1>a, <2>1, <2>2 DEF Agreed, Smooth
  <2> QED BY <2>3, <2>4
<1> QED BY <1>1, <1>2, <1>3, <1>4, <1>5 DEF Step

(* So does everything else.                                                *)
LEMMA SurroundingsInvariant ==
  ASSUME TypeOK, Current, Agreed, left["remove"] = Budget["remove"],
         left'["remove"] = Budget["remove"],
         \/ CutShort \/ ToggleWrite \/ WorldChanges \/ UNCHANGED vars
         \/ \E r \in RuleIds : SaveRule(r) \/ ToggleRead(r) \/ RemoveRule(r) \/ RemoveState(r)
  PROVE  Current' /\ (left["cut"] = Budget["cut"] /\ left'["cut"] = Budget["cut"] => Agreed')
<1>1. CASE CutShort
  <2>1. \A t \in Timers : tick'[t].at = "off"
    BY <1>1 DEF CutShort, NoTick
  <2>2. removing' = removing
    BY <1>1 DEF CutShort, ui
  <2>3. Current'
    BY <2>1, <2>2 DEF Current
  <2>4. left'["cut"] # left["cut"]
    BY <1>1 DEF CutShort, Spend, Kinds, TypeOK
  <2> QED BY <2>3, <2>4
<1>2. CASE ToggleWrite \/ WorldChanges \/ UNCHANGED vars
           \/ \E r \in RuleIds : SaveRule(r) \/ ToggleRead(r)
  <2>1. UNCHANGED <<tick, states, said, removing>>
    BY <1>2 DEF ToggleWrite, WorldChanges, vars, stored, ui, SaveRule, ToggleRead
  <2>2. Current'
    BY <2>1 DEF Current, Changed, Word
  <2>3. left["cut"] = Budget["cut"] => Agreed'
    BY <2>1 DEF Agreed, Smooth, Word
  <2> QED BY <2>2, <2>3
<1>3. ASSUME NEW r \in RuleIds, RemoveRule(r) \/ RemoveState(r)
      PROVE  FALSE
  <2>1. CASE RemoveRule(r)
    BY <2>1 DEF RemoveRule, Spend, Kinds, TypeOK
  <2>2. CASE RemoveState(r)
    BY <2>2 DEF RemoveState, Current
  <2> QED BY <1>3, <2>1, <2>2
<1> QED BY <1>1, <1>2, <1>3

LEMMA NotifierInit == Init => Current /\ Agreed
  BY DEF Init, Current, Agreed, NoTick

LEMMA NotifierNext ==
  ASSUME TypeOK, Current, Agreed, [Next]_vars
  PROVE  Current' /\ Agreed'
<1>1. CASE left'["remove"] # Budget["remove"]
  BY <1>1 DEF Current, Agreed, Smooth
<1>2. CASE left'["remove"] = Budget["remove"]
  <2>1. left["remove"] = Budget["remove"]
    BY <1>2, Unspent DEF Kinds
  <2>2. left'["cut"] = Budget["cut"] => left["cut"] = Budget["cut"]
    BY Unspent DEF Kinds
  <2>3. Current' /\ (left["cut"] = Budget["cut"] /\ left'["cut"] = Budget["cut"] => Agreed')
    BY <1>2, <2>1, StepInvariant, SurroundingsInvariant DEF Next
  <2>4. CASE left'["cut"] # Budget["cut"]
    BY <2>3, <2>4 DEF Agreed, Smooth
  <2>5. CASE left'["cut"] = Budget["cut"]
    BY <2>2, <2>3, <2>5
  <2> QED BY <2>3, <2>4, <2>5
<1> QED BY <1>1, <1>2

(* Both invariants hold of every run of the notifier.                      *)
THEOREM NotifierKnows == Spec => [](TypeOK /\ Current /\ Agreed)
<1>1. Init => TypeOK /\ Current /\ Agreed
  BY InitType, NotifierInit
<1>2. TypeOK /\ Current /\ Agreed /\ [Next]_vars => (TypeOK /\ Current /\ Agreed)'
  BY NextType, NotifierNext
<1> QED BY <1>1, <1>2, PTL DEF Spec

(* A transition is posted once: while no tick is cut short and no rule is  *)
(* removed, what is posted is never what was posted last.                  *)
THEOREM EachOnce == Spec => PostedOnce
<1>1. ASSUME TypeOK, Current, Agreed, Smooth,
             NEW t \in Timers, NEW r \in RuleIds, Posts(t, r)
      PROVE  said[r] # Word(tick[t], r)
  <2>1. \A s \in Timers : r \notin tick[s].rule
    BY <1>1, Alone DEF Posts, TypeOK
  <2>2. r \in tick[t].was <=> said[r] = "firing"
    BY <1>1, <2>1 DEF Posts, Current, Agreed, Smooth
  <2> QED BY <1>1, <2>2 DEF Posts, Word
<1>2. TypeOK /\ Current /\ Agreed /\ [Next]_vars =>
        [Smooth => \A t \in Timers, r \in RuleIds :
           Posts(t, r) => said[r] # Word(tick[t], r)]_vars
  BY <1>1
<1> QED BY <1>2, NotifierKnows, PTL DEF Spec, PostedOnce

(* Only a tick's save changes the state of a rule, apart from its removal. *)
LEMMA StatesChange ==
  ASSUME TypeOK, Current, left["remove"] = Budget["remove"], [Next]_vars,
         NEW r \in RuleIds, states'[r] # states[r]
  PROVE  \E t \in Timers :
           /\ tick[t].at = "save" /\ r \in tick[t].rule
           /\ states'[r] = NextState(tick[t], r)
<1>1. ASSUME NEW t \in Timers, SaveState(t)
      PROVE  /\ tick[t].at = "save" /\ r \in tick[t].rule
             /\ states'[r] = NextState(tick[t], r)
  <2>1. PICK q \in tick[t].rule :
          states' = [states EXCEPT ![q] = NextState(tick[t], q)]
    BY <1>1 DEF SaveState
  <2>2. q = r
    BY <2>1 DEF TypeOK
  <2> QED BY <1>1, <2>1, <2>2 DEF SaveState, TypeOK
<1>2. ASSUME NEW t \in Timers, Fire(t) \/ Step(t), ~SaveState(t)
      PROVE  FALSE
  BY <1>2 DEF Fire, Step, ReadQueues, ReadStuck, LoadStates, Notify, EndTick, stored
<1>3. CASE CutShort \/ ToggleWrite \/ WorldChanges \/ UNCHANGED vars
           \/ \E q \in RuleIds : SaveRule(q) \/ ToggleRead(q) \/ RemoveRule(q)
  BY <1>3 DEF CutShort, ToggleWrite, WorldChanges, vars, stored, SaveRule, ToggleRead, RemoveRule
<1>4. ASSUME NEW q \in RuleIds, RemoveState(q)
      PROVE  FALSE
  BY <1>4 DEF RemoveState, Current
<1> QED BY <1>1, <1>2, <1>3, <1>4 DEF Next, Step

(* A transition is on record only after it was posted, whatever cuts ticks *)
(* short in between.                                                       *)
THEOREM ToldBeforeRecorded == Spec => ToldFirst
<1>1. ASSUME TypeOK, Current, left["remove"] = Budget["remove"], [Next]_vars,
             NEW r \in RuleIds, states'[r] # states[r]
      PROVE  /\ states[r] # "firing" /\ states'[r] = "firing" => said[r] = "firing"
             /\ states[r] = "firing" /\ states'[r] = "ok" => said[r] = "resolved"
  <2>1. PICK t \in Timers :
          /\ tick[t].at = "save" /\ r \in tick[t].rule
          /\ states'[r] = NextState(tick[t], r)
    BY <1>1, StatesChange
  <2>2. r \in tick[t].todo
    BY <1>1, <2>1 DEF TypeOK
  <2>3. /\ r \in tick[t].was <=> states[r] = "firing"
        /\ Changed(t, r) => said[r] = Word(tick[t], r)
    BY <1>1, <2>1, <2>2 DEF Current
  <2> QED BY <2>1, <2>3 DEF NextState, Changed, Word
<1>2. TypeOK /\ Current /\ [Next]_vars =>
        [left["remove"] = Budget["remove"] => \A r \in RuleIds :
           /\ states[r] # "firing" /\ states'[r] = "firing" => said[r] = "firing"
           /\ states[r] = "firing" /\ states'[r] = "ok" => said[r] = "resolved"]_vars
  BY <1>1
<1> QED BY <1>2, NotifierKnows, PTL DEF Spec, ToldFirst

=============================================================================
