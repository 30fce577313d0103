------------------------------- MODULE Alerts -------------------------------
(***************************************************************************)
(* The alert rules of the cockpit and the notifier that posts when one of  *)
(* them starts and stops firing (alerts-inspector.ts).  A timer calls the  *)
(* notifier; every Redis call, read of the queues and post of its tick is  *)
(* a step of its own, and users save, toggle and remove rules meanwhile.   *)
(*                                                                         *)
(* A rule's channels are one here: `said` is what was last posted about    *)
(* it.  The answer to a post is not looked at (notify drops what post      *)
(* returns), so a post that is lost is one that was made.  Rules are       *)
(* independent, and a tick deals with them in any order.  The cache of     *)
(* the stuck report is left out.                                           *)
(***************************************************************************)
EXTENDS Naturals

CONSTANTS
  RuleIds,   \* ids of rules
  Timers,    \* calls of the scheduler's timer that may be under way
  Inputs,    \* the rules a user may save
  Queues,    \* names of queues
  Worlds,    \* what the cockpit may find: summaries of the queues, stuck runs
  Budget     \* how often reads fail, ticks are cut short and rules are changed

Kinds == {"read", "cut", "edit", "remove"}
Metrics == {"failed", "waiting", "active", "backlog", "no_workers", "stuck"}
Summaries == [waiting: Nat, active: Nat, delayed: Nat, children: Nat, failed: Nat, workers: Nat]
Rules == [metric: Metrics, queue: Queues \cup {"*"}, operator: {"gt", "gte", "lt", "lte"},
          threshold: Nat, enabled: BOOLEAN]

ASSUME AlertsAssumption ==
  /\ Inputs \subseteq Rules
  /\ Worlds \subseteq [queues: [Queues -> Summaries], stuck: Nat]
  /\ Budget \in [Kinds -> Nat]

NoRule == [metric |-> "none"]

---------------------------------------------------------------------------
(* Evaluation.  `found` maps the queues that could be read to summaries:   *)
(* none of them when the read failed, and no stuck run when that did.      *)

MetricValue(metric, q) ==
  CASE metric = "failed" -> q.failed
    [] metric = "waiting" -> q.waiting
    [] metric = "active" -> q.active
    [] metric = "backlog" -> q.waiting + q.delayed + q.children
    [] metric = "no_workers" ->
         IF q.workers = 0 THEN q.waiting + q.active + q.delayed + q.children ELSE 0
    [] OTHER -> 0

Compare(value, operator, threshold) ==
  \/ operator = "gt" /\ value > threshold
  \/ operator = "gte" /\ value >= threshold
  \/ operator = "lt" /\ value < threshold
  \/ operator = "lte" /\ value <= threshold

Targets(rule, found) == {q \in DOMAIN found : rule.queue \in {q, "*"}}

Firing(rule, found, stuck) ==
  /\ rule # NoRule
  /\ rule.enabled
  /\ \/ /\ rule.metric = "stuck"
        /\ Compare(stuck, rule.operator, rule.threshold)
     \/ /\ rule.metric # "stuck"
        /\ \E q \in Targets(rule, found) :
             Compare(MetricValue(rule.metric, found[q]), rule.operator, rule.threshold)

---------------------------------------------------------------------------
VARIABLES
  rules,    \* the stored rules
  states,   \* the stored states of rules: none, ok or firing
  said,     \* what was last posted about a rule
  running,  \* the scheduler's flag
  tick,     \* what each call of the timer holds in memory
  toggling, \* the rule a toggle has read and not yet written back
  removing, \* rules that are removed, their state not yet
  world,    \* the queues and the durable runs
  left      \* what is left of the budget

stored == <<rules, states>>
ui == <<toggling, removing>>
vars == <<rules, states, said, running, tick, toggling, removing, world, left>>

NoTick == [at |-> "off", rules |-> [r \in RuleIds |-> NoRule], found |-> <<>>, stuck |-> 0,
           firing |-> {}, was |-> {}, todo |-> {}, rule |-> {}]

NoToggle == [id |-> {}, rule |-> NoRule]

TickRecords ==
  [at: {"off", "queues", "stuck", "states", "next", "save"},
   rules: [RuleIds -> Rules \cup {NoRule}],
   found: [Queues -> Summaries] \cup {<<>>}, stuck: Nat,
   firing: SUBSET RuleIds, was: SUBSET RuleIds, todo: SUBSET RuleIds, rule: SUBSET RuleIds]

(* The flag is up while a call of the timer is at work, which is one at a  *)
(* time, and that one saves the state of one rule it has to deal with.     *)
TypeOK ==
  /\ rules \in [RuleIds -> Rules \cup {NoRule}]
  /\ states \in [RuleIds -> {"none", "ok", "firing"}]
  /\ said \in [RuleIds -> {"nothing", "firing", "resolved"}]
  /\ tick \in [Timers -> TickRecords]
  /\ running <=> \E t \in Timers : tick[t].at # "off"
  /\ \A s, t \in Timers : tick[s].at # "off" /\ tick[t].at # "off" => s = t
  /\ \A t \in Timers :
       /\ tick[t].at = "save" => \E r \in tick[t].todo : tick[t].rule = {r}
       /\ tick[t].at # "save" => tick[t].rule = {}
  /\ toggling \in [id: SUBSET RuleIds, rule: Rules \cup {NoRule}]
  /\ toggling.rule = NoRule => toggling.id = {}
  /\ removing \subseteq RuleIds
  /\ world \in Worlds
  /\ left \in [Kinds -> Nat]
  /\ \A kind \in Kinds : left[kind] <= Budget[kind]

Init ==
  /\ rules = [r \in RuleIds |-> NoRule]
  /\ states = [r \in RuleIds |-> "none"]
  /\ said = [r \in RuleIds |-> "nothing"]
  /\ running = FALSE
  /\ tick = [t \in Timers |-> NoTick]
  /\ toggling = NoToggle
  /\ removing = {}
  /\ world \in Worlds
  /\ left = Budget

Spend(kind) == left[kind] > 0 /\ left' = [left EXCEPT ![kind] = @ - 1]

---------------------------------------------------------------------------
(* The notifier.                                                           *)

(* Faulty: the flag is not looked at.                                      *)
FreeAnyway == TRUE

FreeToRun == ~running

(* The timer calls: the tick reads the rules.  With none stored it ends.   *)
Fire(t) ==
  /\ tick[t].at = "off" /\ FreeToRun
  /\ \E r \in RuleIds : rules[r] # NoRule
  /\ running' = TRUE
  /\ tick' = [tick EXCEPT ![t].at = "queues", ![t].rules = rules]
  /\ UNCHANGED <<stored, said, ui, world, left>>

NeedStuck(seen) == \E r \in RuleIds : seen[r] # NoRule /\ seen[r].enabled /\ seen[r].metric = "stuck"

ReadQueues(t) ==
  /\ tick[t].at = "queues"
  /\ \E found \in {world.queues, <<>>} :
       /\ IF found = <<>> THEN Spend("read") ELSE UNCHANGED left
       /\ tick' = [tick EXCEPT ![t].found = found,
                               ![t].at = IF NeedStuck(tick[t].rules) THEN "stuck" ELSE "states"]
  /\ UNCHANGED <<stored, said, running, ui, world>>

ReadStuck(t) ==
  /\ tick[t].at = "stuck"
  /\ \/ /\ tick' = [tick EXCEPT ![t].at = "states", ![t].stuck = world.stuck]
        /\ UNCHANGED left
     \/ /\ tick' = [tick EXCEPT ![t].at = "states"]
        /\ Spend("read")
  /\ UNCHANGED <<stored, said, running, ui, world>>

(* Faulty: a disabled rule is passed over.                                 *)
EnabledOnes(seen) == {r \in RuleIds : seen[r] # NoRule /\ seen[r].enabled}

Evaluated(seen) == {r \in RuleIds : seen[r] # NoRule}

(* The states are read.  What fires or has fired is to be dealt with.      *)
LoadStates(t) ==
  /\ tick[t].at = "states"
  /\ LET m == tick[t]
         firing == {r \in Evaluated(m.rules) : Firing(m.rules[r], m.found, m.stuck)}
         was == {r \in Evaluated(m.rules) : states[r] = "firing"}
     IN  tick' = [tick EXCEPT ![t] = [NoTick EXCEPT !.at = "next", !.firing = firing,
                                        !.was = was, !.todo = firing \cup was]]
  /\ UNCHANGED <<stored, said, running, ui, world, left>>

Word(m, r) == IF r \in m.firing THEN "firing" ELSE "resolved"

(* Faulty: the state is on record before the post is made.                 *)
NotifyUnsaved(t) ==
  /\ tick[t].at = "next"
  /\ \E r \in tick[t].todo :
       /\ tick' = [tick EXCEPT ![t].at = "save", ![t].rule = {r}]
       /\ states' = [states EXCEPT ![r] = IF r \in tick[t].firing THEN "firing" ELSE "ok"]
       /\ UNCHANGED said
  /\ UNCHANGED <<rules, running, ui, world, left>>

(* One rule: a post if it started or stopped firing.                       *)
Notify(t) ==
  /\ tick[t].at = "next"
  /\ \E r \in tick[t].todo :
       /\ tick' = [tick EXCEPT ![t].at = "save", ![t].rule = {r}]
       /\ said' = IF (r \in tick[t].firing) = (r \in tick[t].was) THEN said
                  ELSE [said EXCEPT ![r] = Word(tick[t], r)]
  /\ UNCHANGED <<stored, running, ui, world, left>>

NextState(m, r) == IF r \in m.firing THEN "firing" ELSE "ok"

SaveState(t) ==
  /\ tick[t].at = "save"
  /\ \E r \in tick[t].rule :
       /\ states' = [states EXCEPT ![r] = NextState(tick[t], r)]
       /\ tick' = [tick EXCEPT ![t].at = "next", ![t].rule = {}, ![t].todo = @ \ {r}]
  /\ UNCHANGED <<rules, said, running, ui, world, left>>

EndTick(t) ==
  /\ tick[t].at = "next" /\ tick[t].todo = {}
  /\ tick' = [tick EXCEPT ![t] = NoTick]
  /\ running' = FALSE
  /\ UNCHANGED <<stored, said, ui, world, left>>

(* Faulty: the flag is only taken down at the end of a tick.               *)
StillRunning == running

Stopped == FALSE

(* A Redis call of the tick fails, or the cockpit restarts.                *)
CutShort ==
  /\ running
  /\ Spend("cut")
  /\ tick' = [t \in Timers |-> NoTick]
  /\ running' = Stopped
  /\ UNCHANGED <<stored, said, ui, world>>

---------------------------------------------------------------------------
(* Users and the world.                                                    *)

SaveRule(r) ==
  /\ Spend("edit")
  /\ \E rule \in Inputs : rules' = [rules EXCEPT ![r] = rule]
  /\ UNCHANGED <<states, said, running, tick, ui, world>>

ToggleRead(r) ==
  /\ toggling = NoToggle /\ rules[r] # NoRule
  /\ Spend("edit")
  /\ toggling' = [id |-> {r}, rule |-> rules[r]]
  /\ UNCHANGED <<stored, said, running, tick, removing, world>>

(* The rule is written back whole, whatever is stored by then.             *)
ToggleWrite ==
  /\ \E r \in toggling.id :
       rules' = [rules EXCEPT ![r] = [toggling.rule EXCEPT !.enabled = ~@]]
  /\ toggling' = NoToggle
  /\ UNCHANGED <<states, said, running, tick, removing, world, left>>

RemoveRule(r) ==
  /\ rules[r] # NoRule
  /\ Spend("remove")
  /\ rules' = [rules EXCEPT ![r] = NoRule]
  /\ removing' = removing \cup {r}
  /\ UNCHANGED <<states, said, running, tick, toggling, world>>

RemoveState(r) ==
  /\ r \in removing
  /\ states' = [states EXCEPT ![r] = "none"]
  /\ removing' = removing \ {r}
  /\ UNCHANGED <<rules, said, running, tick, toggling, world, left>>

WorldChanges ==
  /\ world' \in Worlds \ {world}
  /\ UNCHANGED <<stored, said, running, tick, ui, left>>

---------------------------------------------------------------------------
Step(t) ==
  \/ ReadQueues(t) \/ ReadStuck(t) \/ LoadStates(t)
  \/ Notify(t) \/ SaveState(t) \/ EndTick(t)

Next ==
  \/ \E t \in Timers : Fire(t) \/ Step(t)
  \/ CutShort
  \/ \E r \in RuleIds : SaveRule(r) \/ ToggleRead(r) \/ RemoveRule(r) \/ RemoveState(r)
  \/ ToggleWrite
  \/ WorldChanges

Spec == Init /\ [][Next]_vars

(* The timer goes on and a tick's calls return.                            *)
FairSpec ==
  /\ Spec
  /\ WF_vars(\E t \in Timers : Fire(t))
  /\ \A t \in Timers : WF_vars(Step(t))

---------------------------------------------------------------------------
(* Correctness.                                                            *)

(* No tick was cut short and no rule removed so far.                       *)
Smooth == left["cut"] = Budget["cut"] /\ left["remove"] = Budget["remove"]

(* The post the step t makes about r, if any.                              *)
Posts(t, r) ==
  /\ tick[t].at = "next" /\ r \in tick[t].todo /\ tick'[t].rule = {r}
  /\ (r \in tick[t].firing) # (r \in tick[t].was)

(* alerts-inspector.ts:8-9, startAlertScheduler 392-398: a transition is   *)
(* posted once, although the timer calls while a slow tick is under way,   *)
(* rules are edited meanwhile and reads fail.                              *)
PostedOnce ==
  [][Smooth => \A t \in Timers, r \in RuleIds :
       Posts(t, r) => said[r] # Word(tick[t], r)]_vars

(* alerts-inspector.ts:241-253: whatever cuts a tick short, a transition   *)
(* is on record only after it was posted (it may be posted twice).         *)
ToldFirst ==
  [][left["remove"] = Budget["remove"] => \A r \in RuleIds :
       /\ states[r] # "firing" /\ states'[r] = "firing" => said[r] = "firing"
       /\ states[r] = "firing" /\ states'[r] = "ok" => said[r] = "resolved"]_vars

FiringNow(r) == Firing(rules[r], world.queues, world.stuck)

(* alerts-inspector.ts:8-9: once a stored rule fires for good, or is quiet *)
(* or disabled for good, that is what was last posted about it, reads that *)
(* failed and rules that were edited in between notwithstanding.           *)
LastWord ==
  \A r \in RuleIds :
    []Smooth =>
      /\ <>[]FiringNow(r) => <>[](said[r] = "firing" /\ states[r] = "firing")
      /\ <>[](rules[r] # NoRule /\ ~FiringNow(r)) => <>[](said[r] # "firing")

=============================================================================
