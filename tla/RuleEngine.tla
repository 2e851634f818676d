------------------------------ MODULE RuleEngine ------------------------------
(***************************************************************************)
(* The rule engine: Evaluate, evaluateRule and the store calls they make.  *)
(*                                                                         *)
(* Every saved check result starts a goroutine (an Evaluator) that         *)
(* re-evaluates the rules watching the check.  Evaluations of one rule are *)
(* serialised by a mutex held from the reading of the conditions to the    *)
(* launch of the alert; the new state is written by a compare-and-swap;    *)
(* the alert goroutine needs one of the places of alertSem, which the      *)
(* evaluator waits for while it still holds the rule's mutex.              *)
(*                                                                         *)
(* The data is abstracted to what decides the control: a check's history   *)
(* is the one bit "its condition matches now" (module RuleEval says how    *)
(* that bit is computed), and a rule is a set of condition groups, each a  *)
(* set of checks, triggered when some group matches entirely.  A group     *)
(* with operator OR is the same rule with that group split in singletons.  *)
(***************************************************************************)
EXTENDS Naturals

CONSTANTS
    Rule,        \* rules
    Check,       \* checks
    Groups,      \* Groups[r]: the condition groups of rule r
    Evaluator,   \* goroutines running Evaluate at the same time, at most
    Slot,        \* the places of alertSem
    None,        \* no rule, no evaluator, no job
    MaxEvents    \* changes of a condition plus failed queries, at most (bound)

ASSUME EngineAssumption ==
    /\ Groups \in [Rule -> SUBSET ((SUBSET Check) \ {{}})]
    /\ MaxEvents \in Nat
    /\ None \notin Rule
    /\ None \notin Evaluator
    /\ None \notin [rule : Rule, from : {"healthy", "unhealthy"}, to : {"healthy", "unhealthy"}]

VARIABLES
    matching,    \* checks whose stored results match their condition
    events,      \* changes of "matching" and failed queries so far
    live,        \* rules present in the database
    hasRow,      \* rules with a row in rule_states
    state,       \* rule_states.current_state; the last value once the row is gone
    ruleMu,      \* the evaluator holding each rule's mutex, or None
    pc,          \* where each evaluator is
    todo,        \* the rules an evaluator has not come to yet
    rule,        \* the rule an evaluator is working on
    unread,      \* conditions it has not read yet
    seen,        \* conditions it has read as matching
    old,         \* the state it read from rule_states
    new,         \* the state it computed
    job,         \* the Dispatch call running in each place of alertSem
    told         \* history: the last state each rule was launched with

dbVars   == <<matching, events, live>>
rowVars  == <<hasRow, state>>
evalVars == <<pc, todo, rule, unread, seen, old, new>>
vars     == <<dbVars, rowVars, ruleMu, evalVars, job, told>>

Status == {"healthy", "unhealthy"}
Pc == {"idle", "started", "next", "lock", "list", "read", "compare", "swap", "launch"}
Job == [rule : Rule, from : Status, to : Status]

Conditions(r) == UNION Groups[r]

\* The rule as its conditions stand when "s" is the set of matching checks.
Triggered(r, s) == \E g \in Groups[r] : g \subseteq s
\* Mutant: newState is declared without its default.
VerdictNoDefault(r, s) == IF Triggered(r, s) THEN "unhealthy" ELSE ""
Verdict(r, s) == IF Triggered(r, s) THEN "unhealthy" ELSE "healthy"

\* Evaluators between rmu.Lock() and the deferred rmu.Unlock().
Critical == {"list", "read", "compare", "swap", "launch"}

TypeOK ==
    /\ matching \in SUBSET Check
    /\ events \in 0 .. MaxEvents
    /\ live \in SUBSET Rule
    /\ hasRow \in SUBSET Rule
    /\ state \in [Rule -> Status]
    /\ ruleMu \in [Rule -> Evaluator \cup {None}]
    /\ pc \in [Evaluator -> Pc]
    /\ todo \in [Evaluator -> SUBSET Rule]
    /\ rule \in [Evaluator -> Rule \cup {None}]
    /\ unread \in [Evaluator -> SUBSET Check]
    /\ seen \in [Evaluator -> SUBSET Check]
    /\ old \in [Evaluator -> Status]
    /\ new \in [Evaluator -> Status]
    /\ job \in [Slot -> Job \cup {None}]
    /\ told \in [Rule -> Status]

\* A rule is created together with its row; RestoreBackup brings back the
\* rules of a backup file with only those rows the file has.
Init ==
    /\ matching = {}
    /\ events = 0
    /\ live = Rule
    /\ hasRow \in SUBSET Rule
    /\ state = [r \in Rule |-> "healthy"]
    /\ ruleMu = [r \in Rule |-> None]
    /\ pc = [e \in Evaluator |-> "idle"]
    /\ todo = [e \in Evaluator |-> {}]
    /\ rule = [e \in Evaluator |-> None]
    /\ unread = [e \in Evaluator |-> {}]
    /\ seen = [e \in Evaluator |-> {}]
    /\ old = [e \in Evaluator |-> "healthy"]
    /\ new = [e \in Evaluator |-> "healthy"]
    /\ job = [s \in Slot |-> None]
    /\ told = [r \in Rule |-> "healthy"]

-------------------------------------------------------------------------------
(* The scheduler's side: a result is saved, "go engine.Evaluate" follows.  *)

\* The new result leaves the condition on c as it was, or flips it.
SaveResult(c, e) ==
    /\ pc[e] = "idle"
    /\ \/ UNCHANGED <<matching, events>>
       \/ /\ events < MaxEvents
          /\ events' = events + 1
          /\ matching' = IF c \in matching THEN matching \ {c} ELSE matching \cup {c}
    /\ pc' = [pc EXCEPT ![e] = "started"]
    /\ todo' = [todo EXCEPT ![e] = {r \in Rule : c \in Conditions(r)}]
    /\ UNCHANGED <<live, rowVars, ruleMu, rule, unread, seen, old, new, job, told>>

\* Time passes, and so many of the matching results leave the window of the
\* condition on c that it does not match any more: no result is saved, so no
\* evaluation follows.
Expire(c) ==
    /\ c \in matching
    /\ events < MaxEvents
    /\ events' = events + 1
    /\ matching' = matching \ {c}
    /\ UNCHANGED <<live, rowVars, ruleMu, evalVars, job, told>>

\* DeleteTarget removes the rule; its conditions and its row cascade.
DeleteRule(r) ==
    /\ r \in live
    /\ live' = live \ {r}
    /\ hasRow' = hasRow \ {r}
    /\ UNCHANGED <<matching, events, state, ruleMu, evalVars, job, told>>

-------------------------------------------------------------------------------
(* Evaluate                                                                *)

\* GetRulesByCheckID: the rules of the check that still exist.
ListRules(e) ==
    /\ pc[e] = "started"
    /\ pc' = [pc EXCEPT ![e] = "next"]
    /\ todo' = [todo EXCEPT ![e] = @ \cap live]
    /\ UNCHANGED <<dbVars, rowVars, ruleMu, rule, unread, seen, old, new, job, told>>

\* The body of the for loop is entered for the next rule of the list.
NextRule(e, r) ==
    /\ pc[e] = "next"
    /\ r \in todo[e]
    /\ pc' = [pc EXCEPT ![e] = "lock"]
    /\ todo' = [todo EXCEPT ![e] = @ \ {r}]
    /\ rule' = [rule EXCEPT ![e] = r]
    /\ UNCHANGED <<dbVars, rowVars, ruleMu, unread, seen, old, new, job, told>>

\* The loop is done and the goroutine ends.
Finish(e) ==
    /\ pc[e] = "next"
    /\ todo[e] = {}
    /\ pc' = [pc EXCEPT ![e] = "idle"]
    /\ UNCHANGED <<dbVars, rowVars, ruleMu, todo, rule, unread, seen, old, new, job, told>>

-------------------------------------------------------------------------------
(* evaluateRule                                                            *)

\* Mutant: no per-rule mutex, the last one in is remembered as the owner.
LockUnserialised(e) ==
    /\ pc[e] = "lock"
    /\ ruleMu' = [ruleMu EXCEPT ![rule[e]] = e]
    /\ pc' = [pc EXCEPT ![e] = "list"]
    /\ UNCHANGED <<dbVars, rowVars, todo, rule, unread, seen, old, new, job, told>>

Lock(e) ==
    /\ pc[e] = "lock"
    /\ ruleMu[rule[e]] = None
    /\ ruleMu' = [ruleMu EXCEPT ![rule[e]] = e]
    /\ pc' = [pc EXCEPT ![e] = "list"]
    /\ UNCHANGED <<dbVars, rowVars, todo, rule, unread, seen, old, new, job, told>>

\* Every return of evaluateRule runs the deferred Unlock.
Unlock(e) ==
    /\ ruleMu' = [ruleMu EXCEPT ![rule[e]] = None]
    /\ pc' = [pc EXCEPT ![e] = "next"]
    /\ rule' = [rule EXCEPT ![e] = None]
    /\ unread' = [unread EXCEPT ![e] = {}]
    /\ seen' = [seen EXCEPT ![e] = {}]
    /\ old' = [old EXCEPT ![e] = "healthy"]
    /\ new' = [new EXCEPT ![e] = "healthy"]
    /\ UNCHANGED todo

\* TouchRuleEvaluated: makes the row if there is none; the foreign key
\* refuses a row for a rule that is gone, and the error is ignored.
Touch(r) ==
    /\ hasRow' = hasRow \cup ({r} \cap live)
    /\ state' = IF r \in live \ hasRow THEN [state EXCEPT ![r] = "healthy"] ELSE state

\* ListRuleConditions: the conditions of a deleted rule are gone with it.
ListConditions(e) ==
    /\ pc[e] = "list"
    /\ LET cs == IF rule[e] \in live THEN Conditions(rule[e]) ELSE {}
       IN  \/ /\ cs # {}
              /\ unread' = [unread EXCEPT ![e] = cs]
              /\ pc' = [pc EXCEPT ![e] = "read"]
              /\ UNCHANGED <<rowVars, ruleMu, todo, rule, seen, old, new>>
           \/ /\ cs = {}
              /\ Touch(rule[e])
              /\ Unlock(e)
    /\ UNCHANGED <<dbVars, job, told>>

\* evaluateCondition: each condition is a query of its own, so results may
\* be saved between the reading of two conditions of one rule.  The groups
\* come in any order (a Go map); a condition the code skips, because its group
\* is decided already, has no say in the verdict and is read here all the same.
\* What is read is what the results say; ReadConditionFails is the other case.
ReadCondition(e, c) ==
    /\ pc[e] = "read"
    /\ c \in unread[e]
    /\ unread' = [unread EXCEPT ![e] = @ \ {c}]
    /\ seen' = [seen EXCEPT ![e] = IF c \in matching THEN @ \cup {c} ELSE @]
    /\ UNCHANGED <<dbVars, rowVars, ruleMu, pc, todo, rule, old, new, job, told>>

\* The query for the results fails: evaluateCondition answers "not triggered"
\* and the evaluation goes on, to a state and an alert the results may deny.
ReadConditionFails(e, c) ==
    /\ events < MaxEvents
    /\ events' = events + 1
    /\ pc[e] = "read"
    /\ c \in unread[e]
    /\ unread' = [unread EXCEPT ![e] = @ \ {c}]
    /\ UNCHANGED <<matching, live, rowVars, ruleMu, pc, todo, rule, seen, old, new, job, told>>

\* The groups are combined and GetRuleState is read; no row means healthy.
Compare(e) ==
    /\ pc[e] = "read"
    /\ unread[e] = {}
    /\ new' = [new EXCEPT ![e] = Verdict(rule[e], seen[e])]
    /\ old' = [old EXCEPT ![e] = IF rule[e] \in hasRow THEN state[rule[e]] ELSE "healthy"]
    /\ pc' = [pc EXCEPT ![e] = "compare"]
    /\ UNCHANGED <<dbVars, rowVars, ruleMu, todo, rule, unread, seen, job, told>>

Unchanged(e) ==
    /\ pc[e] = "compare"
    /\ new[e] = old[e]
    /\ Touch(rule[e])
    /\ Unlock(e)
    /\ UNCHANGED <<dbVars, job, told>>

\* UpdateRuleStateCAS, first statement: INSERT OR IGNORE of the old state ...
InsertRow(e) ==
    /\ pc[e] = "compare"
    /\ new[e] # old[e]
    /\ rule[e] \in live
    /\ hasRow' = hasRow \cup {rule[e]}
    /\ state' = IF rule[e] \in hasRow THEN state ELSE [state EXCEPT ![rule[e]] = old[e]]
    /\ pc' = [pc EXCEPT ![e] = "swap"]
    /\ UNCHANGED <<dbVars, ruleMu, todo, rule, unread, seen, old, new, job, told>>

\* Mutant: the mutex is given back before waiting for a place in alertSem.
SwapStateUnlocking(e) ==
    /\ pc[e] = "swap"
    /\ rule[e] \in hasRow
    /\ state[rule[e]] = old[e]
    /\ state' = [state EXCEPT ![rule[e]] = new[e]]
    /\ pc' = [pc EXCEPT ![e] = "launch"]
    /\ ruleMu' = [ruleMu EXCEPT ![rule[e]] = None]
    /\ UNCHANGED <<dbVars, hasRow, todo, rule, unread, seen, old, new, job, told>>

\* Second statement: UPDATE ... WHERE current_state = old; a row was changed.
SwapState(e) ==
    /\ pc[e] = "swap"
    /\ rule[e] \in hasRow
    /\ state[rule[e]] = old[e]
    /\ state' = [state EXCEPT ![rule[e]] = new[e]]
    /\ pc' = [pc EXCEPT ![e] = "launch"]
    /\ UNCHANGED <<dbVars, hasRow, ruleMu, todo, rule, unread, seen, old, new, job, told>>

\* No row was changed: someone else made the transition, or the row is gone.
SwapLost(e) ==
    /\ pc[e] = "swap"
    /\ ~(rule[e] \in hasRow /\ state[rule[e]] = old[e])
    /\ Unlock(e)
    /\ UNCHANGED <<dbVars, rowVars, job, told>>

\* ... or it is an error, because the foreign key refuses the row.
InsertRefused(e) ==
    /\ pc[e] = "compare"
    /\ new[e] # old[e]
    /\ rule[e] \notin live
    /\ Unlock(e)
    /\ UNCHANGED <<dbVars, rowVars, job, told>>

\* Mutant: the error returns do not run the Unlock.
QueryFailsLocked(e) ==
    /\ events < MaxEvents
    /\ events' = events + 1
    /\ pc[e] \in {"list", "read", "compare", "swap"}
    /\ unread[e] = {}
    /\ pc' = [pc EXCEPT ![e] = "next"]
    /\ UNCHANGED <<matching, live, rowVars, ruleMu, todo, rule, unread, seen, old, new, job, told>>

\* Any other query fails: Evaluate returns, or evaluateRule does.  At "read"
\* it is GetRuleState, when no condition is left to read.
QueryFails(e) ==
    /\ events < MaxEvents
    /\ events' = events + 1
    /\ \/ /\ pc[e] = "started"
          /\ pc' = [pc EXCEPT ![e] = "idle"]
          /\ todo' = [todo EXCEPT ![e] = {}]
          /\ UNCHANGED <<ruleMu, rule, unread, seen, old, new>>
       \/ /\ pc[e] \in {"list", "read", "compare", "swap"}
          /\ unread[e] = {}
          /\ Unlock(e)
    /\ UNCHANGED <<matching, live, rowVars, job, told>>

\* Mutant: the send on alertSem has a default case that drops the alert.
LaunchOrDrop(e, s) ==
    /\ pc[e] = "launch"
    /\ \/ /\ job[s] = None
          /\ job' = [job EXCEPT ![s] = [rule |-> rule[e], from |-> old[e], to |-> new[e]]]
          /\ told' = [told EXCEPT ![rule[e]] = new[e]]
       \/ /\ job[s] # None
          /\ UNCHANGED <<job, told>>
    /\ Unlock(e)
    /\ UNCHANGED <<dbVars, rowVars>>

\* alertSem <- struct{}{}, then the goroutine that calls Dispatch.
Launch(e, s) ==
    /\ pc[e] = "launch"
    /\ job[s] = None
    /\ job' = [job EXCEPT ![s] = [rule |-> rule[e], from |-> old[e], to |-> new[e]]]
    /\ told' = [told EXCEPT ![rule[e]] = new[e]]
    /\ Unlock(e)
    /\ UNCHANGED <<dbVars, rowVars>>

\* Mutant: the place is not freed by a deferred call, and firing alerts panic.
DispatchReturnsUnlessPanic(s) ==
    /\ job[s] # None
    /\ job[s].to = "healthy"
    /\ job' = [job EXCEPT ![s] = None]
    /\ UNCHANGED <<dbVars, rowVars, ruleMu, evalVars, told>>

\* Dispatch returns or panics: the deferred function frees the place.
DispatchReturns(s) ==
    /\ job[s] # None
    /\ job' = [job EXCEPT ![s] = None]
    /\ UNCHANGED <<dbVars, rowVars, ruleMu, evalVars, told>>

-------------------------------------------------------------------------------
\* Every step of an evaluator except the failing of its queries.
Step(e) ==
    \/ ListRules(e)
    \/ \E r \in Rule : NextRule(e, r)
    \/ Finish(e)
    \/ Lock(e)
    \/ ListConditions(e)
    \/ \E c \in Check : ReadCondition(e, c)
    \/ Compare(e)
    \/ Unchanged(e)
    \/ InsertRow(e)
    \/ SwapState(e)
    \/ SwapLost(e)
    \/ InsertRefused(e)
    \/ \E s \in Slot : Launch(e, s)

Next ==
    \/ \E c \in Check, e \in Evaluator : SaveResult(c, e)
    \/ \E c \in Check : Expire(c)
    \/ \E r \in Rule : DeleteRule(r)
    \/ \E e \in Evaluator : Step(e) \/ QueryFails(e)
    \/ \E e \in Evaluator, c \in Check : ReadConditionFails(e, c)
    \/ \E s \in Slot : DispatchReturns(s)

Spec == Init /\ [][Next]_vars

\* A goroutine that can run does run; Go hands a mutex and a channel to its
\* waiters in turn, so one that is offered again and again is got (strong
\* fairness).  Dispatch returns: its sends have timeouts.  Checks keep being
\* run (ActiveCheckKeepsRunning of module Scheduler), so each keeps saving
\* results.
Fairness ==
    /\ \A e \in Evaluator : SF_vars(Step(e))
    /\ \A s \in Slot : WF_vars(DispatchReturns(s))
    /\ \A c \in Check : SF_vars(\E e \in Evaluator : SaveResult(c, e))

FairSpec == Spec /\ Fairness

-------------------------------------------------------------------------------
(* Safety                                                                  *)

\* The mutex of a rule is held by exactly the evaluator that is between
\* Lock and Unlock for it, so evaluations of one rule never overlap
\* (evaluateRule: "Serialize evaluation per rule to prevent duplicate alerts").
EvaluationsSerialised ==
    \A e \in Evaluator, r \in Rule :
        (ruleMu[r] = e) <=> (pc[e] \in Critical /\ rule[e] = r)

\* No transition is lost between the database and the alerter: a rule whose
\* stored state differs from the one last announced has an evaluator about
\* to launch exactly that announcement, also while alertSem is full.
TransitionInHand ==
    \A r \in Rule : state[r] # told[r] =>
        \E e \in Evaluator : pc[e] = "launch" /\ rule[e] = r /\ new[e] = state[r] /\ old[e] = told[r]

\* A Dispatch call continues where the previous one of that rule stopped:
\* its old state is the state the alerter was told last, its new state
\* another one, so a rule never fires twice without a recovery between.
DispatchesAlternate ==
    [][\A s \in Slot : job'[s] # None /\ job'[s] # job[s] =>
        LET j == job'[s] IN j.from = told[j.rule] /\ j.to # j.from]_vars

\* The engine implements the abstract feed of announcements.
Abstract == INSTANCE RuleAlerts WITH
    alive <- live, status <- state, told <- told
AnnouncesEveryTransition == Abstract!Spec

-------------------------------------------------------------------------------
(* Liveness                                                                *)

\* Once conditions stop changing and queries stop failing, every rule that
\* still exists settles in the state its conditions give, and the alerter
\* has been told so: neither an evaluation that read older results nor one
\* whose query for them failed, and which may have set an unhealthy rule
\* healthy and announced that, has the last word.
SettlesOnVerdict ==
    <>[](\A r \in live : state[r] = Verdict(r, matching) /\ told[r] = state[r])

\* Every evaluator waiting with a transition in hand gets its place.
LaunchHappens ==
    \A e \in Evaluator : pc[e] = "launch" ~> pc[e] # "launch"
===============================================================================
