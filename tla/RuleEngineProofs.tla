--------------------------- MODULE RuleEngineProofs ---------------------------
(***************************************************************************)
(* Proofs about module RuleEngine, for any rules, checks, conditions,      *)
(* number of evaluators and capacity of alertSem.                          *)
(***************************************************************************)
EXTENDS RuleEngine, TLAPS

-------------------------------------------------------------------------------
(* Type correctness                                                        *)

\* An evaluator that waits for a mutex, or holds one, has a rule in hand.
RuleInHand == \A e \in Evaluator : pc[e] \in Critical \cup {"lock"} => rule[e] \in Rule

Typed == TypeOK /\ RuleInHand

\* What Unlock does to the evaluators' variables keeps their types.
LEMMA UnlockTyped ==
    ASSUME Typed, NEW e \in Evaluator, Unlock(e)
    PROVE  /\ ruleMu' \in [Rule -> Evaluator \cup {None}]
           /\ pc' \in [Evaluator -> Pc]
           /\ todo' \in [Evaluator -> SUBSET Rule]
           /\ rule' \in [Evaluator -> Rule \cup {None}]
           /\ unread' \in [Evaluator -> SUBSET Check]
           /\ seen' \in [Evaluator -> SUBSET Check]
           /\ old' \in [Evaluator -> Status]
           /\ new' \in [Evaluator -> Status]
           /\ RuleInHand'
<1>1. \A f \in Evaluator : f # e => pc'[f] = pc[f] /\ rule'[f] = rule[f]
  BY DEF Unlock, Typed, TypeOK
<1>2. pc'[e] = "next"
  BY DEF Unlock, Typed, TypeOK
<1>3. RuleInHand'
  BY <1>1, <1>2 DEF Typed, RuleInHand, Critical
<1>. QED
  BY <1>3 DEF Unlock, Typed, TypeOK, Pc, Status

\* Touch keeps the types of the rule_states rows.
LEMMA TouchTyped ==
    ASSUME TypeOK, NEW r \in Rule, Touch(r)
    PROVE  /\ hasRow' \in SUBSET Rule
           /\ state' \in [Rule -> Status]
BY DEF Touch, TypeOK, Status

LEMMA ConditionsTyped ==
    ASSUME NEW r \in Rule
    PROVE  Conditions(r) \subseteq Check
<1>1. Groups[r] \subseteq SUBSET Check
  BY EngineAssumption
<1>. QED  BY <1>1 DEF Conditions

LEMMA TypedInductive == Typed /\ [Next]_vars => Typed'
<1> SUFFICES ASSUME Typed, [Next]_vars PROVE Typed'
  OBVIOUS
<1>0. TypeOK
  BY DEF Typed
<1>1. ASSUME NEW c \in Check, NEW e \in Evaluator, SaveResult(c, e) PROVE Typed'
  BY <1>1, EngineAssumption DEF Typed, RuleInHand, Critical, SaveResult, TypeOK, rowVars, Pc
<1>2. ASSUME NEW r \in Rule, DeleteRule(r) PROVE Typed'
  BY <1>2 DEF Typed, RuleInHand, Critical, DeleteRule, TypeOK, evalVars
<1>3. ASSUME NEW e \in Evaluator, ListRules(e) PROVE Typed'
  BY <1>3 DEF Typed, RuleInHand, Critical, ListRules, TypeOK, dbVars, rowVars, Pc
<1>4. ASSUME NEW e \in Evaluator, NEW r \in Rule, NextRule(e, r) PROVE Typed'
  BY <1>4 DEF Typed, RuleInHand, Critical, NextRule, TypeOK, dbVars, rowVars, Pc
<1>5. ASSUME NEW e \in Evaluator, Finish(e) PROVE Typed'
  BY <1>5 DEF Typed, RuleInHand, Critical, Finish, TypeOK, dbVars, rowVars, Pc
<1>6. ASSUME NEW e \in Evaluator, Lock(e) PROVE Typed'
  BY <1>6 DEF Typed, RuleInHand, Critical, Lock, TypeOK, dbVars, rowVars, Pc
<1>7. ASSUME NEW e \in Evaluator, ListConditions(e) PROVE Typed'
  <2>1. CASE Touch(rule[e]) /\ Unlock(e)
    <3>1. rule[e] \in Rule
      BY <1>7 DEF Typed, RuleInHand, Critical, ListConditions
    <3>2. UNCHANGED <<dbVars, job, told>>
      BY <1>7 DEF ListConditions
    <3>. QED  BY <1>0, <2>1, <3>1, <3>2, TouchTyped, UnlockTyped DEF Typed, TypeOK, dbVars
  <2>2. CASE pc' = [pc EXCEPT ![e] = "read"] /\ UNCHANGED <<rowVars, ruleMu, todo, rule, seen, old, new>>
    <3>1. rule[e] \in Rule
      BY <1>7 DEF Typed, RuleInHand, Critical, ListConditions
    <3>2. unread' \in [Evaluator -> SUBSET Check]
      BY <1>0, <1>7, <3>1, ConditionsTyped DEF ListConditions, Unlock, TypeOK
    <3>3. UNCHANGED <<dbVars, job, told>>
      BY <1>7 DEF ListConditions
    <3>. QED  BY <2>2, <3>1, <3>2, <3>3 DEF Typed, TypeOK, RuleInHand, Critical, dbVars, rowVars, Pc
  <2>. QED  BY <1>7, <2>1, <2>2 DEF ListConditions
<1>8. ASSUME NEW e \in Evaluator, NEW c \in Check, ReadCondition(e, c) PROVE Typed'
  BY <1>8 DEF Typed, RuleInHand, Critical, ReadCondition, TypeOK, dbVars, rowVars
<1>9. ASSUME NEW e \in Evaluator, Compare(e) PROVE Typed'
  BY <1>9 DEF Typed, RuleInHand, Critical, Compare, TypeOK, dbVars, rowVars, Pc, Status, Verdict
<1>10. ASSUME NEW e \in Evaluator, Unchanged(e) PROVE Typed'
  <2>1. rule[e] \in Rule
    BY <1>10 DEF Typed, RuleInHand, Critical, Unchanged
  <2>2. Touch(rule[e]) /\ Unlock(e) /\ UNCHANGED <<dbVars, job, told>>
    BY <1>10 DEF Unchanged
  <2>. QED  BY <1>0, <2>1, <2>2, TouchTyped, UnlockTyped DEF Typed, TypeOK, dbVars
<1>11. ASSUME NEW e \in Evaluator, InsertRow(e) PROVE Typed'
  BY <1>11 DEF Typed, RuleInHand, Critical, InsertRow, TypeOK, dbVars, Pc
<1>12. ASSUME NEW e \in Evaluator, SwapState(e) PROVE Typed'
  BY <1>12 DEF Typed, RuleInHand, Critical, SwapState, TypeOK, dbVars, Pc
<1>13. ASSUME NEW e \in Evaluator, SwapLost(e) PROVE Typed'
  <2>1. Unlock(e) /\ UNCHANGED <<dbVars, rowVars, job, told>>
    BY <1>13 DEF SwapLost
  <2>. QED  BY <2>1, UnlockTyped DEF Typed, TypeOK, dbVars, rowVars
<1>14. ASSUME NEW e \in Evaluator, InsertRefused(e) PROVE Typed'
  <2>1. Unlock(e) /\ UNCHANGED <<dbVars, rowVars, job, told>>
    BY <1>14 DEF InsertRefused
  <2>. QED  BY <2>1, UnlockTyped DEF Typed, TypeOK, dbVars, rowVars
<1>15. ASSUME NEW e \in Evaluator, QueryFails(e) PROVE Typed'
  <2>1. events' \in 0 .. MaxEvents
    BY <1>15, EngineAssumption DEF QueryFails, Typed, TypeOK
  <2>2. UNCHANGED <<matching, live, rowVars, job, told>>
    BY <1>15 DEF QueryFails
  <2>3. CASE Unlock(e)
    BY <2>1, <2>2, <2>3, UnlockTyped DEF Typed, TypeOK, rowVars
  <2>4. CASE /\ pc' = [pc EXCEPT ![e] = "idle"]
             /\ todo' = [todo EXCEPT ![e] = {}]
             /\ UNCHANGED <<ruleMu, rule, unread, seen, old, new>>
    BY <2>1, <2>2, <2>4 DEF Typed, TypeOK, RuleInHand, Critical, rowVars, Pc
  <2>. QED  BY <1>15, <2>3, <2>4 DEF QueryFails
<1>16. ASSUME NEW e \in Evaluator, NEW s \in Slot, Launch(e, s) PROVE Typed'
  <2>1. rule[e] \in Rule
    BY <1>16 DEF Typed, RuleInHand, Critical, Launch
  <2>2. job' \in [Slot -> Job \cup {None}] /\ told' \in [Rule -> Status]
    BY <1>0, <1>16, <2>1 DEF Launch, TypeOK, Job
  <2>3. Unlock(e) /\ UNCHANGED <<dbVars, rowVars>>
    BY <1>16 DEF Launch
  <2>. QED  BY <2>2, <2>3, UnlockTyped DEF Typed, TypeOK, dbVars, rowVars
<1>17. ASSUME NEW s \in Slot, DispatchReturns(s) PROVE Typed'
  BY <1>17 DEF Typed, RuleInHand, Critical, DispatchReturns, TypeOK, dbVars, rowVars, evalVars
<1>18. CASE UNCHANGED vars
  BY <1>18 DEF Typed, RuleInHand, Critical, vars, dbVars, rowVars, evalVars, TypeOK
<1>19. ASSUME NEW c \in Check, Expire(c) PROVE Typed'
  BY <1>19, EngineAssumption DEF Expire, Typed, RuleInHand, Critical, TypeOK, rowVars, evalVars
<1>20. ASSUME NEW e \in Evaluator, NEW c \in Check, ReadConditionFails(e, c) PROVE Typed'
  BY <1>20, EngineAssumption DEF Typed, RuleInHand, Critical, ReadConditionFails, TypeOK, rowVars
<1>. QED
  BY <1>1, <1>2, <1>3, <1>4, <1>5, <1>6, <1>7, <1>8, <1>9, <1>10, <1>11, <1>12,
     <1>13, <1>14, <1>15, <1>16, <1>17, <1>18, <1>19, <1>20 DEF Next, Step

\* The type invariant: every variable of the engine keeps its type.
THEOREM TypeCorrect == Spec => []TypeOK
<1>1. Init => Typed
  BY EngineAssumption DEF Init, Typed, RuleInHand, Critical, TypeOK, Pc, Status
<1>2. Typed => TypeOK
  BY DEF Typed
<1>. QED  BY <1>1, <1>2, TypedInductive, PTL DEF Spec

-------------------------------------------------------------------------------
(* Coherence: why no transition is lost, repeated or made twice            *)

\* Only rules that exist have a row, and a rule without one is healthy.
RowsOfLiveRules ==
    /\ hasRow \subseteq live
    /\ \A r \in live \ hasRow : state[r] = "healthy"

\* What an evaluator read from rule_states is still so when it swaps.
StateKnown == \A e \in Evaluator :
    pc[e] \in {"compare", "swap"} /\ rule[e] \in live => old[e] = state[rule[e]]

\* Only an evaluator that wants a change comes to the swap.
ChangeWanted == \A e \in Evaluator : pc[e] = "swap" => new[e] # old[e]

\* An evaluator about to launch holds the change not announced yet.
LaunchExact == \A e \in Evaluator : pc[e] = "launch" =>
    /\ new[e] = state[rule[e]]
    /\ old[e] = told[rule[e]]
    /\ new[e] # old[e]

Coherent ==
    /\ EvaluationsSerialised
    /\ RowsOfLiveRules
    /\ StateKnown
    /\ ChangeWanted
    /\ LaunchExact
    /\ TransitionInHand

\* Two evaluators are never past Lock for the same rule.
LEMMA OneEvaluatorPerRule ==
    ASSUME Typed, EvaluationsSerialised,
           NEW e \in Evaluator, NEW f \in Evaluator,
           pc[e] \in Critical, pc[f] \in Critical, rule[e] = rule[f]
    PROVE  e = f
BY DEF EvaluationsSerialised, Typed, RuleInHand

\* Leaving the critical section without touching state, rows or history,
\* other than making the row of a rule that exists, keeps coherence.
LEMMA UnlockCoherent ==
    ASSUME Typed, Coherent, NEW e \in Evaluator, Unlock(e),
           pc[e] \in Critical \ {"launch"},
           UNCHANGED <<live, state, told>>,
           hasRow \subseteq hasRow', hasRow' \subseteq live
    PROVE  Coherent'
<1>1. rule[e] \in Rule
  BY DEF Typed, RuleInHand
<1>2. /\ \A f \in Evaluator : f # e => 
            /\ pc'[f] = pc[f] /\ rule'[f] = rule[f]
            /\ old'[f] = old[f] /\ new'[f] = new[f]
      /\ pc'[e] = "next" /\ rule'[e] = None
  BY DEF Unlock, Typed, TypeOK
<1>3. /\ ruleMu'[rule[e]] = None
      /\ \A r \in Rule : r # rule[e] => ruleMu'[r] = ruleMu[r]
  BY <1>1 DEF Unlock, Typed, TypeOK
<1>4. EvaluationsSerialised'
  BY <1>1, <1>2, <1>3, EngineAssumption DEF Coherent, EvaluationsSerialised, Critical
<1>5. RowsOfLiveRules'
  BY DEF Coherent, RowsOfLiveRules
<1>6. StateKnown' /\ ChangeWanted' /\ LaunchExact'
  BY <1>2 DEF Coherent, StateKnown, ChangeWanted, LaunchExact
<1>7. TransitionInHand'
  BY <1>2 DEF Coherent, TransitionInHand
<1>. QED  BY <1>4, <1>5, <1>6, <1>7 DEF Coherent

\* TouchRuleEvaluated never changes a state.
LEMMA TouchKeepsState ==
    ASSUME Typed, RowsOfLiveRules, NEW r \in Rule, Touch(r)
    PROVE  state' = state /\ hasRow \subseteq hasRow' /\ hasRow' \subseteq live
<1>1. CASE r \in live \ hasRow
  <2>1. state[r] = "healthy"
    BY <1>1 DEF RowsOfLiveRules
  <2>2. state' = state
    BY <1>1, <2>1 DEF Touch, Typed, TypeOK
  <2>. QED  BY <1>1, <2>2 DEF Touch, RowsOfLiveRules
<1>2. CASE r \notin live \ hasRow
  BY <1>2 DEF Touch, RowsOfLiveRules
<1>. QED  BY <1>1, <1>2

LEMMA CoherentInductive == Typed /\ Coherent /\ [Next]_vars => Coherent'
<1> SUFFICES ASSUME Typed, Coherent, [Next]_vars PROVE Coherent'
  OBVIOUS
<1> USE EngineAssumption DEF Coherent, Typed, TypeOK
<1>1. ASSUME NEW c \in Check, NEW e \in Evaluator, SaveResult(c, e) PROVE Coherent'
  BY <1>1 DEF SaveResult, rowVars, EvaluationsSerialised, RowsOfLiveRules,
     StateKnown, ChangeWanted, LaunchExact, TransitionInHand, Critical
<1>2. ASSUME NEW r \in Rule, DeleteRule(r) PROVE Coherent'
  BY <1>2 DEF DeleteRule, evalVars, EvaluationsSerialised, RowsOfLiveRules,
     StateKnown, ChangeWanted, LaunchExact, TransitionInHand, Critical
<1>3. ASSUME NEW e \in Evaluator, ListRules(e) PROVE Coherent'
  BY <1>3 DEF ListRules, dbVars, rowVars, EvaluationsSerialised, RowsOfLiveRules,
     StateKnown, ChangeWanted, LaunchExact, TransitionInHand, Critical
<1>4. ASSUME NEW e \in Evaluator, NEW r \in Rule, NextRule(e, r) PROVE Coherent'
  BY <1>4 DEF NextRule, dbVars, rowVars, EvaluationsSerialised, RowsOfLiveRules,
     StateKnown, ChangeWanted, LaunchExact, TransitionInHand, Critical
<1>5. ASSUME NEW e \in Evaluator, Finish(e) PROVE Coherent'
  BY <1>5 DEF Finish, dbVars, rowVars, EvaluationsSerialised, RowsOfLiveRules,
     StateKnown, ChangeWanted, LaunchExact, TransitionInHand, Critical
<1>6. ASSUME NEW e \in Evaluator, Lock(e) PROVE Coherent'
  BY <1>6 DEF Lock, dbVars, rowVars, RuleInHand, EvaluationsSerialised, RowsOfLiveRules,
     StateKnown, ChangeWanted, LaunchExact, TransitionInHand, Critical
<1>7. ASSUME NEW e \in Evaluator, ListConditions(e) PROVE Coherent'
  <2>1. CASE Touch(rule[e]) /\ Unlock(e)
    <3>1. rule[e] \in Rule
      BY <1>7 DEF RuleInHand, Critical, ListConditions
    <3>2. pc[e] = "list" /\ UNCHANGED <<dbVars, told>>
      BY <1>7 DEF ListConditions
    <3>. QED  BY <2>1, <3>1, <3>2, TouchKeepsState, UnlockCoherent DEF Critical, dbVars
  <2>2. CASE pc' = [pc EXCEPT ![e] = "read"] /\ UNCHANGED <<rowVars, ruleMu, todo, rule, seen, old, new>>
    BY <1>7, <2>2 DEF ListConditions, dbVars, rowVars, EvaluationsSerialised, RowsOfLiveRules,
       StateKnown, ChangeWanted, LaunchExact, TransitionInHand, Critical
  <2>. QED  BY <1>7, <2>1, <2>2 DEF ListConditions
<1>8. ASSUME NEW e \in Evaluator, NEW c \in Check, ReadCondition(e, c) PROVE Coherent'
  BY <1>8 DEF ReadCondition, dbVars, rowVars, EvaluationsSerialised, RowsOfLiveRules,
     StateKnown, ChangeWanted, LaunchExact, TransitionInHand, Critical
<1>9. ASSUME NEW e \in Evaluator, Compare(e) PROVE Coherent'
  BY <1>9 DEF Compare, dbVars, rowVars, RuleInHand, EvaluationsSerialised, RowsOfLiveRules,
     StateKnown, ChangeWanted, LaunchExact, TransitionInHand, Critical
<1>10. ASSUME NEW e \in Evaluator, Unchanged(e) PROVE Coherent'
  <2>1. rule[e] \in Rule
    BY <1>10 DEF RuleInHand, Critical, Unchanged
  <2>2. pc[e] = "compare" /\ Touch(rule[e]) /\ Unlock(e) /\ UNCHANGED <<dbVars, told>>
    BY <1>10 DEF Unchanged
  <2>. QED  BY <2>1, <2>2, TouchKeepsState, UnlockCoherent DEF Critical, dbVars
<1>11. ASSUME NEW e \in Evaluator, InsertRow(e) PROVE Coherent'
  <2>1. state' = state
    BY <1>11 DEF InsertRow, StateKnown, RuleInHand, Critical
  <2>. QED
    BY <1>11, <2>1 DEF InsertRow, dbVars, RuleInHand, EvaluationsSerialised, RowsOfLiveRules,
       StateKnown, ChangeWanted, LaunchExact, TransitionInHand, Critical
<1>12. ASSUME NEW e \in Evaluator, SwapState(e) PROVE Coherent'
  <2>1. rule[e] \in Rule /\ pc[e] = "swap" /\ rule[e] \in live
    BY <1>12 DEF SwapState, RuleInHand, Critical, RowsOfLiveRules
  <2>2. \A f \in Evaluator : f # e /\ pc[f] \in Critical => rule[f] # rule[e]
    BY <2>1, OneEvaluatorPerRule DEF Critical
  <2>3. /\ state'[rule[e]] = new[e]
        /\ \A r \in Rule : r # rule[e] => state'[r] = state[r]
    BY <1>12, <2>1 DEF SwapState
  <2>4. /\ \A f \in Evaluator : f # e => pc'[f] = pc[f]
        /\ pc'[e] = "launch"
        /\ UNCHANGED <<live, hasRow, ruleMu, rule, old, new, told>>
    BY <1>12 DEF SwapState, dbVars
  <2>5. state[rule[e]] = told[rule[e]]
    BY <2>1, <2>2 DEF TransitionInHand, Critical
  <2>6. EvaluationsSerialised'
    BY <2>1, <2>4 DEF EvaluationsSerialised, Critical
  <2>7. RowsOfLiveRules'
    BY <1>12, <2>3, <2>4 DEF SwapState, RowsOfLiveRules
  <2>8. StateKnown' /\ ChangeWanted'
    BY <2>2, <2>3, <2>4 DEF StateKnown, ChangeWanted, RuleInHand, Critical
  <2>9. LaunchExact'
    <3>. SUFFICES ASSUME NEW f \in Evaluator, pc'[f] = "launch"
                  PROVE  (new[f] = state[rule[f]] /\ old[f] = told[rule[f]] /\ new[f] # old[f])'
      BY DEF LaunchExact
    <3>1. CASE f = e
      BY <1>12, <2>1, <2>3, <2>4, <2>5, <3>1 DEF SwapState, ChangeWanted
    <3>2. CASE f # e
      BY <2>2, <2>3, <2>4, <3>2 DEF LaunchExact, RuleInHand, Critical
    <3>. QED  BY <3>1, <3>2
  <2>10. TransitionInHand'
    <3>. SUFFICES ASSUME NEW r \in Rule, (state[r] # told[r])'
                  PROVE  (\E f \in Evaluator : pc[f] = "launch" /\ rule[f] = r
                             /\ new[f] = state[r] /\ old[f] = told[r])'
      BY DEF TransitionInHand
    <3>1. CASE r = rule[e]
      <4>1. state[r] = old[e]
        BY <1>12, <3>1 DEF SwapState
      <4>2. pc'[e] = "launch" /\ rule'[e] = r /\ new'[e] = state'[r] /\ old'[e] = told'[r]
        BY <2>3, <2>4, <2>5, <3>1, <4>1
      <4>. QED  BY <4>2
    <3>2. CASE r # rule[e]
      <4>1. PICK f \in Evaluator : pc[f] = "launch" /\ rule[f] = r
                                    /\ new[f] = state[r] /\ old[f] = told[r]
        BY <2>3, <2>4, <3>2 DEF TransitionInHand
      <4>2. f # e
        BY <2>1, <4>1
      <4>. QED  BY <2>3, <2>4, <3>2, <4>1, <4>2
    <3>. QED  BY <3>1, <3>2
  <2>. QED  BY <2>6, <2>7, <2>8, <2>9, <2>10
<1>13. ASSUME NEW e \in Evaluator, SwapLost(e) PROVE Coherent'
  BY <1>13, UnlockCoherent DEF SwapLost, dbVars, rowVars, Critical, RowsOfLiveRules
<1>14. ASSUME NEW e \in Evaluator, InsertRefused(e) PROVE Coherent'
  BY <1>14, UnlockCoherent DEF InsertRefused, dbVars, rowVars, Critical, RowsOfLiveRules
<1>15. ASSUME NEW e \in Evaluator, QueryFails(e) PROVE Coherent'
  <2>1. CASE pc[e] \in {"list", "read", "compare", "swap"} /\ Unlock(e)
    BY <1>15, <2>1, UnlockCoherent DEF QueryFails, rowVars, Critical, RowsOfLiveRules
  <2>2. CASE /\ pc[e] = "started"
             /\ pc' = [pc EXCEPT ![e] = "idle"]
             /\ UNCHANGED <<ruleMu, rule, unread, seen, old, new>>
    BY <1>15, <2>2 DEF QueryFails, rowVars, EvaluationsSerialised, RowsOfLiveRules,
       StateKnown, ChangeWanted, LaunchExact, TransitionInHand, Critical
  <2>. QED  BY <1>15, <2>1, <2>2 DEF QueryFails
<1>16. ASSUME NEW e \in Evaluator, NEW s \in Slot, Launch(e, s) PROVE Coherent'
  <2>1. rule[e] \in Rule /\ pc[e] = "launch"
    BY <1>16 DEF Launch, RuleInHand, Critical
  <2>2. \A f \in Evaluator : f # e /\ pc[f] \in Critical => rule[f] # rule[e]
    BY <2>1, OneEvaluatorPerRule DEF Critical
  <2>3. /\ told'[rule[e]] = new[e]
        /\ \A r \in Rule : r # rule[e] => told'[r] = told[r]
    BY <1>16, <2>1 DEF Launch
  <2>4. new[e] = state[rule[e]]
    BY <2>1 DEF LaunchExact
  <2>5. /\ ruleMu'[rule[e]] = None
        /\ \A r \in Rule : r # rule[e] => ruleMu'[r] = ruleMu[r]
    BY <1>16, <2>1 DEF Launch, Unlock
  <2>6. /\ \A f \in Evaluator : f # e =>
              /\ pc'[f] = pc[f] /\ rule'[f] = rule[f]
              /\ old'[f] = old[f] /\ new'[f] = new[f]
        /\ pc'[e] = "next" /\ rule'[e] = None
        /\ UNCHANGED <<live, hasRow, state>>
    BY <1>16 DEF Launch, Unlock, dbVars, rowVars
  <2>7. EvaluationsSerialised'
    BY <2>1, <2>5, <2>6 DEF EvaluationsSerialised, Critical
  <2>8. RowsOfLiveRules' /\ StateKnown' /\ ChangeWanted'
    BY <2>6 DEF RowsOfLiveRules, StateKnown, ChangeWanted
  <2>9. LaunchExact'
    BY <2>2, <2>3, <2>6 DEF LaunchExact, RuleInHand, Critical
  <2>10. TransitionInHand'
    <3>. SUFFICES ASSUME NEW r \in Rule, (state[r] # told[r])'
                  PROVE  (\E f \in Evaluator : pc[f] = "launch" /\ rule[f] = r
                             /\ new[f] = state[r] /\ old[f] = told[r])'
      BY DEF TransitionInHand
    <3>1. r # rule[e]
      BY <2>3, <2>4, <2>6
    <3>2. PICK f \in Evaluator : pc[f] = "launch" /\ rule[f] = r
                                  /\ new[f] = state[r] /\ old[f] = told[r]
      BY <2>3, <2>6, <3>1 DEF TransitionInHand
    <3>3. f # e
      BY <3>1, <3>2
    <3>. QED  BY <2>3, <2>6, <3>1, <3>2, <3>3
  <2>. QED  BY <2>7, <2>8, <2>9, <2>10
<1>17. ASSUME NEW s \in Slot, DispatchReturns(s) PROVE Coherent'
  BY <1>17 DEF DispatchReturns, dbVars, rowVars, evalVars, EvaluationsSerialised,
     RowsOfLiveRules, StateKnown, ChangeWanted, LaunchExact, TransitionInHand
<1>18. CASE UNCHANGED vars
  BY <1>18 DEF vars, dbVars, rowVars, evalVars, EvaluationsSerialised,
     RowsOfLiveRules, StateKnown, ChangeWanted, LaunchExact, TransitionInHand
<1>19. ASSUME NEW c \in Check, Expire(c) PROVE Coherent'
  BY <1>19 DEF Expire, rowVars, evalVars, EvaluationsSerialised, RowsOfLiveRules,
     StateKnown, ChangeWanted, LaunchExact, TransitionInHand, Critical
<1>20. ASSUME NEW e \in Evaluator, NEW c \in Check, ReadConditionFails(e, c) PROVE Coherent'
  BY <1>20 DEF ReadConditionFails, rowVars, EvaluationsSerialised, RowsOfLiveRules,
     StateKnown, ChangeWanted, LaunchExact, TransitionInHand, Critical
<1>. QED
  BY <1>1, <1>2, <1>3, <1>4, <1>5, <1>6, <1>7, <1>8, <1>9, <1>10, <1>11, <1>12,
     <1>13, <1>14, <1>15, <1>16, <1>17, <1>18, <1>19, <1>20 DEF Next, Step

\* The invariant holds from the start.
LEMMA CoherentInitially == Init => Typed /\ Coherent
<1>1. Init => Typed
  BY EngineAssumption DEF Init, Typed, RuleInHand, Critical, TypeOK, Pc, Status
<1>2. Init => Coherent
  BY EngineAssumption DEF Init, Coherent, EvaluationsSerialised, RowsOfLiveRules, StateKnown,
     ChangeWanted, LaunchExact, TransitionInHand, Critical
<1>. QED  BY <1>1, <1>2

LEMMA CoherentAlways == Spec => [](Typed /\ Coherent)
BY CoherentInitially, TypedInductive, CoherentInductive, PTL DEF Spec

\* Evaluations of one rule never overlap: its mutex is held by exactly the
\* evaluator between Lock and Unlock.
THEOREM Serialised == Spec => []EvaluationsSerialised
<1>1. Typed /\ Coherent => EvaluationsSerialised
  BY DEF Coherent
<1>. QED  BY <1>1, CoherentAlways, PTL

\* A transition written to rule_states is always in the hands of an
\* evaluator about to launch it, however full alertSem is.
THEOREM NoTransitionLost == Spec => []TransitionInHand
<1>1. Typed /\ Coherent => TransitionInHand
  BY DEF Coherent
<1>. QED  BY <1>1, CoherentAlways, PTL

\* Each Dispatch call starts from the state the alerter was told last and
\* goes to another one.
THEOREM Alternation == Spec => DispatchesAlternate
<1> DEFINE Continues == \A s \in Slot : job'[s] # None /\ job'[s] # job[s] =>
                LET j == job'[s] IN j.from = told[j.rule] /\ j.to # j.from
<1>1. ASSUME Typed, Coherent, [Next]_vars PROVE [Continues]_vars
  <2>1. CASE \E e \in Evaluator, s \in Slot : Launch(e, s)
    <3>1. PICK e \in Evaluator, s \in Slot : Launch(e, s)
      BY <2>1
    <3>2. /\ rule[e] \in Rule
          /\ job' = [job EXCEPT ![s] = [rule |-> rule[e], from |-> old[e], to |-> new[e]]]
          /\ old[e] = told[rule[e]] /\ new[e] # old[e]
      BY <1>1, <3>1 DEF Launch, Typed, RuleInHand, Critical, Coherent, LaunchExact
    <3>. QED  BY <1>1, <3>2 DEF Typed, TypeOK
  <2>2. CASE ~ \E e \in Evaluator, s \in Slot : Launch(e, s)
    <3>1. job' = job \/ \E s \in Slot : job' = [job EXCEPT ![s] = None]
      BY <1>1, <2>2 DEF Next, Step, SaveResult, Expire, DeleteRule, ListRules, NextRule, Finish, Lock,
         evalVars, ListConditions, ReadCondition, Compare, Unchanged, InsertRow, SwapState, SwapLost,
         InsertRefused, QueryFails, ReadConditionFails, DispatchReturns, vars
    <3>. QED  BY <1>1, <3>1 DEF Typed, TypeOK
  <2>. QED  BY <2>1, <2>2
<1>. QED  BY <1>1, CoherentAlways, PTL DEF Spec, DispatchesAlternate

\* The engine implements the abstract feed of announcements: every change of
\* a rule's state is announced once, in order, before the next change.
THEOREM Announces == Spec => AnnouncesEveryTransition
<1>1. Init => Abstract!Init
  BY DEF Init, Abstract!Init
<1>2. ASSUME Typed, Coherent, [Next]_vars PROVE [Abstract!Next]_(Abstract!aVars)
  <2>. USE <1>2 DEF Typed, TypeOK
  <2>1. ASSUME NEW e \in Evaluator, SwapState(e) PROVE \E r \in Rule : Abstract!Flip(r)
    <3>1. /\ rule[e] \in Rule /\ rule[e] \in live
          /\ state[rule[e]] = old[e] /\ new[e] # old[e] /\ new[e] \in Status /\ old[e] \in Status
          /\ state' = [state EXCEPT ![rule[e]] = new[e]]
          /\ UNCHANGED <<live, told>>
      BY <2>1 DEF SwapState, dbVars, RuleInHand, Critical, Coherent, RowsOfLiveRules, ChangeWanted
    <3>2. told[rule[e]] = state[rule[e]]
      <4>1. \A f \in Evaluator : pc[f] = "launch" => rule[f] # rule[e]
        BY <2>1, OneEvaluatorPerRule DEF SwapState, Coherent, Critical
      <4>. QED  BY <3>1, <4>1 DEF Coherent, TransitionInHand
    <3>3. new[e] = Abstract!Opposite(state[rule[e]])
      BY <3>1 DEF Abstract!Opposite, Status
    <3>4. Abstract!Flip(rule[e])
      BY <3>1, <3>2, <3>3 DEF Abstract!Flip
    <3>. QED  BY <3>1, <3>4
  <2>2. ASSUME NEW e \in Evaluator, NEW s \in Slot, Launch(e, s)
        PROVE  \E r \in Rule : Abstract!Announce(r)
    <3>1. /\ rule[e] \in Rule
          /\ new[e] = state[rule[e]] /\ old[e] = told[rule[e]] /\ new[e] # old[e]
          /\ told' = [told EXCEPT ![rule[e]] = new[e]]
          /\ UNCHANGED <<live, state>>
      BY <2>2 DEF Launch, dbVars, rowVars, RuleInHand, Critical, Coherent, LaunchExact
    <3>2. Abstract!Announce(rule[e])
      BY <3>1 DEF Abstract!Announce
    <3>. QED  BY <3>1, <3>2
  <2>3. ASSUME NEW r \in Rule, DeleteRule(r) PROVE Abstract!Retire(r)
    BY <2>3 DEF DeleteRule, Abstract!Retire
  <2>4. ASSUME NEW e \in Evaluator, Touch(rule[e]), rule[e] \in Rule PROVE UNCHANGED state
    BY <2>4, TouchKeepsState DEF Coherent
  <2>5. ASSUME NEW e \in Evaluator, ListConditions(e) \/ Unchanged(e)
        PROVE  UNCHANGED <<live, state, told>>
    <3>1. rule[e] \in Rule
      BY <2>5 DEF ListConditions, Unchanged, RuleInHand, Critical
    <3>. QED  BY <2>4, <2>5, <3>1 DEF ListConditions, Unchanged, dbVars, rowVars
  <2>6. ASSUME NEW e \in Evaluator, InsertRow(e) PROVE UNCHANGED <<live, state, told>>
    BY <2>6 DEF InsertRow, dbVars, RuleInHand, Critical, Coherent, StateKnown
  <2>7. CASE \/ \E c \in Check, e \in Evaluator : SaveResult(c, e)
             \/ \E c \in Check : Expire(c)
             \/ \E e \in Evaluator :
                   \/ ListRules(e) \/ (\E r \in Rule : NextRule(e, r)) \/ Finish(e) \/ Lock(e)
                   \/ (\E c \in Check : ReadCondition(e, c) \/ ReadConditionFails(e, c))
                   \/ Compare(e)
                   \/ SwapLost(e) \/ InsertRefused(e) \/ QueryFails(e)
             \/ \E s \in Slot : DispatchReturns(s)
             \/ UNCHANGED vars
    BY <2>7 DEF SaveResult, Expire, ListRules, NextRule, Finish, Lock, ReadCondition, Compare, SwapLost,
       InsertRefused, QueryFails, ReadConditionFails, DispatchReturns, vars, dbVars, rowVars,
       Abstract!aVars
  <2>. QED
    BY <2>1, <2>2, <2>3, <2>5, <2>6, <2>7 DEF Next, Step, Abstract!Next, Abstract!aVars
<1>. QED  BY <1>1, <1>2, CoherentAlways, PTL DEF Spec, AnnouncesEveryTransition, Abstract!Spec
===============================================================================
