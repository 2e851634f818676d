------------------------------ MODULE TargetStore ------------------------------
(***************************************************************************)
(* The handlers of the server that create, pause, unpause and              *)
(* delete a target.  Creating is one transaction; the others are several   *)
(* statements, between which other handlers run.                           *)
(***************************************************************************)
EXTENDS Naturals, FiniteSets

CONSTANTS
    Target,         \* targets, there already or still to be created
    FirstTargets,   \* those there are at first
    Handler,        \* places for requests
    MaxFailures     \* bound: statements that fail

ASSUME TargetAssumption == FirstTargets \subseteq Target /\ MaxFailures \in Nat

VARIABLES
    there,      \* rows of targets
    known,      \* identifiers of targets given out so far
    rules,      \* targets whose rule is in the table rules
    paused,     \* targets with paused_at
    open,       \* number of open records in target_pause_history
    handler,    \* the requests being served
    crossed,    \* history: targets with pausing and unpausing handlers that overlapped
    halfway,    \* history: targets with a handler that failed between two statements
    failures

storeVars == <<there, known, rules, paused, open, handler, crossed, halfway, failures>>

Idle == [op |-> "none", target |-> "none", pc |-> "idle"]

StoreInit ==
    /\ there = FirstTargets /\ known = FirstTargets /\ rules = FirstTargets
    /\ paused = {}
    /\ open = [t \in Target |-> 0]
    /\ handler = [h \in Handler |-> Idle]
    /\ crossed = {} /\ halfway = {}
    /\ failures = 0

At(h, op, pc) == handler[h].op = op /\ handler[h].pc = pc
Step(h, pc) == handler' = [handler EXCEPT ![h].pc = pc]
Done(h) == handler' = [handler EXCEPT ![h] = Idle]

\* Handlers past their first statement on a target.
Amid(t, ops) ==
    {h \in Handler : handler[h].target = t /\ handler[h].op \in ops /\ handler[h].pc # "check"}

\* The identifiers in requests are those that have been given out.
Receive(h, op, t) ==
    /\ handler[h] = Idle
    /\ t \in known
    /\ handler' = [handler EXCEPT ![h] = [op |-> op, target |-> t, pc |-> "check"]]
    /\ UNCHANGED <<there, known, rules, paused, open, crossed, halfway, failures>>
-----------------------------------------------------------------------------
(* Creating. *)

\* The identifier is new: a deleted target does not come back.
CreateTarget(h, t) ==
    /\ handler[h] = Idle
    /\ t \notin known
    /\ there' = there \cup {t}
    /\ known' = known \cup {t} /\ rules' = rules \cup {t}
    /\ UNCHANGED <<paused, open, handler, crossed, halfway, failures>>
-----------------------------------------------------------------------------
(* Pausing: look, write the target, write the history. *)

\* Another one that has looked already and has not finished.
Crossing(h, t) == IF Amid(t, {"pause", "unpause"}) \ {h} # {} THEN {t} ELSE {}

CheckPaused(h) ==
    LET t == handler[h].target IN
    /\ handler[h].op \in {"pause", "unpause"} /\ handler[h].pc = "check"
    /\ IF t \in there /\ (t \in paused) = (handler[h].op = "unpause")
       THEN Step(h, "mark") /\ crossed' = crossed \cup Crossing(h, t)
       ELSE Done(h) /\ UNCHANGED crossed
    /\ UNCHANGED <<there, known, rules, paused, open, halfway, failures>>

MarkPaused(h) ==
    LET t == handler[h].target IN
    /\ At(h, "pause", "mark")
    /\ paused' = paused \cup ({t} \cap there)
    /\ Step(h, "record")
    /\ UNCHANGED <<there, known, rules, open, crossed, halfway, failures>>

\* A record of a target that has been deleted meanwhile is refused.
RecordPause(h) ==
    LET t == handler[h].target IN
    /\ At(h, "pause", "record")
    /\ open' = [open EXCEPT ![t] = IF t \in there THEN @ + 1 ELSE @]
    /\ Done(h)
    /\ UNCHANGED <<there, known, rules, paused, crossed, halfway, failures>>

ClearPaused(h) ==
    /\ At(h, "unpause", "mark")
    /\ paused' = paused \ {handler[h].target}
    /\ Step(h, "record")
    /\ UNCHANGED <<there, known, rules, open, crossed, halfway, failures>>

\* The record is looked for by the pause it belongs to, which is gone by now.
RecordResumeNone(h) ==
    /\ At(h, "unpause", "record")
    /\ open' = [open EXCEPT ![handler[h].target] = IF handler[h].target \in paused THEN 0 ELSE @]
    /\ Done(h)
    /\ UNCHANGED <<there, known, rules, paused, crossed, halfway, failures>>

\* Every open record of the target is closed; then its checks are queued.
RecordResume(h) ==
    /\ At(h, "unpause", "record")
    /\ open' = [open EXCEPT ![handler[h].target] = 0]
    /\ Done(h)
    /\ UNCHANGED <<there, known, rules, paused, crossed, halfway, failures>>

-----------------------------------------------------------------------------
(* Deleting: look the rule up, delete it, delete the target. *)

LookupRule(h) ==
    LET t == handler[h].target IN
    /\ At(h, "delete", "check")
    /\ Step(h, IF t \in there THEN "rule" ELSE "row")
    /\ UNCHANGED <<there, known, rules, paused, open, crossed, halfway, failures>>

\* The deletion ends with the rule.
DeleteRuleOnly(h) ==
    /\ At(h, "delete", "rule")
    /\ rules' = rules \ {handler[h].target}
    /\ Done(h)
    /\ UNCHANGED <<there, known, paused, open, crossed, halfway, failures>>

DeleteRule(h) ==
    /\ At(h, "delete", "rule")
    /\ rules' = rules \ {handler[h].target}
    /\ Step(h, "row")
    /\ UNCHANGED <<there, known, paused, open, crossed, halfway, failures>>

\* The records of the target go with it.
DeleteRow(h) ==
    LET t == handler[h].target IN
    /\ At(h, "delete", "row")
    /\ there' = there \ {t}
    /\ paused' = paused \ {t}
    /\ open' = [open EXCEPT ![t] = 0]
    /\ Done(h)
    /\ UNCHANGED <<known, rules, crossed, halfway, failures>>

StatementFails(h) ==
    /\ handler[h] # Idle
    /\ failures < MaxFailures /\ failures' = failures + 1
    /\ halfway' = IF handler[h].pc = "check" THEN halfway
                  ELSE halfway \cup {handler[h].target}
    /\ Done(h)
    /\ UNCHANGED <<there, known, rules, paused, open, crossed>>
-----------------------------------------------------------------------------
Handle(h) ==
    \/ CheckPaused(h) \/ MarkPaused(h) \/ RecordPause(h) \/ ClearPaused(h) \/ RecordResume(h)
    \/ LookupRule(h) \/ DeleteRule(h) \/ DeleteRow(h)

StoreNext ==
    \E h \in Handler :
        \/ \E t \in Target : \/ \E op \in {"pause", "unpause", "delete"} : Receive(h, op, t)
                             \/ CreateTarget(h, t)
        \/ Handle(h) \/ StatementFails(h)

StoreSpec == StoreInit /\ [][StoreNext]_storeVars
-----------------------------------------------------------------------------
(* Properties. *)

\* The types of the target tables.
StoreTypeOK ==
    /\ there \subseteq known /\ known \subseteq Target
    /\ rules \subseteq known /\ paused \subseteq there
    /\ open \in [Target -> Nat]
    /\ \A h \in Handler :
          /\ handler[h].op \in {"none", "pause", "unpause", "delete"}
          /\ handler[h].pc \in {"idle", "check", "mark", "record", "rule", "row"}
          /\ handler[h] # Idle => handler[h].target \in Target
    /\ failures \in 0 .. MaxFailures

\* What the SLA reports leave out as paused time is what was paused: a target has one
\* open record while it is paused and none while it is not, between the handlers'
\* statements aside, and except where two of them crossed or one failed halfway.
PauseRecorded ==
    \A t \in there \ (crossed \cup halfway) :
        Amid(t, {"pause", "unpause"}) = {} => open[t] = (IF t \in paused THEN 1 ELSE 0)

\* A target that is there can alert and can be edited: it has its rule, unless its
\* deletion is under way or failed after the rule was gone.
RuleInPlace ==
    \A t \in there \ halfway : t \in rules \/ Amid(t, {"delete"}) # {}

===============================================================================
