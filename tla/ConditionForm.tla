----------------------------- MODULE ConditionForm -----------------------------
(***************************************************************************)
(* The conditions in the dialog of a target: groups of conditions with one *)
(* operator each, added, changed and removed one by one, what the browser  *)
(* lets through and what the server makes of it.  Names and comparators are     *)
(* left out; of a configuration the keys it has are kept.                  *)
(***************************************************************************)
EXTENDS Naturals, Sequences, FiniteSets

CONSTANTS
    Type,           \* types of checks, with the one a new condition has
    FirstType,
    Intervals,      \* values typed into the fields
    Counts,
    Windows,
    FirstInterval,  \* 60 s
    MaxInterval,    \* 86400 s
    MaxCount,       \* 100
    LongestWindow,  \* 1800 s
    MaxConditions,  \* bound: conditions in the form
    MaxGroup        \* bound: numbers of groups, which are not used again below the highest

AllTypes == {"http", "tcp", "ping", "dns", "page_hash", "tls_cert", "snmp_v2c", "snmp_v3"}

ASSUME FormAssumption ==
    /\ FirstType \in Type /\ Type \subseteq AllTypes
    /\ Intervals \subseteq Nat \ {0} /\ Counts \subseteq Nat /\ Windows \subseteq Nat
    /\ FirstInterval \in Nat \ {0} /\ MaxInterval \in Nat \ {0}
    /\ MaxCount \in Nat \ {0} /\ LongestWindow \in Nat

VARIABLE conditions      \* form.conditions

\* The keys a configuration starts with.
getDefaultConfig(type) ==
    CASE type = "http" ->
            {"scheme", "port", "endpoint", "expect_status", "skip_tls_verify", "timeout_s"}
      [] type = "ping" -> {"count", "timeout_s"}
      [] type = "dns" -> {"query", "record_type", "expect_value", "nameserver"}
      [] type = "page_hash" -> {"scheme", "endpoint", "baseline_hash", "timeout_s"}
      [] type = "tls_cert" -> {"port", "warn_days", "timeout_s"}
      [] type \in {"tcp", "snmp_v2c", "snmp_v3"} -> {"port", "timeout_s"}

\* The keys the dialog has a field for: two timeouts are never shown.
Fields(type) ==
    CASE type = "http" ->
            {"scheme", "port", "endpoint", "expect_status", "timeout_s", "skip_tls_verify"}
      [] type = "ping" -> {"count", "timeout_s"}
      [] type = "dns" -> {"query", "record_type", "expect_value", "nameserver"}
      [] type = "page_hash" -> {"scheme", "endpoint", "baseline_hash"}
      [] type = "tls_cert" -> {"port", "warn_days"}
      [] type \in {"tcp", "snmp_v2c", "snmp_v3"} -> {"port", "timeout_s"}

getDefaultCondition(group, operator) ==
    [stored |-> FALSE, type |-> FirstType, config |-> getDefaultConfig(FirstType),
     interval |-> FirstInterval, count |-> 1, window |-> 0, group |-> group, operator |-> operator]

FormInit == conditions = <<>>

Positions == DOMAIN conditions
Groups == {conditions[i].group : i \in Positions}
InGroup(g) == {i \in Positions : conditions[i].group = g}
Grow(c) == Len(conditions) < MaxConditions /\ conditions' = Append(conditions, c)

\* The number above the highest.
addGroup ==
    \E group \in 0 .. MaxGroup :
        /\ \A g \in Groups : g < group
        /\ group = 0 \/ group - 1 \in Groups
        /\ Grow(getDefaultCondition(group, "AND"))

\* Every condition starts with AND.
addConditionPlain(g) == g \in Groups /\ Grow(getDefaultCondition(g, "AND"))

\* A new condition takes the operator of the first of its group.
addConditionToGroup(g) ==
    \E first \in InGroup(g) :
        /\ \A i \in InGroup(g) : first <= i
        /\ Grow(getDefaultCondition(g, conditions[first].operator))

\* The two buttons are there for groups of two and more.
setGroupOperator(g, operator) ==
    /\ Cardinality(InGroup(g)) > 1
    /\ conditions' = [i \in Positions |->
          IF conditions[i].group = g THEN [conditions[i] EXCEPT !.operator = operator]
          ELSE conditions[i]]

\* The conditions at some positions, in the order they have.
Keep(kept) ==
    \E place \in [1 .. Cardinality(kept) -> kept] :
        /\ \A i, j \in DOMAIN place : i < j => place[i] < place[j]
        /\ conditions' = [i \in DOMAIN place |-> conditions[place[i]]]

removeCondition(i) == i \in Positions /\ Keep(Positions \ {i})
removeGroup(g) == g \in Groups /\ Keep(Positions \ InGroup(g))

Change(i, c) == i \in Positions /\ conditions' = [conditions EXCEPT ![i] = c]
Least(c) == c.count * c.interval

\* The window follows when it has become too small.
onFailCountChange(i, n) ==
    LET c == [conditions[i] EXCEPT !.count = n]
    IN Change(i, IF n <= 1 THEN [c EXCEPT !.window = 0]
                 ELSE [c EXCEPT !.window = IF @ < Least(c) THEN Least(c) ELSE @])

onIntervalChange(i, s) ==
    LET c == [conditions[i] EXCEPT !.interval = s]
    IN Change(i, IF c.count > 1 /\ c.window < Least(c) THEN [c EXCEPT !.window = Least(c)] ELSE c)

\* Off with a count of one.
typeWindow(i, w) == conditions[i].count > 1 /\ Change(i, [conditions[i] EXCEPT !.window = w])

\* The type of a check that is stored cannot be chosen any more.
onConditionTypeChange(i, type) ==
    /\ ~conditions[i].stored
    /\ Change(i, [conditions[i] EXCEPT !.type = type,
                                           !.config = getDefaultConfig(type)])
-----------------------------------------------------------------------------
(* Saving. *)

\* The browser does not look at the smallest window.
ValidAnyWindow(c) == c.count >= 1 /\ (c.count > 1 => c.window <= LongestWindow)

\* What the fields' limits let through; a field that is off is not looked at.
Valid(c) ==
    /\ c.count >= 1
    /\ c.count > 1 => Least(c) <= c.window /\ c.window <= LongestWindow

Smallest(a, b) == IF a <= b THEN a ELSE b

\* The server's limits; the least window is made of the limited values.
Accept(c) ==
    LET limited == [c EXCEPT !.interval = Smallest(@, MaxInterval), !.count = Smallest(@, MaxCount)]
        window == IF limited.window < Least(limited) THEN Least(limited) ELSE limited.window
    IN [limited EXCEPT !.stored = TRUE,
                       !.window = IF limited.count <= 1 THEN @ ELSE Smallest(window, LongestWindow)]

\* The conditions come back ordered by group, those of a group as they were.
Before(i, j) ==
    \/ conditions[i].group < conditions[j].group
    \/ conditions[i].group = conditions[j].group /\ i < j

\* The target is saved and opened again.
SaveAndReopen ==
    /\ conditions # <<>>
    /\ \A i \in Positions : Valid(conditions[i])
    /\ \E place \in [Positions -> Positions] :
          /\ \A i, j \in Positions : i < j => Before(place[i], place[j])
          /\ conditions' = [i \in Positions |-> Accept(conditions[place[i]])]

\* A clone has the conditions without the identifiers of the checks.
CloneOpens ==
    /\ \E i \in Positions : conditions[i].stored
    /\ conditions' = [i \in Positions |-> [conditions[i] EXCEPT !.stored = FALSE]]
-----------------------------------------------------------------------------
FormNext ==
    \/ addGroup \/ SaveAndReopen \/ CloneOpens
    \/ \E g \in Groups :
          \/ addConditionToGroup(g) \/ removeGroup(g)
          \/ \E operator \in {"AND", "OR"} : setGroupOperator(g, operator)
    \/ \E i \in Positions :
          \/ removeCondition(i)
          \/ \E n \in Counts : onFailCountChange(i, n)
          \/ \E s \in Intervals : onIntervalChange(i, s)
          \/ \E w \in Windows : typeWindow(i, w)
          \/ \E type \in Type : onConditionTypeChange(i, type)

FormSpec == FormInit /\ [][FormNext]_conditions
-----------------------------------------------------------------------------
(* Properties. *)

\* However groups are added, emptied and taken up again, the conditions of a group have
\* one operator: the dialog shows that of the first, the engine takes it for all.
GroupsAgree ==
    \A i, j \in Positions :
        conditions[i].group = conditions[j].group => conditions[i].operator = conditions[j].operator

\* The window in a form the browser lets through is the window that is stored, and each
\* field shown stands for a key of the configuration, so that what is left untouched is
\* stored as it is shown.
StoredAsShown ==
    \A i \in Positions : LET c == conditions[i] IN
        /\ Fields(c.type) \subseteq c.config
        /\ Valid(c) => Accept(c).window = c.window

===============================================================================
