-------------------------------- MODULE RuleEval --------------------------------
(***************************************************************************)
(* One condition of a rule over time: how the API normalises its           *)
(* parameters, when the scheduler runs its check, and what                 *)
(* evaluateCondition makes of the stored results.                          *)
(*                                                                         *)
(* It is what modules RuleEngine and Scheduler leave out: in the first a   *)
(* condition is one bit, in the second time is only an order.  Here time   *)
(* is counted in ticks.  The timer of the check is armed again when a run  *)
(* has ended, so results come interval plus the duration of a run apart.   *)
(* The rule is evaluated after every result of the check and, when it has  *)
(* other conditions, at any moment one of their checks has a result.       *)
(***************************************************************************)
EXTENDS Naturals, FiniteSets

CONSTANTS
    MinInterval,       \* 10 s in the code
    LongestInterval,   \* 86400 s
    MaxFailCount,      \* 100
    MaxWindow,         \* 1800 s
    MaxDuration        \* the longest a run takes: the checker's timeout

ASSUME EvalAssumption ==
    /\ MinInterval \in Nat \ {0} /\ LongestInterval \in Nat /\ MinInterval <= LongestInterval
    /\ MaxFailCount \in Nat \ {0}
    /\ MaxWindow \in Nat \ {0}
    /\ MaxDuration \in Nat

Larger(a, b) == IF a >= b THEN a ELSE b
Smaller(a, b) == IF a <= b THEN a ELSE b

-------------------------------------------------------------------------------
(* The API's normalisation of a condition                                  *)

\* Mutant: the floor does not count with the first result.
NormalizeFailWindowShort(failCount, failWindow, interval) ==
    IF failCount <= 1 THEN failWindow
    ELSE Smaller(Larger(failWindow, (failCount - 1) * interval), MaxWindow)

normalizeFailWindow(failCount, failWindow, interval) ==
    IF failCount <= 1 THEN failWindow
    ELSE Smaller(Larger(failWindow, failCount * interval), MaxWindow)

\* Mutant: fail_count is limited from below only.
AcceptedUncapped(request) ==
    LET interval == Smaller(Larger(request.interval, MinInterval), LongestInterval)
        failCount == Larger(request.failCount, 1)
    IN  [interval |-> interval,
         failCount |-> failCount,
         failWindow |-> normalizeFailWindow(failCount, request.failWindow, interval)]

\* The condition the API stores for the parameters of a request.
Accepted(request) ==
    LET interval == Smaller(Larger(request.interval, MinInterval), LongestInterval)
        failCount == Smaller(Larger(request.failCount, 1), MaxFailCount)
    IN  [interval |-> interval,
         failCount |-> failCount,
         failWindow |-> normalizeFailWindow(failCount, request.failWindow, interval)]

\* Parameters on both sides of each limit.
Request == [interval : 0 .. LongestInterval + 1, failCount : 0 .. MaxFailCount + 1,
            failWindow : 0 .. MaxWindow + 1]

-------------------------------------------------------------------------------
VARIABLES
    cond,       \* the stored condition
    phase,      \* the check is waiting for its timer, or running
    left,       \* ticks until the timer fires or the run ends
    results,    \* check_results: age and "matches the condition" of each
    last,       \* check_state: the newest result matches; FALSE without one
    triggered,  \* what evaluateCondition returned last
    failing,    \* history: matching results in a row, up to MaxFailCount
    slowest     \* history: the longest run so far

evalVars == <<cond, phase, left, results, last, triggered, failing, slowest>>

\* Results older than any window are never read again.
Horizon == MaxWindow + 1

EvalTypeOK ==
    /\ cond \in [interval : MinInterval .. LongestInterval, failCount : 1 .. MaxFailCount,
                 failWindow : 0 .. Horizon]
    /\ phase \in {"waiting", "running"}
    /\ left \in 0 .. Larger(cond.interval, MaxDuration)
    /\ results \in SUBSET [age : 0 .. Horizon, match : BOOLEAN]
    /\ last \in BOOLEAN
    /\ triggered \in BOOLEAN
    /\ failing \in 0 .. MaxFailCount
    /\ slowest \in 0 .. MaxDuration

EvalInit ==
    /\ cond \in {Accepted(request) : request \in Request}
    /\ phase = "waiting"
    /\ left = 0
    /\ results = {}
    /\ last = FALSE
    /\ triggered = FALSE
    /\ failing = 0
    /\ slowest = 0

\* GetRecentResultsByWindow.
Recent(rs) == {r \in rs : r.age <= cond.failWindow}
\* Matching results with no other one since.
Streak(rs) == {r \in rs : \A q \in rs : q.age <= r.age => q.match}

\* Mutant: all matching results in the window are counted, in a row or not.
evaluateConditionCounting(rs, newest) ==
    IF cond.failWindow > 0
    THEN Cardinality({r \in Recent(rs) : r.match}) >= cond.failCount
    ELSE newest

evaluateCondition(rs, newest) ==
    IF cond.failWindow > 0
    THEN Cardinality(Streak(Recent(rs))) >= cond.failCount
    ELSE newest

-------------------------------------------------------------------------------
Tick ==
    /\ left > 0
    /\ left' = left - 1
    /\ results' = {[r EXCEPT !.age = @ + 1] : r \in {q \in results : q.age < Horizon}}
    /\ UNCHANGED <<cond, phase, last, triggered, failing, slowest>>

\* The timer fires and the check runs for as long as it takes.
StartRun ==
    /\ phase = "waiting"
    /\ left = 0
    /\ phase' = "running"
    /\ left' \in 0 .. MaxDuration
    /\ slowest' = Larger(slowest, left')
    /\ UNCHANGED <<cond, results, last, triggered, failing>>

\* The result is saved, the rule evaluated and the timer armed again.
EndRun(match) ==
    /\ phase = "running"
    /\ left = 0
    /\ phase' = "waiting"
    /\ left' = cond.interval
    /\ results' = results \cup {[age |-> 0, match |-> match]}
    /\ last' = match
    /\ triggered' = evaluateCondition(results', match)
    /\ failing' = IF match THEN Smaller(failing + 1, MaxFailCount) ELSE 0
    /\ UNCHANGED <<cond, slowest>>

\* A check of another condition of the rule has a result.
Reevaluate ==
    /\ triggered' = evaluateCondition(results, last)
    /\ UNCHANGED <<cond, phase, left, results, last, failing, slowest>>

EvalNext == Tick \/ StartRun \/ (\E match \in BOOLEAN : EndRun(match)) \/ Reevaluate

EvalSpec == EvalInit /\ [][EvalNext]_evalVars

-------------------------------------------------------------------------------
\* A condition never triggers on fewer than fail_count failures in a row,
\* whatever the window, also where the code ignores fail_count because the
\* window is 0 ("A blip is not an outage", _website/index.html).
NoBlipAlert == triggered => failing >= cond.failCount

\* The window has room for fail_count turns of the check, each with its run:
\* as given, or, if all runs were instant, by the floor normalizeFailWindow
\* puts under it, unless the cap takes that away again.
HasRoom ==
    \/ cond.failCount * (cond.interval + slowest) <= cond.failWindow
    \/ cond.failCount > 1 /\ slowest = 0 /\ cond.failCount * cond.interval <= MaxWindow

\* Where the window has that room, or there is none, a failure that has
\* lasted fail_count results triggers the condition and keeps it triggered
\* at every evaluation, also those another check of the rule causes in the
\* middle of a turn: the window is never what ends an outage.
RoomyFailureTriggers ==
    HasRoom \/ cond.failWindow = 0 => (failing >= cond.failCount => triggered)

\* As normalizeFailWindow has it, the window it computes always has that room
\* ("must fit enough checks to reach the threshold").
ThresholdReached ==
    cond.failCount > 1 /\ failing >= cond.failCount => triggered
===============================================================================
