------------------------------- MODULE Scheduler -------------------------------
(***************************************************************************)
(* The check scheduler: the timers map, loadChecks, runAndReschedule,      *)
(* runCheck, RunNow and Stop, with the API handlers that change the        *)
(* database and call Reload or RunNow.                                     *)
(*                                                                         *)
(* A run <<c, i>> is a goroutine that executes check c: either a timer     *)
(* chain (a time.AfterFunc whose callback runs the check and arms the next *)
(* timer of the chain) or a single run asked for through the event         *)
(* channel.  timers[c] = i says that the map entry of c holds the timer    *)
(* that chain <<c, i>> last armed, which may have fired meanwhile.         *)
(*                                                                         *)
(* Each critical section of s.mu is one action, and so is each query: the  *)
(* database has a single connection.  Time is abstracted to order: an      *)
(* armed timer fires at any moment, the ticker ticks at any moment, and an *)
(* interval is a value that is only compared.                              *)
(***************************************************************************)
EXTENDS Naturals, Sequences, FiniteSets

CONSTANTS
    Check,        \* checks
    Interval,     \* intervals a check may have, after the clamp to 10 s
    Handler,      \* API handlers at work at the same time, at most
    SemCap,       \* capacity of sem (200 in the code)
    EventCap,     \* capacity of eventCh (100 in the code)
    MaxRuns,      \* goroutines and timers of one check, at most (bound)
    MaxRequests,  \* API requests, failed queries and the shutdown, at most (bound)
    MaxStops,     \* 0 to leave the shutdown out of an instance, 1 to have it (bound)
    Once,         \* the "interval" of a run that is not a timer chain
    Ticker,       \* the goroutine of the safety-net poll
    None

ASSUME SchedulerAssumption ==
    /\ IsFiniteSet(Check)
    /\ SemCap \in Nat \ {0}
    /\ EventCap \in Nat
    /\ MaxRuns \in Nat \ {0}
    /\ MaxRequests \in Nat /\ MaxStops \in 0 .. 1
    /\ Once \notin Interval
    /\ None \notin Interval /\ None \notin Check /\ None \notin 1 .. MaxRuns
    /\ Ticker \notin Handler

Run == 1 .. MaxRuns
Loader == Handler \cup {Ticker}

VARIABLES
    db,          \* each check: absent, active, paused (or disabled)
    dbInterval,  \* checks.interval_s
    requests,    \* requests, failed queries and shutdowns so far
    timers,      \* the timers map: the chain whose timer the entry holds, or None
    intervals,   \* the intervals map, or None
    holder,      \* the run that holds the check's mutex, or None
    inFlight,    \* elements in sem
    eventCh,     \* checks waiting for an immediate run
    dispatcher,  \* the event goroutine is running
    cancelled,   \* s.ctx is cancelled
    stopped,     \* Stop has cleared the maps
    at,          \* where each run is
    every,       \* the interval a chain was armed with, or Once
    doing,       \* where the ticker and each handler are
    snapshot,    \* what a loader read: an interval per active check
    runAfter     \* the check an unpausing handler will RunNow, or None

mapVars    == <<timers, intervals>>
runVars    == <<at, every>>
loaderVars == <<doing, snapshot, runAfter>>
vars == <<db, dbInterval, requests, mapVars, holder, inFlight, eventCh, dispatcher,
          cancelled, stopped, runVars, loaderVars>>

Status == {"absent", "active", "paused"}
Place == {"idle", "armed", "queued", "admitted", "locked", "checking", "rearm"}
Doing == {"idle", "load", "apply", "run", "done"}

TypeOK ==
    /\ db \in [Check -> Status]
    /\ dbInterval \in [Check -> Interval]
    /\ requests \in 0 .. MaxRequests
    /\ timers \in [Check -> Run \cup {None}]
    /\ intervals \in [Check -> Interval \cup {None}]
    /\ holder \in [Check -> Run \cup {None}]
    /\ inFlight \in 0 .. SemCap
    /\ eventCh \in Seq(Check) /\ Len(eventCh) <= EventCap
    /\ dispatcher \in BOOLEAN /\ cancelled \in BOOLEAN /\ stopped \in BOOLEAN
    /\ at \in [Check \X Run -> Place]
    /\ every \in [Check \X Run -> Interval \cup {Once}]
    /\ doing \in [Loader -> Doing]
    /\ snapshot \in [Loader -> [Check -> Interval \cup {None}]]
    /\ runAfter \in [Loader -> Check \cup {None}]

\* "go sched.Start(ctx)": the goroutine's own loadChecks is its first tick.
Init ==
    /\ db \in [Check -> Status]
    /\ dbInterval \in [Check -> Interval]
    /\ requests = 0
    /\ timers = [c \in Check |-> None]
    /\ intervals = [c \in Check |-> None]
    /\ holder = [c \in Check |-> None]
    /\ inFlight = 0
    /\ eventCh = <<>>
    /\ dispatcher = TRUE
    /\ cancelled = FALSE
    /\ stopped = FALSE
    /\ at = [r \in Check \X Run |-> "idle"]
    /\ every = [r \in Check \X Run |-> Once]
    /\ doing = [l \in Loader |-> IF l = Ticker THEN "load" ELSE "idle"]
    /\ snapshot = [l \in Loader |-> [c \in Check |-> None]]
    /\ runAfter = [l \in Loader |-> None]

Idle(c) == {i \in Run : at[<<c, i>>] = "idle"}
\* The goroutine or timer the runtime makes next for check c.
Fresh(c) == CHOOSE i \in Idle(c) : TRUE

-------------------------------------------------------------------------------
(* The API handlers                                                        *)

\* Create, update, pause, delete or restore commits, then calls Reload.
Change(h, c) ==
    /\ doing[h] = "idle"
    /\ requests < MaxRequests
    /\ requests' = requests + 1
    /\ \E s \in Status, n \in Interval :
          /\ <<s, n>> # <<db[c], dbInterval[c]>>
          /\ db' = [db EXCEPT ![c] = s]
          /\ dbInterval' = [dbInterval EXCEPT ![c] = n]
    /\ doing' = [doing EXCEPT ![h] = "load"]
    /\ UNCHANGED <<mapVars, holder, inFlight, eventCh, dispatcher, cancelled, stopped,
                   runVars, snapshot, runAfter>>

\* handleUnpauseTarget: Reload, then RunNow for the checks of the target, the
\* ones included that are disabled and stay so.
Unpause(h, c) ==
    /\ doing[h] = "idle"
    /\ requests < MaxRequests
    /\ db[c] = "paused"
    /\ requests' = requests + 1
    /\ \E s \in {"active", "paused"} : db' = [db EXCEPT ![c] = s]
    /\ doing' = [doing EXCEPT ![h] = "load"]
    /\ runAfter' = [runAfter EXCEPT ![h] = c]
    /\ UNCHANGED <<dbInterval, mapVars, holder, inFlight, eventCh, dispatcher, cancelled,
                   stopped, runVars, snapshot>>

\* handleRunCheckNow: RunNow follows when the check is found.
RunCheckNow(h, c) ==
    /\ doing[h] = "idle"
    /\ requests < MaxRequests
    /\ db[c] # "absent"
    /\ requests' = requests + 1
    /\ doing' = [doing EXCEPT ![h] = "run"]
    /\ runAfter' = [runAfter EXCEPT ![h] = c]
    /\ UNCHANGED <<db, dbInterval, mapVars, holder, inFlight, eventCh, dispatcher,
                   cancelled, stopped, runVars, snapshot>>

\* RunNow: a full channel drops the request.
RunNow(h) ==
    /\ doing[h] = "run"
    /\ eventCh' = IF Len(eventCh) < EventCap THEN Append(eventCh, runAfter[h]) ELSE eventCh
    /\ doing' = [doing EXCEPT ![h] = "idle"]
    /\ runAfter' = [runAfter EXCEPT ![h] = None]
    /\ UNCHANGED <<db, dbInterval, requests, mapVars, holder, inFlight, dispatcher,
                   cancelled, stopped, runVars, snapshot>>

-------------------------------------------------------------------------------
(* loadChecks                                                              *)

\* What a loader does once loadChecks has returned.
Loaded(l) ==
    /\ doing' = [doing EXCEPT ![l] = IF runAfter[l] # None THEN "run" ELSE "idle"]
    /\ snapshot' = [snapshot EXCEPT ![l] = [c \in Check |-> None]]
    /\ UNCHANGED runAfter

\* The poll's ticker fires.
Tick ==
    /\ doing[Ticker] = "idle"
    /\ doing' = [doing EXCEPT ![Ticker] = "load"]
    /\ UNCHANGED <<db, dbInterval, requests, mapVars, holder, inFlight, eventCh, dispatcher,
                   cancelled, stopped, runVars, snapshot, runAfter>>

\* ListAllEnabledChecks, before s.mu is taken.
ReadChecks(l) ==
    /\ doing[l] = "load"
    /\ doing' = [doing EXCEPT ![l] = "apply"]
    /\ snapshot' = [snapshot EXCEPT ![l] =
          [c \in Check |-> IF db[c] = "active" THEN dbInterval[c] ELSE None]]
    /\ UNCHANGED <<db, dbInterval, requests, mapVars, holder, inFlight, eventCh, dispatcher,
                   cancelled, stopped, runVars, runAfter>>

ReadChecksFails(l) ==
    /\ doing[l] = "load"
    /\ requests < MaxRequests
    /\ requests' = requests + 1
    /\ Loaded(l)
    /\ UNCHANGED <<db, dbInterval, mapVars, holder, inFlight, eventCh, dispatcher,
                   cancelled, stopped, runVars>>

\* Timers that are stopped and deleted: every one of a check that is not
\* active, whatever interval is recorded, and those whose interval changed.
Inactive(want) == {c \in Check : timers[c] # None /\ want[c] = None}
Changed(want) == {c \in Check : timers[c] # None /\ want[c] # None /\ want[c] # intervals[c]}
Obsolete(want) == Inactive(want) \cup Changed(want)
\* Checks that get a new timer from scheduleCheck.
Missing(want) == {c \in Check : want[c] # None /\ (timers[c] = None \/ want[c] # intervals[c])}

\* The part of loadChecks under s.mu.  Stop on a timer that has fired does
\* nothing: its callback is under way and will arm the next timer.
ApplyChecks(l) ==
    LET want == snapshot[l]
        new == Missing(want)
        silenced == {r \in Check \X Run :
            r[1] \in Obsolete(want) /\ timers[r[1]] = r[2] /\ at[r] = "armed"}
        started == {r \in Check \X Run : r[1] \in new /\ r[2] = Fresh(r[1])}
    IN  /\ doing[l] = "apply"
        /\ \A c \in new : Idle(c) # {}
        /\ at' = [r \in Check \X Run |->
              IF r \in started THEN "armed" ELSE IF r \in silenced THEN "idle" ELSE at[r]]
        /\ every' = [r \in Check \X Run |->
              IF r \in started THEN want[r[1]] ELSE IF r \in silenced THEN Once ELSE every[r]]
        /\ timers' = [c \in Check |->
              IF c \in new THEN Fresh(c) ELSE IF c \in Obsolete(want) THEN None ELSE timers[c]]
        /\ intervals' = [c \in Check |->
              IF c \in new THEN want[c] ELSE IF c \in Obsolete(want) THEN None ELSE intervals[c]]
        /\ Loaded(l)
        /\ UNCHANGED <<db, dbInterval, requests, holder, inFlight, eventCh, dispatcher,
                       cancelled, stopped>>

-------------------------------------------------------------------------------
(* A run: runAndReschedule and runCheck                                    *)

\* The timer of a chain fires; after the cancellation its callback returns.
Fire(c, i) ==
    /\ at[<<c, i>>] = "armed"
    /\ at' = [at EXCEPT ![<<c, i>>] = IF cancelled THEN "idle" ELSE "queued"]
    /\ every' = [every EXCEPT ![<<c, i>>] = IF cancelled THEN Once ELSE @]
    /\ UNCHANGED <<db, dbInterval, requests, mapVars, holder, inFlight, eventCh, dispatcher,
                   cancelled, stopped, loaderVars>>

\* The event goroutine starts "go s.runCheck(checkID)".
Dispatch ==
    /\ dispatcher
    /\ eventCh # <<>>
    /\ LET c == Head(eventCh) IN
          /\ Idle(c) # {}
          /\ at' = [at EXCEPT ![<<c, Fresh(c)>>] = "queued"]
    /\ eventCh' = Tail(eventCh)
    /\ UNCHANGED <<db, dbInterval, requests, mapVars, holder, inFlight, dispatcher,
                   cancelled, stopped, every, loaderVars>>

\* Mutant: the run goes ahead when sem is full.
AdmitAnyway(c, i) ==
    /\ at[<<c, i>>] = "queued"
    /\ inFlight' = inFlight + 1
    /\ at' = [at EXCEPT ![<<c, i>>] = "admitted"]
    /\ UNCHANGED <<db, dbInterval, requests, mapVars, holder, eventCh, dispatcher,
                   cancelled, stopped, every, loaderVars>>

\* s.sem <- struct{}{}
Admit(c, i) ==
    /\ at[<<c, i>>] = "queued"
    /\ inFlight < SemCap
    /\ inFlight' = inFlight + 1
    /\ at' = [at EXCEPT ![<<c, i>>] = "admitted"]
    /\ UNCHANGED <<db, dbInterval, requests, mapVars, holder, eventCh, dispatcher,
                   cancelled, stopped, every, loaderVars>>

\* runCheck returns: its place in sem is freed, a chain goes on to re-arm.
Leave(c, i) ==
    /\ inFlight' = inFlight - 1
    /\ at' = [at EXCEPT ![<<c, i>>] = IF every[<<c, i>>] = Once THEN "idle" ELSE "rearm"]
    /\ UNCHANGED every

\* Mutant: the mutex of the check is not tried.
TryLockAlways(c, i) ==
    /\ at[<<c, i>>] = "admitted"
    /\ holder' = [holder EXCEPT ![c] = i]
    /\ at' = [at EXCEPT ![<<c, i>>] = "locked"]
    /\ UNCHANGED <<db, dbInterval, requests, mapVars, inFlight, eventCh, dispatcher,
                   cancelled, stopped, every, loaderVars>>

\* The check's mutex, made on demand, is free: TryLock succeeds.
TryLock(c, i) ==
    /\ at[<<c, i>>] = "admitted"
    /\ holder[c] = None
    /\ holder' = [holder EXCEPT ![c] = i]
    /\ at' = [at EXCEPT ![<<c, i>>] = "locked"]
    /\ UNCHANGED <<db, dbInterval, requests, mapVars, inFlight, eventCh, dispatcher,
                   cancelled, stopped, every, loaderVars>>

\* Mutant: runCheck returns before it defers the freeing of its place.
BusyLeaking(c, i) ==
    /\ at[<<c, i>>] = "admitted"
    /\ holder[c] # None
    /\ at' = [at EXCEPT ![<<c, i>>] = IF every[<<c, i>>] = Once THEN "idle" ELSE "rearm"]
    /\ UNCHANGED <<db, dbInterval, requests, mapVars, holder, inFlight, eventCh, dispatcher,
                   cancelled, stopped, every, loaderVars>>

\* Already running: the run is given up.
Busy(c, i) ==
    /\ at[<<c, i>>] = "admitted"
    /\ holder[c] # None
    /\ Leave(c, i)
    /\ UNCHANGED <<db, dbInterval, requests, mapVars, holder, eventCh, dispatcher,
                   cancelled, stopped, loaderVars>>

\* The deferred Unlock; a mutex Stop has dropped from the map is another one.
Release(c, i) == holder' = [holder EXCEPT ![c] = IF @ = i THEN None ELSE @]

\* GetCheck and GetTarget find the check: checker.Run begins.
Begin(c, i) ==
    /\ at[<<c, i>>] = "locked"
    /\ db[c] # "absent"
    /\ at' = [at EXCEPT ![<<c, i>>] = "checking"]
    /\ UNCHANGED <<db, dbInterval, requests, mapVars, holder, inFlight, eventCh, dispatcher,
                   cancelled, stopped, every, loaderVars>>

\* Mutant: the early return for a check that is gone keeps its place in sem.
NotFoundLeaking(c, i) ==
    /\ at[<<c, i>>] = "locked"
    /\ db[c] = "absent"
    /\ Release(c, i)
    /\ at' = [at EXCEPT ![<<c, i>>] = IF every[<<c, i>>] = Once THEN "idle" ELSE "rearm"]
    /\ UNCHANGED <<db, dbInterval, requests, mapVars, inFlight, eventCh, dispatcher, cancelled,
                   stopped, every, loaderVars>>

\* The check is not found, or the query fails.
NotFound(c, i) ==
    /\ at[<<c, i>>] = "locked"
    /\ \/ db[c] = "absent" /\ UNCHANGED requests
       \/ db[c] # "absent" /\ requests < MaxRequests /\ requests' = requests + 1
    /\ Release(c, i)
    /\ Leave(c, i)
    /\ UNCHANGED <<db, dbInterval, mapVars, eventCh, dispatcher, cancelled, stopped, loaderVars>>

\* checker.Run returns, and the result is saved and handed to the engine:
\* SaveResult of module RuleEngine.
Finish(c, i) ==
    /\ at[<<c, i>>] = "checking"
    /\ Release(c, i)
    /\ Leave(c, i)
    /\ UNCHANGED <<db, dbInterval, requests, mapVars, eventCh, dispatcher, cancelled, stopped,
                   loaderVars>>

\* Mutant: a chain ends when its check is no longer active, and leaves its
\* entry in the map.
RearmActiveOnly(c, i) ==
    /\ at[<<c, i>>] = "rearm"
    /\ LET over == cancelled \/ db[c] # "active" IN
          /\ at' = [at EXCEPT ![<<c, i>>] = IF over THEN "idle" ELSE "armed"]
          /\ every' = [every EXCEPT ![<<c, i>>] = IF over THEN Once ELSE @]
          /\ timers' = [timers EXCEPT ![c] = IF over THEN @ ELSE i]
    /\ UNCHANGED <<db, dbInterval, requests, intervals, holder, inFlight, eventCh, dispatcher,
                   cancelled, stopped, loaderVars>>

\* Mutant: the timer found in the map is stopped before it is replaced.
RearmStopping(c, i) ==
    /\ at[<<c, i>>] = "rearm"
    /\ LET other == {j \in Run : timers[c] = j /\ at[<<c, j>>] = "armed"} IN
          /\ at' = [r \in Check \X Run |->
                IF r = <<c, i>> THEN (IF cancelled THEN "idle" ELSE "armed")
                ELSE IF r[1] = c /\ r[2] \in other THEN "idle" ELSE at[r]]
          /\ every' = [r \in Check \X Run |->
                IF at'[r] = "idle" THEN Once ELSE every[r]]
    /\ timers' = [timers EXCEPT ![c] = IF cancelled THEN @ ELSE i]
    /\ UNCHANGED <<db, dbInterval, requests, intervals, holder, inFlight, eventCh, dispatcher,
                   cancelled, stopped, loaderVars>>

\* The second critical section of runAndReschedule: the next timer replaces
\* whatever entry the check has by now; intervals is left as it is.
Rearm(c, i) ==
    /\ at[<<c, i>>] = "rearm"
    /\ at' = [at EXCEPT ![<<c, i>>] = IF cancelled THEN "idle" ELSE "armed"]
    /\ every' = [every EXCEPT ![<<c, i>>] = IF cancelled THEN Once ELSE @]
    /\ timers' = [timers EXCEPT ![c] = IF cancelled THEN @ ELSE i]
    /\ UNCHANGED <<db, dbInterval, requests, intervals, holder, inFlight, eventCh, dispatcher,
                   cancelled, stopped, loaderVars>>

-------------------------------------------------------------------------------
(* Stop                                                                    *)

Cancel ==
    /\ ~cancelled /\ MaxStops = 1
    /\ cancelled' = TRUE
    /\ requests < MaxRequests /\ requests' = requests + 1
    /\ UNCHANGED <<db, dbInterval, mapVars, holder, inFlight, eventCh, dispatcher,
                   stopped, runVars, loaderVars>>

\* The timers are stopped and the maps cleared, the mutexes with them.
ClearMaps ==
    /\ cancelled /\ ~stopped
    /\ stopped' = TRUE
    /\ LET known == {c \in Check : timers[c] # None}
           silenced == {r \in Check \X Run : timers[r[1]] = r[2] /\ at[r] = "armed"}
       IN  /\ at' = [r \in Check \X Run |-> IF r \in silenced THEN "idle" ELSE at[r]]
           /\ every' = [r \in Check \X Run |-> IF r \in silenced THEN Once ELSE every[r]]
           /\ intervals' = [c \in Check |-> IF c \in known THEN None ELSE intervals[c]]
           /\ holder' = [c \in Check |-> IF c \in known THEN None ELSE holder[c]]
    /\ timers' = [c \in Check |-> None]
    /\ UNCHANGED <<db, dbInterval, requests, inFlight, eventCh, dispatcher, cancelled, loaderVars>>

\* The poll and the event goroutine see ctx.Done.
PollEnds ==
    /\ cancelled
    /\ doing[Ticker] = "idle"
    /\ doing' = [doing EXCEPT ![Ticker] = "done"]
    /\ UNCHANGED <<db, dbInterval, requests, mapVars, holder, inFlight, eventCh, dispatcher,
                   cancelled, stopped, runVars, snapshot, runAfter>>

EventsEnd ==
    /\ cancelled
    /\ dispatcher
    /\ dispatcher' = FALSE
    /\ UNCHANGED <<db, dbInterval, requests, mapVars, holder, inFlight, eventCh,
                   cancelled, stopped, runVars, loaderVars>>

-------------------------------------------------------------------------------
Request(h, c) == Change(h, c) \/ Unpause(h, c) \/ RunCheckNow(h, c)
Load(l) == ReadChecks(l) \/ ApplyChecks(l)
RunCheck(c, i) == TryLock(c, i) \/ Busy(c, i) \/ Begin(c, i) \/ NotFound(c, i) \/ Finish(c, i)

Next ==
    \/ \E h \in Handler, c \in Check : Request(h, c)
    \/ \E h \in Handler : RunNow(h)
    \/ Tick
    \/ \E l \in Loader : Load(l) \/ ReadChecksFails(l)
    \/ \E c \in Check, i \in Run :
          Fire(c, i) \/ Admit(c, i) \/ RunCheck(c, i) \/ Rearm(c, i)
    \/ Dispatch
    \/ Cancel
    \/ ClearMaps
    \/ PollEnds
    \/ EventsEnd

Spec == Init /\ [][Next]_vars

\* Timers fire, the ticker ticks, goroutines run and the database answers
\* (weak fairness); a goroutine waiting for a place in sem is served in turn,
\* and select picks among its ready cases at random, so neither passes over
\* the same one for ever (strong fairness).  A check ends: every checker has
\* a timeout.  Requests and the shutdown are not owed.
Fairness ==
    /\ WF_vars(Tick)
    /\ \A l \in Loader : WF_vars(Load(l))
    /\ \A h \in Handler : WF_vars(RunNow(h))
    /\ \A c \in Check, i \in Run :
          /\ WF_vars(Fire(c, i))
          /\ SF_vars(Admit(c, i))
          /\ WF_vars(RunCheck(c, i))
          /\ WF_vars(Rearm(c, i))
    /\ WF_vars(Dispatch)
    /\ WF_vars(ClearMaps)
    /\ SF_vars(PollEnds)
    /\ SF_vars(EventsEnd)

FairSpec == Spec /\ Fairness

-------------------------------------------------------------------------------
(* Safety                                                                  *)

\* Two runs of one check never overlap, whatever mix of timer chains and
\* immediate runs asks for it (checkMu: "per-check mutex to prevent
\* concurrent runs"), as long as Stop has not dropped the mutexes.
NoOverlap ==
    ~stopped => \A c \in Check : \A i, j \in Run :
        at[<<c, i>>] \in {"locked", "checking"} /\ at[<<c, j>>] \in {"locked", "checking"} => i = j

\* sem holds exactly the runs between Admit and the return of runCheck, on
\* every path: no early return keeps its place, none gives it back twice.
PlacesAccounted ==
    inFlight = Cardinality({r \in Check \X Run : at[r] \in {"admitted", "locked", "checking"}})

\* An entry of the timers map is never a dead timer: loadChecks leaves a
\* check that has an entry alone, so it relies on the entry's chain to run
\* the check again or to replace the entry when its check ends.
EntriesAlive ==
    ~cancelled => \A c \in Check :
        /\ timers[c] # None => at[<<c, timers[c]>>] # "idle" /\ every[<<c, timers[c]>>] # Once
        /\ intervals[c] # None => timers[c] # None

\* The interval the intervals map records is the interval of some chain that
\* is alive, also when the interval changed while the check was running and
\* the old chain took the entry of the timers map back: loadChecks compares
\* the database with that record only, so a wrong record would never be put
\* right.
RecordedIntervalServed ==
    ~cancelled => \A c \in Check : intervals[c] # None =>
        \E i \in Run : at[<<c, i>>] # "idle" /\ every[<<c, i>>] = intervals[c]

\* As the reference manual has it, a check has one timer
\* (docs/reference/tech_stack.md: "Per-check time.AfterFunc timer").
OneTimerPerCheck ==
    \A c \in Check : \A i, j \in Run :
        at[<<c, i>>] = "armed" /\ at[<<c, j>>] = "armed" => i = j

-------------------------------------------------------------------------------
(* Liveness                                                                *)

Running(c) == \E i \in Run : at[<<c, i>>] = "checking"

\* An active check is run again and again while the scheduler is not
\* stopped: no race of reloads, stale snapshots, changes of interval, failed
\* queries and runs in flight leaves it without a timer for ever.
ActiveCheckKeepsRunning ==
    \A c \in Check : <>[](db[c] = "active") => []<>(Running(c) \/ cancelled)

\* An immediate run that RunNow accepted is not lost: afterwards the check is
\* looked up and run, by its own goroutine or by the one it finds at work.
AcceptedEventRuns ==
    \A c \in Check :
        (\E k \in DOMAIN eventCh : eventCh[k] = c)
            ~> (cancelled \/ \E i \in Run : at[<<c, i>>] \in {"locked", "checking"})

\* After Stop the runs in flight drain and none is ever started again.
StopDrains ==
    cancelled ~> [](\A r \in Check \X Run : at[r] \in {"idle", "armed"})
===============================================================================
