---------------------------- MODULE SchedulerProofs ----------------------------
(***************************************************************************)
(* Proofs about module Scheduler, for any checks, intervals and handlers   *)
(* and any capacity of sem and of the event channel.                       *)
(***************************************************************************)
EXTENDS Scheduler, FiniteSetTheorems, TLAPS

-------------------------------------------------------------------------------
(* The inductive invariant                                                 *)

InSem == {"admitted", "locked", "checking"}
Holders == {r \in Check \X Run : at[r] \in InSem}

\* Only runs that are timer chains have a timer or re-arm one.
Kinds == \A r \in Check \X Run :
    /\ at[r] = "idle" => every[r] = Once
    /\ at[r] \in {"armed", "rearm"} => every[r] # Once

\* A handler about to call RunNow knows the check.
RunAfterKnown == \A l \in Loader : doing[l] = "run" => runAfter[l] # None

\* The mutex in the map is held by exactly the run between TryLock and Release.
MutexHeld == ~stopped => \A c \in Check, i \in Run :
    (holder[c] = i) <=> (at[<<c, i>>] \in {"locked", "checking"})

Typed == TypeOK /\ Kinds /\ RunAfterKnown

Inv == Typed /\ MutexHeld /\ PlacesAccounted /\ EntriesAlive /\ RecordedIntervalServed

LEMMA RunsFinite == IsFiniteSet(Check \X Run)
<1>1. IsFiniteSet(1 .. MaxRuns)
  BY SchedulerAssumption, FS_Interval
<1>. QED  BY <1>1, SchedulerAssumption, FS_Product DEF Run

LEMMA PlacesAreHolders == PlacesAccounted <=> inFlight = Cardinality(Holders)
BY DEF PlacesAccounted, Holders, InSem

\* A run that passes Admit takes one place, a run that leaves gives one back.
LEMMA PlaceTaken ==
    ASSUME PlacesAccounted, NEW r \in Check \X Run, at[r] \notin InSem,
           Holders' = Holders \cup {r}, inFlight' = inFlight + 1
    PROVE  PlacesAccounted'
<1>1. IsFiniteSet(Holders) /\ r \notin Holders
  BY RunsFinite, FS_Subset DEF Holders
<1>2. Cardinality(Holders \cup {r}) = Cardinality(Holders) + 1
  BY <1>1, FS_AddElement
<1>. QED  BY <1>2, PlacesAreHolders DEF PlacesAccounted, Holders, InSem

LEMMA PlaceGivenBack ==
    ASSUME TypeOK, PlacesAccounted, NEW r \in Check \X Run, at[r] \in InSem,
           Holders' = Holders \ {r}, inFlight' = inFlight - 1
    PROVE  PlacesAccounted' /\ inFlight' \in 0 .. SemCap
<1>1. IsFiniteSet(Holders) /\ r \in Holders
  BY RunsFinite, FS_Subset DEF Holders
<1>2. Cardinality(Holders \ {r}) = Cardinality(Holders) - 1
  BY <1>1, FS_RemoveElement
<1>3. Cardinality(Holders \ {r}) \in Nat
  BY <1>1, FS_RemoveElement, FS_CardinalityType
<1>4. PlacesAccounted'
  BY <1>2, PlacesAreHolders DEF PlacesAccounted, Holders, InSem
<1>. QED
  BY <1>2, <1>3, <1>4, PlacesAreHolders, SchedulerAssumption DEF TypeOK

\* The run that scheduleCheck and "go runCheck" begin with is an idle one.
LEMMA FreshIsIdle ==
    ASSUME NEW c \in Check, Idle(c) # {}
    PROVE  Fresh(c) \in Run /\ at[<<c, Fresh(c)>>] = "idle"
BY DEF Fresh, Idle

\* Steps that touch neither the runs nor the maps keep what is said of them.
LEMMA RunsUntouched ==
    ASSUME Inv, cancelled => cancelled',
           UNCHANGED <<mapVars, holder, inFlight, stopped, runVars>>
    PROVE  /\ Kinds' /\ MutexHeld' /\ PlacesAccounted'
           /\ EntriesAlive' /\ RecordedIntervalServed'
<1>. USE DEF Inv, Typed, mapVars, runVars
<1>1. Kinds' /\ MutexHeld'
  BY DEF Kinds, MutexHeld
<1>2. PlacesAccounted'
  BY DEF PlacesAccounted
<1>3. EntriesAlive' /\ RecordedIntervalServed'
  BY DEF EntriesAlive, RecordedIntervalServed
<1>. QED  BY <1>1, <1>2, <1>3

\* A chain that only moves on, or a single run at any of its steps, leaves
\* the maps' entries alive.
LEMMA RunMoves ==
    ASSUME Inv, NEW c \in Check, NEW i \in Run, NEW p \in Place,
           at' = [at EXCEPT ![<<c, i>>] = p],
           p = "idle" => every[<<c, i>>] = Once,
           UNCHANGED <<mapVars, every, cancelled>>
    PROVE  EntriesAlive' /\ RecordedIntervalServed'
<1>. USE SchedulerAssumption DEF Inv, Typed, TypeOK, mapVars
<1>1. \A d \in Check, j \in Run :
          at[<<d, j>>] # "idle" /\ every[<<d, j>>] # Once => at'[<<d, j>>] # "idle"
  OBVIOUS
<1>2. EntriesAlive'
  BY <1>1 DEF EntriesAlive
<1>3. RecordedIntervalServed'
  <2>. SUFFICES ASSUME ~cancelled, NEW d \in Check, intervals[d] # None
                PROVE  \E j \in Run : at'[<<d, j>>] # "idle" /\ every[<<d, j>>] = intervals[d]
    BY DEF RecordedIntervalServed
  <2>1. PICK j \in Run : at[<<d, j>>] # "idle" /\ every[<<d, j>>] = intervals[d]
    BY DEF RecordedIntervalServed
  <2>2. every[<<d, j>>] # Once
    BY <2>1
  <2>. QED  BY <1>1, <2>1, <2>2
<1>. QED  BY <1>2, <1>3

LEMMA RequestKeeps ==
    ASSUME Inv, NEW h \in Handler, NEW c \in Check, Request(h, c)
    PROVE  Inv'
<1>1. UNCHANGED <<mapVars, holder, inFlight, stopped, runVars, cancelled>>
  BY DEF Request, Change, Unpause, RunCheckNow
<1>2. TypeOK' /\ RunAfterKnown'
  <2>. USE SchedulerAssumption DEF Inv, Typed, TypeOK, RunAfterKnown, Loader, mapVars, runVars
  <2>1. CASE Change(h, c)
    BY <2>1 DEF Change, Doing
  <2>2. CASE Unpause(h, c)
    BY <2>2 DEF Unpause, Status, Doing
  <2>3. CASE RunCheckNow(h, c)
    BY <2>3 DEF RunCheckNow, Doing
  <2>. QED  BY <2>1, <2>2, <2>3 DEF Request
<1>. QED  BY <1>1, <1>2, RunsUntouched DEF Inv, Typed

LEMMA RunNowKeeps ==
    ASSUME Inv, NEW h \in Handler, RunNow(h)
    PROVE  Inv'
<1>1. UNCHANGED <<mapVars, holder, inFlight, stopped, runVars, cancelled>>
  BY DEF RunNow
<1>2. runAfter[h] \in Check
  BY DEF RunNow, Inv, Typed, TypeOK, RunAfterKnown, Loader
<1>3. eventCh' \in Seq(Check) /\ Len(eventCh') <= EventCap
  <2>1. CASE Len(eventCh) < EventCap
    <3>1. eventCh' = Append(eventCh, runAfter[h])
      BY <2>1 DEF RunNow
    <3>2. Len(eventCh') = Len(eventCh) + 1 /\ eventCh' \in Seq(Check)
      BY <1>2, <3>1 DEF Inv, Typed, TypeOK
    <3>. QED  BY <2>1, <3>2, SchedulerAssumption DEF Inv, Typed, TypeOK
  <2>2. CASE ~(Len(eventCh) < EventCap)
    BY <2>2 DEF RunNow, Inv, Typed, TypeOK
  <2>. QED  BY <2>1, <2>2
<1>4. TypeOK' /\ RunAfterKnown'
  BY <1>3 DEF RunNow, Inv, Typed, TypeOK, RunAfterKnown, Loader, Doing, mapVars, runVars
<1>. QED  BY <1>1, <1>4, RunsUntouched DEF Inv, Typed

\* The ticker, the readings of the database and the end of the goroutines.
LEMMA PollKeeps ==
    ASSUME Inv, Tick \/ PollEnds \/ Cancel \/ EventsEnd
    PROVE  Inv'
<1>1. UNCHANGED <<mapVars, holder, inFlight, stopped, runVars>> /\ (cancelled => cancelled')
  BY DEF Tick, PollEnds, Cancel, EventsEnd
<1>2. TypeOK' /\ RunAfterKnown'
  <2>. USE DEF Inv, Typed, TypeOK, RunAfterKnown, Loader, Doing, mapVars, runVars, loaderVars
  <2>1. CASE Tick
    BY <2>1 DEF Tick
  <2>2. CASE PollEnds
    BY <2>2 DEF PollEnds
  <2>3. CASE Cancel
    BY <2>3, SchedulerAssumption DEF Cancel
  <2>4. CASE EventsEnd
    BY <2>4 DEF EventsEnd
  <2>. QED  BY <2>1, <2>2, <2>3, <2>4
<1>. QED  BY <1>1, <1>2, RunsUntouched DEF Inv, Typed

LEMMA LoadedTyped ==
    ASSUME TypeOK, RunAfterKnown, NEW l \in Loader, Loaded(l)
    PROVE  /\ doing' \in [Loader -> Doing]
           /\ snapshot' \in [Loader -> [Check -> Interval \cup {None}]]
           /\ runAfter' \in [Loader -> Check \cup {None}]
           /\ RunAfterKnown'
<1>. USE DEF TypeOK, RunAfterKnown, Loaded
<1>1. [c \in Check |-> None] \in [Check -> Interval \cup {None}]
  OBVIOUS
<1>. QED  BY <1>1 DEF Doing

LEMMA ReadKeeps ==
    ASSUME Inv, NEW l \in Loader, ReadChecks(l) \/ ReadChecksFails(l)
    PROVE  Inv'
<1>1. UNCHANGED <<mapVars, holder, inFlight, stopped, runVars, cancelled>>
  BY DEF ReadChecks, ReadChecksFails
<1>2. TypeOK' /\ RunAfterKnown'
  <2>. USE DEF Inv, Typed
  <2>1. CASE ReadChecks(l)
    <3>1. [c \in Check |-> IF db[c] = "active" THEN dbInterval[c] ELSE None]
             \in [Check -> Interval \cup {None}]
      BY DEF TypeOK
    <3>. QED  BY <2>1, <3>1 DEF ReadChecks, TypeOK, RunAfterKnown, Doing, mapVars, runVars
  <2>2. CASE ReadChecksFails(l)
    BY <2>2, LoadedTyped, SchedulerAssumption DEF ReadChecksFails, TypeOK, mapVars, runVars
  <2>. QED  BY <2>1, <2>2
<1>. QED  BY <1>1, <1>2, RunsUntouched DEF Inv, Typed

-------------------------------------------------------------------------------
(* The steps of a run                                                      *)

\* What changes when one run goes to another place.
LEMMA OneRunMoves ==
    ASSUME Inv, NEW c \in Check, NEW i \in Run, NEW p \in Place,
           at' = [at EXCEPT ![<<c, i>>] = p]
    PROVE  /\ at' \in [Check \X Run -> Place]
           /\ at'[<<c, i>>] = p
           /\ \A r \in Check \X Run : r # <<c, i>> => at'[r] = at[r]
           /\ p \in InSem => Holders' = Holders \cup {<<c, i>>}
           /\ p \notin InSem => Holders' = Holders \ {<<c, i>>}
<1>. USE DEF Inv, Typed, TypeOK
<1>1. /\ at' \in [Check \X Run -> Place]
      /\ at'[<<c, i>>] = p
      /\ \A r \in Check \X Run : r # <<c, i>> => at'[r] = at[r]
  OBVIOUS
<1>. QED  BY <1>1 DEF Holders

\* Whoever holds the mutex of a check after a step in which one run moves.
LEMMA MutexFollows ==
    ASSUME Inv, NEW c \in Check, NEW i \in Run, NEW p \in Place,
           at' = [at EXCEPT ![<<c, i>>] = p],
           UNCHANGED stopped,
           ~stopped => /\ \A j \in Run : (holder'[c] = j) <=>
                             (IF j = i THEN p ELSE at[<<c, j>>]) \in {"locked", "checking"}
                       /\ \A d \in Check : d # c => holder'[d] = holder[d]
    PROVE  MutexHeld'
<1>. SUFFICES ASSUME ~stopped, NEW d \in Check, NEW j \in Run
              PROVE  (holder'[d] = j) <=> (at'[<<d, j>>] \in {"locked", "checking"})
  BY DEF MutexHeld
<1>1. at \in [Check \X Run -> Place]
  BY DEF Inv, Typed, TypeOK
<1>2. CASE d = c
  <2>1. at'[<<c, j>>] = IF j = i THEN p ELSE at[<<c, j>>]
    BY <1>1
  <2>. QED  BY <1>2, <2>1
<1>3. CASE d # c
  <2>1. at'[<<d, j>>] = at[<<d, j>>]
    BY <1>1, <1>3
  <2>2. (holder[d] = j) <=> (at[<<d, j>>] \in {"locked", "checking"})
    BY DEF Inv, MutexHeld
  <2>. QED  BY <1>3, <2>1, <2>2
<1>. QED  BY <1>2, <1>3

\* A step that neither takes nor frees a mutex.
LEMMA MutexKept ==
    ASSUME Inv, NEW c \in Check, NEW i \in Run, NEW p \in Place,
           at' = [at EXCEPT ![<<c, i>>] = p],
           UNCHANGED <<holder, stopped>>,
           at[<<c, i>>] \in {"locked", "checking"} <=> p \in {"locked", "checking"}
    PROVE  MutexHeld'
<1>1. ~stopped => \A j \in Run : (holder[c] = j) <=> (at[<<c, j>>] \in {"locked", "checking"})
  BY DEF Inv, MutexHeld
<1>. QED  BY <1>1, MutexFollows

LEMMA FireKeeps ==
    ASSUME Inv, NEW c \in Check, NEW i \in Run, Fire(c, i)
    PROVE  Inv'
<1>. DEFINE p == IF cancelled THEN "idle" ELSE "queued"
<1>1. p \in Place /\ p \notin InSem /\ at[<<c, i>>] = "armed"
  BY DEF Fire, Place, InSem
<1>2. /\ at' \in [Check \X Run -> Place]
      /\ at'[<<c, i>>] = p
      /\ \A r \in Check \X Run : r # <<c, i>> => at'[r] = at[r]
      /\ Holders' = Holders \ {<<c, i>>}
  BY <1>1, OneRunMoves DEF Fire
<1>3. TypeOK' /\ RunAfterKnown'
  BY <1>2 DEF Fire, Inv, Typed, TypeOK, RunAfterKnown, mapVars, loaderVars
<1>4. Kinds'
  BY <1>1, <1>2 DEF Fire, Kinds, Inv, Typed, TypeOK
<1>5. MutexHeld'
  BY <1>1, MutexKept DEF Fire, InSem
<1>6. PlacesAccounted'
  <2>1. Holders' = Holders
    BY <1>1, <1>2 DEF Holders, InSem
  <2>. QED  BY <2>1 DEF Fire, Inv, PlacesAccounted, Holders, InSem
<1>7. EntriesAlive' /\ RecordedIntervalServed'
  <2>1. CASE cancelled
    BY <2>1 DEF Fire, EntriesAlive, RecordedIntervalServed
  <2>2. CASE ~cancelled
    <3>1. every' = every
      BY <2>2 DEF Fire, Inv, Typed, TypeOK
    <3>. QED  BY <1>1, <2>2, <3>1, RunMoves DEF Fire, mapVars
  <2>. QED  BY <2>1, <2>2
<1>. QED  BY <1>3, <1>4, <1>5, <1>6, <1>7 DEF Inv, Typed

LEMMA DispatchKeeps ==
    ASSUME Inv, Dispatch
    PROVE  Inv'
<1>. DEFINE c == Head(eventCh)
            i == Fresh(c)
<1>1. /\ c \in Check /\ Tail(eventCh) \in Seq(Check)
      /\ Len(Tail(eventCh)) <= EventCap
  BY SchedulerAssumption DEF Dispatch, Inv, Typed, TypeOK
<1>2. i \in Run /\ at[<<c, i>>] = "idle"
  BY <1>1, FreshIsIdle DEF Dispatch
<1>3. every[<<c, i>>] = Once
  BY <1>1, <1>2 DEF Inv, Typed, Kinds
<1>4. at' = [at EXCEPT ![<<c, i>>] = "queued"] /\ "queued" \in Place /\ "queued" \notin InSem
  BY DEF Dispatch, Place, InSem
<1>. HIDE DEF c, i
<1>5. /\ at' \in [Check \X Run -> Place]
      /\ at'[<<c, i>>] = "queued"
      /\ \A r \in Check \X Run : r # <<c, i>> => at'[r] = at[r]
      /\ Holders' = Holders \ {<<c, i>>}
  BY <1>1, <1>2, <1>4, OneRunMoves
<1>6. TypeOK' /\ RunAfterKnown'
  BY <1>1, <1>5 DEF Dispatch, Inv, Typed, TypeOK, RunAfterKnown, mapVars, loaderVars
<1>7. Kinds'
  BY <1>5 DEF Dispatch, Kinds, Inv, Typed
<1>8. MutexHeld'
  BY <1>1, <1>2, <1>4, MutexKept DEF Dispatch
<1>9. PlacesAccounted'
  <2>1. Holders' = Holders
    BY <1>2, <1>5 DEF Holders, InSem
  <2>. QED  BY <2>1 DEF Dispatch, Inv, PlacesAccounted, Holders, InSem
<1>10. EntriesAlive' /\ RecordedIntervalServed'
  BY <1>1, <1>2, <1>4, RunMoves DEF Dispatch, mapVars
<1>. QED  BY <1>6, <1>7, <1>8, <1>9, <1>10 DEF Inv, Typed

LEMMA AdmitKeeps ==
    ASSUME Inv, NEW c \in Check, NEW i \in Run, Admit(c, i)
    PROVE  Inv'
<1>1. /\ at' = [at EXCEPT ![<<c, i>>] = "admitted"]
      /\ "admitted" \in Place /\ "admitted" \in InSem /\ at[<<c, i>>] = "queued"
  BY DEF Admit, Place, InSem
<1>2. /\ at' \in [Check \X Run -> Place]
      /\ at'[<<c, i>>] = "admitted"
      /\ \A r \in Check \X Run : r # <<c, i>> => at'[r] = at[r]
      /\ Holders' = Holders \cup {<<c, i>>}
  BY <1>1, OneRunMoves
<1>3. TypeOK' /\ RunAfterKnown'
  BY <1>2, SchedulerAssumption DEF Admit, Inv, Typed, TypeOK, RunAfterKnown, mapVars, loaderVars
<1>4. Kinds'
  BY <1>2 DEF Admit, Kinds, Inv, Typed
<1>5. MutexHeld'
  BY <1>1, MutexKept DEF Admit
<1>6. PlacesAccounted'
  BY <1>1, <1>2, PlaceTaken DEF Admit, Inv, InSem
<1>7. EntriesAlive' /\ RecordedIntervalServed'
  BY <1>1, RunMoves DEF Admit, mapVars
<1>. QED  BY <1>3, <1>4, <1>5, <1>6, <1>7 DEF Inv, Typed

\* After the step run <<c, i>> does not hold the mutex, the others as before.
GivesUpMutex(c, i) ==
    /\ holder' \in [Check -> Run \cup {None}]
    /\ ~stopped => /\ \A j \in Run :
                         (holder'[c] = j) <=> (j # i /\ at[<<c, j>>] \in {"locked", "checking"})
                   /\ \A d \in Check : d # c => holder'[d] = holder[d]

\* A run that leaves runCheck without the mutex of its check.
LEMMA LeaveKeeps ==
    ASSUME Inv, NEW c \in Check, NEW i \in Run, at[<<c, i>>] \in InSem, Leave(c, i),
           UNCHANGED <<mapVars, stopped, cancelled>>, GivesUpMutex(c, i)
    PROVE  /\ at' \in [Check \X Run -> Place] /\ every' = every
           /\ inFlight' \in 0 .. SemCap
           /\ Kinds' /\ MutexHeld' /\ PlacesAccounted' /\ EntriesAlive' /\ RecordedIntervalServed'
<1>1. PICK p \in Place :
          /\ at' = [at EXCEPT ![<<c, i>>] = p]
          /\ p \notin InSem
          /\ p = "idle" => every[<<c, i>>] = Once
          /\ p # "idle" => every[<<c, i>>] # Once
  BY DEF Leave, Place, InSem
<1>2. /\ at' \in [Check \X Run -> Place]
      /\ at'[<<c, i>>] = p
      /\ \A r \in Check \X Run : r # <<c, i>> => at'[r] = at[r]
      /\ Holders' = Holders \ {<<c, i>>}
  BY <1>1, OneRunMoves
<1>3. Kinds'
  BY <1>1, <1>2 DEF Leave, Kinds, Inv, Typed
<1>4. MutexHeld'
  <2>1. p \notin {"locked", "checking"} /\ UNCHANGED stopped
    BY <1>1 DEF InSem
  <2>2. ~stopped => /\ \A j \in Run : (holder'[c] = j) <=>
                          (IF j = i THEN p ELSE at[<<c, j>>]) \in {"locked", "checking"}
                    /\ \A d \in Check : d # c => holder'[d] = holder[d]
    <3>. SUFFICES ASSUME ~stopped, NEW j \in Run
                  PROVE  (holder'[c] = j) <=>
                             (IF j = i THEN p ELSE at[<<c, j>>]) \in {"locked", "checking"}
      BY DEF GivesUpMutex
    <3>1. (holder'[c] = j) <=> (j # i /\ at[<<c, j>>] \in {"locked", "checking"})
      BY DEF GivesUpMutex
    <3>2. CASE j = i
      BY <2>1, <3>1, <3>2
    <3>3. CASE j # i
      BY <3>1, <3>3
    <3>. QED  BY <3>2, <3>3
  <2>. QED  BY <1>1, <2>1, <2>2, MutexFollows
<1>5. PlacesAccounted' /\ inFlight' \in 0 .. SemCap
  BY <1>2, PlaceGivenBack DEF Leave, Inv, Typed
<1>6. EntriesAlive' /\ RecordedIntervalServed'
  <2>1. UNCHANGED <<mapVars, every, cancelled>>
    BY DEF Leave
  <2>. QED  BY <1>1, <2>1, RunMoves
<1>. QED  BY <1>2, <1>3, <1>4, <1>5, <1>6 DEF Leave

LEMMA RunCheckKeeps ==
    ASSUME Inv, NEW c \in Check, NEW i \in Run, RunCheck(c, i)
    PROVE  Inv'
<1>1. ASSUME TryLock(c, i) \/ Begin(c, i) PROVE Inv'
  <2>. DEFINE p == IF at[<<c, i>>] = "admitted" THEN "locked" ELSE "checking"
  <2>1. /\ p \in Place /\ p \in InSem /\ at' = [at EXCEPT ![<<c, i>>] = p]
        /\ at[<<c, i>>] \in {"admitted", "locked"}
    BY <1>1 DEF TryLock, Begin, Place, InSem
  <2>2. /\ at' \in [Check \X Run -> Place]
        /\ at'[<<c, i>>] = p
        /\ \A r \in Check \X Run : r # <<c, i>> => at'[r] = at[r]
        /\ Holders' = Holders \cup {<<c, i>>}
    BY <2>1, OneRunMoves
  <2>3. TypeOK' /\ RunAfterKnown'
    BY <1>1, <2>2 DEF TryLock, Begin, Inv, Typed, TypeOK, RunAfterKnown, mapVars, loaderVars
  <2>4. Kinds'
    BY <1>1, <2>2 DEF TryLock, Begin, Kinds, Inv, Typed
  <2>5. MutexHeld'
    <3>1. CASE TryLock(c, i)
      <4>1. holder[c] = None /\ holder' = [holder EXCEPT ![c] = i] /\ p = "locked"
        BY <3>1 DEF TryLock
      <4>2. holder'[c] = i /\ \A d \in Check : d # c => holder'[d] = holder[d]
        BY <4>1 DEF Inv, Typed, TypeOK
      <4>3. ~stopped => \A j \in Run : at[<<c, j>>] \notin {"locked", "checking"}
        BY <4>1, SchedulerAssumption DEF Inv, MutexHeld, Run
      <4>4. UNCHANGED stopped
        BY <3>1 DEF TryLock
      <4>. QED  BY <2>1, <4>1, <4>2, <4>3, <4>4, MutexFollows
    <3>2. CASE Begin(c, i)
      BY <2>1, <3>2, MutexKept DEF Begin
    <3>. QED  BY <1>1, <3>1, <3>2
  <2>6. PlacesAccounted'
    <3>1. Holders' = Holders
      BY <2>1, <2>2 DEF Holders, InSem
    <3>. QED  BY <1>1, <3>1 DEF TryLock, Begin, Inv, PlacesAccounted, Holders, InSem
  <2>7. EntriesAlive' /\ RecordedIntervalServed'
    BY <1>1, <2>1, RunMoves DEF TryLock, Begin, mapVars
  <2>. QED  BY <2>3, <2>4, <2>5, <2>6, <2>7 DEF Inv, Typed
<1>2. ASSUME Busy(c, i) PROVE Inv'
  <2>1. at[<<c, i>>] = "admitted" /\ at[<<c, i>>] \in InSem /\ Leave(c, i)
        /\ UNCHANGED <<mapVars, stopped, cancelled, holder>>
    BY <1>2 DEF Busy, InSem
  <2>2. GivesUpMutex(c, i)
    BY <2>1 DEF GivesUpMutex, Inv, MutexHeld, Typed, TypeOK
  <2>3. /\ at' \in [Check \X Run -> Place] /\ every' = every
        /\ inFlight' \in 0 .. SemCap
        /\ Kinds' /\ MutexHeld' /\ PlacesAccounted' /\ EntriesAlive' /\ RecordedIntervalServed'
    BY <2>1, <2>2, LeaveKeeps
  <2>. QED
    BY <1>2, <2>2, <2>3 DEF GivesUpMutex, Busy, Inv, Typed, TypeOK, RunAfterKnown, mapVars, loaderVars
<1>3. ASSUME NotFound(c, i) \/ Finish(c, i) PROVE Inv'
  <2>1. at[<<c, i>>] \in {"locked", "checking"} /\ at[<<c, i>>] \in InSem
        /\ Leave(c, i) /\ Release(c, i) /\ UNCHANGED <<mapVars, stopped, cancelled>>
    BY <1>3 DEF NotFound, Finish, InSem
  <2>2. holder' \in [Check -> Run \cup {None}]
    BY <2>1 DEF Release, Inv, Typed, TypeOK
  <2>3. GivesUpMutex(c, i)
    <3>1. ~stopped => holder[c] = i
      BY <2>1 DEF Inv, MutexHeld
    <3>2. ~stopped => holder'[c] = None
      BY <2>1, <3>1 DEF Release, Inv, Typed, TypeOK
    <3>3. \A d \in Check : d # c => holder'[d] = holder[d]
      BY <2>1 DEF Release, Inv, Typed, TypeOK
    <3>4. ~stopped => \A j \in Run : j # i => at[<<c, j>>] \notin {"locked", "checking"}
      BY <3>1 DEF Inv, MutexHeld
    <3>. QED  BY <2>2, <3>2, <3>3, <3>4, SchedulerAssumption DEF GivesUpMutex, Run
  <2>4. /\ at' \in [Check \X Run -> Place] /\ every' = every
        /\ inFlight' \in 0 .. SemCap
        /\ Kinds' /\ MutexHeld' /\ PlacesAccounted' /\ EntriesAlive' /\ RecordedIntervalServed'
    <3>1. at[<<c, i>>] \in InSem
      BY <2>1
    <3>2. Leave(c, i) /\ UNCHANGED <<mapVars, stopped, cancelled>>
      BY <2>1
    <3>. QED  BY <3>1, <3>2, <2>3, LeaveKeeps
  <2>5. requests' \in 0 .. MaxRequests
    BY <1>3, SchedulerAssumption DEF NotFound, Finish, Inv, Typed, TypeOK
  <2>. QED
    BY <1>3, <2>2, <2>4, <2>5
    DEF NotFound, Finish, Inv, Typed, TypeOK, RunAfterKnown, mapVars, loaderVars
<1>. QED  BY <1>1, <1>2, <1>3 DEF RunCheck

\* The entry of the check is overwritten with the chain that re-arms, which
\* is alive; the chain with the recorded interval stays alive too.
LEMMA RearmKeeps ==
    ASSUME Inv, NEW c \in Check, NEW i \in Run, Rearm(c, i)
    PROVE  Inv'
<1>1. PICK p \in Place :
          /\ at' = [at EXCEPT ![<<c, i>>] = p]
          /\ p \notin InSem
          /\ p = IF cancelled THEN "idle" ELSE "armed"
  BY DEF Rearm, Place, InSem
<1>2. at[<<c, i>>] = "rearm" /\ every[<<c, i>>] # Once
  BY DEF Rearm, Inv, Typed, Kinds
<1>3. /\ at' \in [Check \X Run -> Place]
      /\ at'[<<c, i>>] = p
      /\ \A r \in Check \X Run : r # <<c, i>> => at'[r] = at[r]
      /\ Holders' = Holders \ {<<c, i>>}
  BY <1>1, OneRunMoves
<1>4. TypeOK' /\ RunAfterKnown'
  BY <1>3 DEF Rearm, Inv, Typed, TypeOK, RunAfterKnown, loaderVars
<1>5. Kinds'
  BY <1>1, <1>2, <1>3 DEF Rearm, Kinds, Inv, Typed, TypeOK
<1>6. MutexHeld'
  <2>1. at[<<c, i>>] \notin {"locked", "checking"} /\ p \notin {"locked", "checking"}
    BY <1>1, <1>2 DEF InSem
  <2>2. UNCHANGED <<holder, stopped>>
    BY DEF Rearm
  <2>. QED  BY <1>1, <2>1, <2>2, MutexKept
<1>7. PlacesAccounted'
  <2>1. Holders' = Holders
    BY <1>2, <1>3 DEF Holders, InSem
  <2>. QED  BY <2>1 DEF Rearm, Inv, PlacesAccounted, Holders, InSem
<1>8. EntriesAlive' /\ RecordedIntervalServed'
  <2>1. CASE cancelled
    BY <2>1 DEF Rearm, EntriesAlive, RecordedIntervalServed
  <2>2. CASE ~cancelled
    <3>1. /\ at'[<<c, i>>] = "armed"
          /\ every' = every /\ intervals' = intervals /\ cancelled' = cancelled
          /\ timers'[c] = i /\ \A d \in Check : d # c => timers'[d] = timers[d]
      BY <1>1, <1>3, <2>2 DEF Rearm, Inv, Typed, TypeOK
    <3>2. \A r \in Check \X Run : at[r] # "idle" => at'[r] # "idle"
      BY <1>3, <3>1
    <3>3. EntriesAlive'
      <4>. SUFFICES ASSUME NEW d \in Check
                    PROVE  /\ timers'[d] # None =>
                                at'[<<d, timers'[d]>>] # "idle" /\ every[<<d, timers'[d]>>] # Once
                           /\ intervals[d] # None => timers'[d] # None
        BY <3>1 DEF EntriesAlive
      <4>1. CASE d = c
        BY <1>2, <3>1, <4>1, SchedulerAssumption DEF Run
      <4>2. CASE d # c
        BY <2>2, <3>1, <3>2, <4>2 DEF EntriesAlive, Inv, Typed, TypeOK
      <4>. QED  BY <4>1, <4>2
    <3>4. RecordedIntervalServed'
      BY <2>2, <3>1, <3>2 DEF RecordedIntervalServed, Inv
    <3>. QED  BY <3>3, <3>4
  <2>. QED  BY <2>1, <2>2
<1>. QED  BY <1>4, <1>5, <1>6, <1>7, <1>8 DEF Inv, Typed

\* What loadChecks and Stop do to the runs: some armed chains of the map are
\* silenced, some idle runs begin a chain with an interval.
LEMMA ApplyKeeps ==
    ASSUME Inv, NEW l \in Loader, ApplyChecks(l)
    PROVE  Inv'
<1>. DEFINE want == snapshot[l]
            new == Missing(want)
            silenced == {r \in Check \X Run :
                r[1] \in Obsolete(want) /\ timers[r[1]] = r[2] /\ at[r] = "armed"}
            started == {r \in Check \X Run : r[1] \in new /\ r[2] = Fresh(r[1])}
<1>1. /\ want \in [Check -> Interval \cup {None}]
      /\ \A c \in new : c \in Check /\ want[c] \in Interval
      /\ \A c \in new : Fresh(c) \in Run /\ at[<<c, Fresh(c)>>] = "idle"
  <2>1. want \in [Check -> Interval \cup {None}]
    BY DEF Inv, Typed, TypeOK
  <2>2. \A c \in new : c \in Check /\ want[c] \in Interval
    BY <2>1 DEF Missing
  <2>3. \A c \in new : Idle(c) # {}
    BY DEF ApplyChecks
  <2>. QED  BY <2>1, <2>2, <2>3, FreshIsIdle
<1>2. /\ at' = [r \in Check \X Run |->
            IF r \in started THEN "armed" ELSE IF r \in silenced THEN "idle" ELSE at[r]]
      /\ every' = [r \in Check \X Run |->
            IF r \in started THEN want[r[1]] ELSE IF r \in silenced THEN Once ELSE every[r]]
      /\ timers' = [c \in Check |->
            IF c \in new THEN Fresh(c) ELSE IF c \in Obsolete(want) THEN None ELSE timers[c]]
      /\ intervals' = [c \in Check |->
            IF c \in new THEN want[c] ELSE IF c \in Obsolete(want) THEN None ELSE intervals[c]]
      /\ Loaded(l)
      /\ UNCHANGED <<db, dbInterval, requests, holder, inFlight, eventCh, dispatcher,
                     cancelled, stopped>>
  BY DEF ApplyChecks
<1>3. /\ \A r \in started : at[r] = "idle"
      /\ \A r \in silenced : at[r] = "armed"
  BY <1>1
<1>. HIDE DEF want, new
<1>4. /\ at' \in [Check \X Run -> Place]
      /\ every' \in [Check \X Run -> Interval \cup {Once}]
  BY <1>1, <1>2 DEF Inv, Typed, TypeOK, Place
<1>5. /\ timers' \in [Check -> Run \cup {None}]
      /\ intervals' \in [Check -> Interval \cup {None}]
  BY <1>1, <1>2 DEF Inv, Typed, TypeOK
<1>6. TypeOK' /\ RunAfterKnown'
  <2>1. /\ doing' \in [Loader -> Doing]
        /\ snapshot' \in [Loader -> [Check -> Interval \cup {None}]]
        /\ runAfter' \in [Loader -> Check \cup {None}]
        /\ RunAfterKnown'
    BY <1>2, LoadedTyped DEF Inv, Typed
  <2>. QED  BY <1>2, <1>4, <1>5, <2>1 DEF Inv, Typed, TypeOK
<1>7. Kinds'
  BY <1>1, <1>2, SchedulerAssumption DEF Kinds, Inv, Typed
<1>8. MutexHeld'
  <2>1. \A r \in Check \X Run : at'[r] \in {"locked", "checking"} <=> at[r] \in {"locked", "checking"}
    BY <1>2, <1>3
  <2>. QED  BY <1>2, <2>1 DEF MutexHeld, Inv
<1>9. PlacesAccounted'
  <2>1. Holders' = Holders
    BY <1>2, <1>3 DEF Holders, InSem
  <2>. QED  BY <1>2, <2>1, PlacesAreHolders DEF Inv, PlacesAccounted, Holders, InSem
<1>10. EntriesAlive' /\ RecordedIntervalServed'
  <2>. SUFFICES ASSUME ~cancelled, NEW c \in Check
                PROVE  /\ timers'[c] # None =>
                              at'[<<c, timers'[c]>>] # "idle" /\ every'[<<c, timers'[c]>>] # Once
                       /\ intervals'[c] # None => timers'[c] # None
                       /\ intervals'[c] # None =>
                             \E i \in Run : at'[<<c, i>>] # "idle" /\ every'[<<c, i>>] = intervals'[c]
    BY <1>2 DEF EntriesAlive, RecordedIntervalServed
  <2>1. CASE c \in new
    <3>1. /\ Fresh(c) \in Run /\ <<c, Fresh(c)>> \in started
          /\ timers'[c] = Fresh(c) /\ intervals'[c] = want[c] /\ want[c] \in Interval
      BY <1>1, <1>2, <2>1
    <3>2. at'[<<c, Fresh(c)>>] = "armed" /\ every'[<<c, Fresh(c)>>] = want[c]
      BY <1>2, <3>1
    <3>. QED  BY <3>1, <3>2, SchedulerAssumption DEF Run
  <2>2. CASE c \notin new /\ c \in Obsolete(want)
    BY <1>2, <2>2
  <2>3. CASE c \notin new /\ c \notin Obsolete(want)
    <3>1. \A i \in Run : at'[<<c, i>>] = at[<<c, i>>] /\ every'[<<c, i>>] = every[<<c, i>>]
      BY <1>2, <2>3
    <3>2. timers'[c] = timers[c] /\ intervals'[c] = intervals[c]
      BY <1>2, <2>3
    <3>. QED  BY <3>1, <3>2 DEF Inv, Typed, TypeOK, EntriesAlive, RecordedIntervalServed
  <2>. QED  BY <2>1, <2>2, <2>3
<1>. QED  BY <1>6, <1>7, <1>8, <1>9, <1>10 DEF Inv, Typed

LEMMA ClearKeeps ==
    ASSUME Inv, ClearMaps
    PROVE  Inv'
<1>. DEFINE silenced == {r \in Check \X Run : timers[r[1]] = r[2] /\ at[r] = "armed"}
<1>1. /\ at' = [r \in Check \X Run |-> IF r \in silenced THEN "idle" ELSE at[r]]
      /\ every' = [r \in Check \X Run |-> IF r \in silenced THEN Once ELSE every[r]]
      /\ timers' = [c \in Check |-> None]
      /\ cancelled /\ cancelled' /\ stopped'
      /\ UNCHANGED <<db, dbInterval, requests, inFlight, eventCh, dispatcher, loaderVars>>
  BY DEF ClearMaps
<1>2. /\ intervals' \in [Check -> Interval \cup {None}]
      /\ holder' \in [Check -> Run \cup {None}]
      /\ cancelled' \in BOOLEAN /\ stopped' \in BOOLEAN
  BY DEF ClearMaps, Inv, Typed, TypeOK
<1>3. TypeOK' /\ RunAfterKnown'
  BY <1>1, <1>2 DEF Inv, Typed, TypeOK, RunAfterKnown, Place, loaderVars
<1>4. Kinds'
  BY <1>1 DEF Kinds, Inv, Typed
<1>5. PlacesAccounted'
  <2>1. Holders' = Holders
    BY <1>1 DEF Holders, InSem
  <2>. QED  BY <1>1, <2>1, PlacesAreHolders DEF Inv, PlacesAccounted, Holders, InSem
<1>. QED
  BY <1>1, <1>3, <1>4, <1>5 DEF Inv, Typed, MutexHeld, EntriesAlive, RecordedIntervalServed

LEMMA Inductive == Inv /\ [Next]_vars => Inv'
<1>. SUFFICES ASSUME Inv, [Next]_vars PROVE Inv'
  OBVIOUS
<1>1. CASE UNCHANGED vars
  <2>1. TypeOK' /\ RunAfterKnown'
    BY <1>1 DEF Inv, Typed, TypeOK, RunAfterKnown, vars, mapVars, runVars, loaderVars
  <2>. QED  BY <1>1, <2>1, RunsUntouched DEF Inv, Typed, vars
<1>. QED
  BY <1>1, RequestKeeps, RunNowKeeps, PollKeeps, ReadKeeps, ApplyKeeps, FireKeeps, AdmitKeeps,
     RunCheckKeeps, RearmKeeps, DispatchKeeps, ClearKeeps DEF Next, Load

LEMMA Initially == Init => Inv
<1>. SUFFICES ASSUME Init PROVE Inv
  OBVIOUS
<1>. USE SchedulerAssumption DEF Init
<1>1. TypeOK
  <2>1. eventCh \in Seq(Check) /\ Len(eventCh) <= EventCap
    OBVIOUS
  <2>2. doing \in [Loader -> Doing] /\ snapshot \in [Loader -> [Check -> Interval \cup {None}]]
    BY DEF Doing, Loader
  <2>3. runAfter \in [Loader -> Check \cup {None}]
    BY DEF Loader
  <2>4. at \in [Check \X Run -> Place] /\ every \in [Check \X Run -> Interval \cup {Once}]
    BY DEF Place
  <2>5. requests \in 0 .. MaxRequests /\ inFlight \in 0 .. SemCap
    OBVIOUS
  <2>6. /\ timers \in [Check -> Run \cup {None}]
        /\ intervals \in [Check -> Interval \cup {None}]
        /\ holder \in [Check -> Run \cup {None}]
    OBVIOUS
  <2>7. dispatcher \in BOOLEAN /\ cancelled \in BOOLEAN /\ stopped \in BOOLEAN
    OBVIOUS
  <2>8. db \in [Check -> Status] /\ dbInterval \in [Check -> Interval]
    OBVIOUS
  <2>. QED  BY <2>1, <2>2, <2>3, <2>4, <2>5, <2>6, <2>7, <2>8 DEF TypeOK
<1>2. Kinds /\ RunAfterKnown /\ MutexHeld
  BY DEF Kinds, RunAfterKnown, MutexHeld, Run
<1>3. PlacesAccounted
  <2>1. Holders = {}
    BY DEF Holders, InSem
  <2>. QED  BY <2>1, PlacesAreHolders, FS_EmptySet
<1>4. EntriesAlive /\ RecordedIntervalServed
  BY DEF EntriesAlive, RecordedIntervalServed
<1>. QED  BY <1>1, <1>2, <1>3, <1>4 DEF Inv, Typed

LEMMA Always == Spec => []Inv
BY Initially, Inductive, PTL DEF Spec

-------------------------------------------------------------------------------
(* The theorems                                                            *)

\* The type invariant: in particular sem never holds more than its capacity
\* and never a negative number of runs.
THEOREM TypeCorrect == Spec => []TypeOK
<1>1. Inv => TypeOK
  BY DEF Inv, Typed
<1>. QED  BY <1>1, Always, PTL

\* Two runs of one check never overlap before Stop drops the mutexes.
THEOREM RunsDoNotOverlap == Spec => []NoOverlap
<1>1. Inv => NoOverlap
  <2>. SUFFICES ASSUME Inv, ~stopped, NEW c \in Check, NEW i \in Run, NEW j \in Run,
                       at[<<c, i>>] \in {"locked", "checking"},
                       at[<<c, j>>] \in {"locked", "checking"}
                PROVE  i = j
    BY DEF NoOverlap
  <2>1. holder[c] = i /\ holder[c] = j
    BY DEF Inv, MutexHeld
  <2>. QED  BY <2>1
<1>. QED  BY <1>1, Always, PTL

\* No early return of runCheck leaks a place in sem or frees one twice.
THEOREM PlacesNeverLeak == Spec => []PlacesAccounted
<1>1. Inv => PlacesAccounted
  BY DEF Inv
<1>. QED  BY <1>1, Always, PTL

\* An entry of the timers map always stands for a chain that is alive.
THEOREM EntriesStayAlive == Spec => []EntriesAlive
<1>1. Inv => EntriesAlive
  BY DEF Inv
<1>. QED  BY <1>1, Always, PTL

\* The interval loadChecks compares with the database is one that is served.
THEOREM RecordIsServed == Spec => []RecordedIntervalServed
<1>1. Inv => RecordedIntervalServed
  BY DEF Inv
<1>. QED  BY <1>1, Always, PTL

-------------------------------------------------------------------------------
(* After Stop.                                                             *)

\* What is left of a run to do, counted in stages of runCheck and runAndReschedule.
Left == [p \in Place |-> CASE p = "queued" -> 5 [] p = "admitted" -> 4 [] p = "locked" -> 3
                           [] p = "checking" -> 2 [] p = "rearm" -> 1 [] OTHER -> 0]

\* Once Stop has cancelled the context and the event goroutine has seen it, no step starts a
\* run or takes one back to an earlier stage, and there is no way back from there.
StopOnlyDrains ==
    [][cancelled /\ ~dispatcher =>
          /\ cancelled' /\ ~dispatcher'
          /\ \A r \in Check \X Run : Left[at'[r]] <= Left[at[r]]]_vars

\* After Stop, runs in flight only go on to their ends: late reloads, timers that fire, events
\* that are still waiting and requests for an immediate run start nothing.
THEOREM NothingStartsAfterStop == Spec => StopOnlyDrains
<1> DEFINE Drains == /\ cancelled' /\ ~dispatcher'
                     /\ \A r \in Check \X Run : Left[at'[r]] <= Left[at[r]]
<1>1. /\ Left["idle"] = 0 /\ Left["armed"] = 0 /\ Left["queued"] = 5 /\ Left["admitted"] = 4
      /\ Left["locked"] = 3 /\ Left["checking"] = 2 /\ Left["rearm"] = 1
  BY DEF Left, Place
<1>2. ASSUME TypeOK, [Next]_vars, cancelled, ~dispatcher PROVE Drains
  <2>0. /\ at \in [Check \X Run -> Place]
        /\ \A p \in Place : Left[p] \in Nat
    BY <1>1, <1>2 DEF TypeOK, Place
  <2>1. ASSUME UNCHANGED <<cancelled, dispatcher, at>> PROVE Drains
    BY <1>2, <2>0, <2>1
  <2>2. ASSUME NEW c \in Check, NEW i \in Run, NEW p \in Place, UNCHANGED <<cancelled, dispatcher>>,
               at' = [at EXCEPT ![<<c, i>>] = p], Left[p] <= Left[at[<<c, i>>]]
        PROVE  Drains
    <3> SUFFICES ASSUME NEW r \in Check \X Run PROVE Left[at'[r]] <= Left[at[r]]
      BY <1>2, <2>2
    <3>1. CASE r = <<c, i>>
      BY <2>0, <2>2, <3>1
    <3>2. CASE r # <<c, i>>
      BY <2>0, <2>2, <3>2
    <3>. QED  BY <3>1, <3>2
  <2>3. ASSUME NEW c \in Check, NEW i \in Run,
               Fire(c, i) \/ Admit(c, i) \/ RunCheck(c, i) \/ Rearm(c, i)
        PROVE  Drains
    <3>1. <<c, i>> \in Check \X Run
      OBVIOUS
    <3>0. "idle" \in Place /\ "admitted" \in Place /\ "locked" \in Place /\ "checking" \in Place
          /\ "rearm" \in Place
      BY DEF Place
    <3>. HIDE DEF Drains
    <3>2. CASE Fire(c, i)
      <4>1. /\ UNCHANGED <<cancelled, dispatcher>> /\ at[<<c, i>>] = "armed"
            /\ at' = [at EXCEPT ![<<c, i>>] = "idle"]
        BY <1>2, <3>2 DEF Fire
      <4>2. Left["idle"] <= Left[at[<<c, i>>]]
        BY <1>1, <4>1
      <4>. QED  BY <2>2, <3>0, <4>1, <4>2
    <3>3. CASE Admit(c, i)
      <4>1. /\ UNCHANGED <<cancelled, dispatcher>> /\ at[<<c, i>>] = "queued"
            /\ at' = [at EXCEPT ![<<c, i>>] = "admitted"]
        BY <1>2, <3>3 DEF Admit
      <4>2. Left["admitted"] <= Left[at[<<c, i>>]]
        BY <1>1, <4>1
      <4>. QED  BY <2>2, <3>0, <4>1, <4>2
    <3>4. CASE TryLock(c, i)
      <4>1. /\ UNCHANGED <<cancelled, dispatcher>> /\ at[<<c, i>>] = "admitted"
            /\ at' = [at EXCEPT ![<<c, i>>] = "locked"]
        BY <1>2, <3>4 DEF TryLock
      <4>2. Left["locked"] <= Left[at[<<c, i>>]]
        BY <1>1, <4>1
      <4>. QED  BY <2>2, <3>0, <4>1, <4>2
    <3>5. CASE Busy(c, i)
      <4>1. /\ UNCHANGED <<cancelled, dispatcher>> /\ at[<<c, i>>] = "admitted"
            /\ \/ at' = [at EXCEPT ![<<c, i>>] = "idle"]
               \/ at' = [at EXCEPT ![<<c, i>>] = "rearm"]
        BY <3>5 DEF Busy, Leave
      <4>2. Left["idle"] <= Left[at[<<c, i>>]] /\ Left["rearm"] <= Left[at[<<c, i>>]]
        BY <1>1, <4>1
      <4>. QED  BY <2>2, <3>0, <4>1, <4>2
    <3>6. CASE Begin(c, i)
      <4>1. /\ UNCHANGED <<cancelled, dispatcher>> /\ at[<<c, i>>] = "locked"
            /\ at' = [at EXCEPT ![<<c, i>>] = "checking"]
        BY <1>2, <3>6 DEF Begin
      <4>2. Left["checking"] <= Left[at[<<c, i>>]]
        BY <1>1, <4>1
      <4>. QED  BY <2>2, <3>0, <4>1, <4>2
    <3>7. CASE NotFound(c, i)
      <4>1. /\ UNCHANGED <<cancelled, dispatcher>> /\ at[<<c, i>>] = "locked"
            /\ \/ at' = [at EXCEPT ![<<c, i>>] = "idle"]
               \/ at' = [at EXCEPT ![<<c, i>>] = "rearm"]
        BY <3>7 DEF NotFound, Leave
      <4>2. Left["idle"] <= Left[at[<<c, i>>]] /\ Left["rearm"] <= Left[at[<<c, i>>]]
        BY <1>1, <4>1
      <4>. QED  BY <2>2, <3>0, <4>1, <4>2
    <3>8. CASE Finish(c, i)
      <4>1. /\ UNCHANGED <<cancelled, dispatcher>> /\ at[<<c, i>>] = "checking"
            /\ \/ at' = [at EXCEPT ![<<c, i>>] = "idle"]
               \/ at' = [at EXCEPT ![<<c, i>>] = "rearm"]
        BY <3>8 DEF Finish, Leave
      <4>2. Left["idle"] <= Left[at[<<c, i>>]] /\ Left["rearm"] <= Left[at[<<c, i>>]]
        BY <1>1, <4>1
      <4>. QED  BY <2>2, <3>0, <4>1, <4>2
    <3>9. CASE Rearm(c, i)
      <4>1. /\ UNCHANGED <<cancelled, dispatcher>> /\ at[<<c, i>>] = "rearm"
            /\ at' = [at EXCEPT ![<<c, i>>] = "idle"]
        BY <1>2, <3>9 DEF Rearm
      <4>2. Left["idle"] <= Left[at[<<c, i>>]]
        BY <1>1, <4>1
      <4>. QED  BY <2>2, <3>0, <4>1, <4>2
    <3>. QED  BY <2>3, <3>2, <3>3, <3>4, <3>5, <3>6, <3>7, <3>8, <3>9 DEF RunCheck
  <2>4. ASSUME NEW l \in Loader, ApplyChecks(l) PROVE Drains
    <3>1. UNCHANGED <<cancelled, dispatcher>>
      BY <2>4 DEF ApplyChecks
    <3>2. \A r \in Check \X Run : at'[r] \in {"armed", "idle", at[r]}
      BY <2>4 DEF ApplyChecks
    <3>3. \A r \in Check \X Run : Left[at'[r]] <= Left[at[r]]
      BY <1>1, <2>0, <3>2
    <3>. QED  BY <1>2, <3>1, <3>3
  <2>5. CASE ClearMaps
    <3>1. UNCHANGED <<cancelled, dispatcher>>
      BY <2>5 DEF ClearMaps
    <3>2. \A r \in Check \X Run : at'[r] \in {"idle", at[r]}
      BY <2>5 DEF ClearMaps
    <3>3. \A r \in Check \X Run : Left[at'[r]] <= Left[at[r]]
      BY <1>1, <2>0, <3>2
    <3>. QED  BY <1>2, <3>1, <3>3
  <2>6. ASSUME NEW l \in Loader, ReadChecks(l) \/ ReadChecksFails(l) PROVE Drains
    BY <2>1, <2>6 DEF ReadChecks, ReadChecksFails, runVars
  <2>7. ASSUME NEW h \in Handler, NEW c \in Check, Request(h, c) PROVE Drains
    BY <2>1, <2>7 DEF Request, Change, Unpause, RunCheckNow, runVars
  <2>8. ASSUME NEW h \in Handler, RunNow(h) PROVE Drains
    BY <2>1, <2>8 DEF RunNow, runVars
  <2>9. CASE Tick \/ PollEnds \/ UNCHANGED vars
    BY <2>1, <2>9 DEF Tick, PollEnds, vars, runVars
  <2>10. ~Dispatch /\ ~Cancel /\ ~EventsEnd
    BY <1>2 DEF Dispatch, Cancel, EventsEnd
  <2>. QED  BY <1>2, <2>3, <2>4, <2>5, <2>6, <2>7, <2>8, <2>9, <2>10 DEF Next, Load
<1>3. TypeOK /\ [Next]_vars => [cancelled /\ ~dispatcher => Drains]_vars
  BY <1>2
<1>. QED  BY <1>3, TypeCorrect, PTL DEF Spec, StopOnlyDrains
===============================================================================
