# Formal models of Bekci

Bekci monitors hosts: a scheduler runs checks against targets, a rule engine
turns their results into a state per target, an alerter tells people when that
state changes, and a web client shows it all and lets administrators change it.
This directory holds TLA+ models of the server's core and of the web client, TLC
configurations that check them on small instances, and TLAPS proofs about them.
Everything is translated from the Go code under `internal/` and `cmd/` and the
JavaScript under `frontend/src/`; the file `PROJECT.json` says for each
definition which lines it stands for.

## 1. Inventory

| Component | State | Operations | Talks to |
|---|---|---|---|
| Scheduler (`internal/scheduler`) | maps `timers`, `intervals`, `checkMu` under `mu`; `sem` (200), `eventCh` (100); one goroutine per timer callback | `Start`, `Reload`/`loadChecks`, `RunNow`, `runAndReschedule`, `runCheck`, `Stop` | called by API handlers; reads checks; calls `checker.Run`, `SaveResult`, `go engine.Evaluate` |
| Rule engine (`internal/engine`) | `ruleMu` per rule, `alertSem` (10); the table `rule_states` | `Evaluate`, `evaluateRule`, `evaluateCondition` | results and rules in the database; `go Dispatch` |
| Alerter (`internal/alerter`) | none of its own: settings, recipients and `alert_history` in the database | `Dispatch`, `CheckRealerts` (every 60 s), `SendSystemAlert` | e-mail, Signal and webhook services |
| Store (`internal/store`) | SQLite with a single connection: each statement, and each transaction, is atomic | targets, checks, rules, results, alerts, users, sessions, settings, tags, backups | everybody |
| API (`internal/api`) | login and API rate limiters, cached settings, `index.json` of the saved backups | handlers, run concurrently, several statements each | store, scheduler |
| Accounts (`internal/auth`, users and sessions in the store) | users, sessions, login attempts | login, logout, `requireAuth`, changes of role, status and password | every request |
| Auth store, router, API client (`stores/auth.js`, `router/index.js`, `api/index.js`) | `user`, `initialFetchDone`, the cookie | guard before each page, interceptor after each answer | accounts |
| Targets and Search pages | the list, the expanded row, its details, filters, chips, pins, saved searches in `localStorage` | load, pause, unpause, delete, run, expand, filter | target handlers |
| Target dialog (`TargetEditModal.vue`) | one form, the recipients | open, load, clone, edit conditions, save | target handlers |
| Settings page (`SettingsView.vue`) | a copy of the settings and the forms of its tabs, users, tokens, categories, saved backups, fail2ban, audit log | load and save of each section | their handlers |
| Dashboard, SOC board, SLA page, alert history | the last answers and what has been computed from them | refresh every 30 s, ask for history, turn pages | read-only handlers |
| Life cycle (`cmd/bekci`) | `.shutdown_clean` marker | start, purge, scheduled backup, shutdown; restore command | all |
| Checkers, configuration, cryptography | none that others rely on | one call each | - |

What is hard here, and what makes each part correct:

- **Scheduler.** API handlers, the poll, timer callbacks and the event goroutine
  race for the maps, and the database is read before the lock is taken. Correct
  means: runs of a check never overlap, an active check keeps being run, no place
  in `sem` leaks, and nothing starts after `Stop`.
- **Rule engine.** Results of several checks of one rule are evaluated at once;
  reading the conditions takes several queries, and an evaluator may wait for a
  place in `alertSem` with the new state already written. Correct means: each
  change of state is announced once, in order, and state and announcements end up
  at what the conditions say.
- **Condition evaluation.** Windows, intervals, thresholds and the caps on them.
  Correct means: no alert below the threshold, an alert at it.
- **Alerter.** `Dispatch` calls are not ordered and look at the history before
  they add to it. Correct means: notifications keep the cooldown, and an outage
  goes on being reported.
- **Target store.** Pausing, deleting and renaming are several statements without
  a transaction, and other handlers run between them. Correct means: the pause
  history matches `paused_at`; rule and target go together.
- **Accounts.** Counting administrators and demoting one are apart; a login and a
  suspension overlap. Correct means: an active administrator remains, and whoever
  is suspended or has a new password has no session of before.
- **Backups.** `index.json` is read, emptied and written without a lock, and failures
  are ignored or logged. Correct means: it lists what is in the directory, and there
  are no more backups than the limit.
- **Client state.** Every page keeps copies of what the server said. Requests pass
  each other, answers come when the page has moved on, reloads fail, and other
  tabs and administrators change things. Correct means: what is shown is of the
  target, page, search and user it is shown for; saving one thing does not put
  something old back elsewhere; nothing is asked for for ever, or never.
- **Computed figures.** Bars, order, lights, averages. Correct means: they are
  those of the answers, at the edges of days and slots too.

`PROJECT.json` lists all components with their status, and 40 hazards at their
lines with the properties that watch them, or the reason why none does.

## 2. Modules

| Module | What it is |
|---|---|
| `RuleAlerts` | abstract specification: rules flip, each flip is announced before the next |
| `RuleEngine` | the engine in detail; implements `RuleAlerts` |
| `Scheduler` | the scheduler with the handlers that drive it |
| `Alerter` | the alerter, fed by `RuleAlerts` |
| `RuleEval` | one condition in time: normalisation, spacing of runs, streaks |
| `Accounts` | users, sessions, login limiter and their handlers, a statement at a time |
| `WebSession` | extends `Accounts`: the client's login state, guard and interceptor, login, profile and users pages, in several browsers |
| `TargetStore` | the handlers that create, pause, unpause and delete targets |
| `TargetModal` | the edit dialog of several targets in turn, with its requests |
| `TargetList` | the Targets and Search pages: confirmations, reloads, the expanded row |
| `ConditionForm` | the conditions in the dialog, their groups and windows |
| `SettingsForms` | the settings, the page's copy of them and its forms |
| `TagOptions` | categories, the targets in them and their SLA thresholds |
| `SavedBackups` | the directory of backups and its index |
| `SettingsPanels` | tabs, fail2ban polling and details, the restore dialog |
| `TokenPanel` | API tokens, whose plaintext is shown once |
| `PagedLists` | the alert history and the audit log with its search |
| `Boards` | which history the dashboard and the SOC board ask for |
| `TargetFilters` | filters, chips, pins, pages and saved searches |
| `Figures` | the figures the pages compute, as functions over bounded inputs |
| `MC...` | constants for TLC; `MCTargets` and `MCPages` hold several instances |
| `RuleEngineProofs`, `SchedulerProofs`, `AlerterProofs`, `RuleEvalProofs` | theorems about the module of that name |
| `WebSessionProofs` | theorems about `Accounts` and `WebSession`, the second resting on the first |
| `TargetsProofs` | theorems about `TargetStore`, `TargetModal`, `TargetList` and `ConditionForm` |
| `SettingsProofs` | theorems about `SettingsForms`, `TagOptions`, `SavedBackups`, `SettingsPanels` and `TokenPanel` |
| `BoardsProofs` | theorems about `Boards`, `TargetFilters`, `PagedLists` and `Figures` |

The modules meet at three places. `RuleAlerts` is at once what `RuleEngine` is
shown to implement and the environment of `Alerter` (`Feed == INSTANCE
RuleAlerts`), so what the alerter is shown to do rests on the engine's proved
promise and not on its detail. `Finish` of `Scheduler` is the code that
`SaveResult` of `RuleEngine` stands for: "an active check keeps running" is a
liveness property of the first and a fairness assumption of the second.
`WebSession` is composed with `Accounts` by extension: a request of a tab is
served by the steps of `Accounts`, among those of other tabs, and its answer
changes the client.

`MCTargets` and `MCPages` put several instances into one run. Their modules share no
variable, so their interleavings would say nothing new: a variable `part`, chosen at
first and never changed, says which of them moves. The states of the parts add up,
and each part is checked as if it had a run of its own. `MCTargets` has the four
modules about targets, `RuleEval` and `PagedLists`; `MCPages` those of the settings
page and of the other pages.

### RuleEngine

Each goroutine in `Evaluate` is an `Evaluator` with a program counter; each
query is an action, since the database has one connection and can serve somebody
else between two queries. Locals (`rule`, `old`, `new`, what it has read) are
functions on evaluators and are reset by `Unlock`, as the goroutine's frame is
when `evaluateRule` returns; the deferred `rmu.Unlock()` is part of every return.
The compare-and-swap is two actions (`InsertRow`, `SwapState`), as it is two
statements. A query of the rule, its conditions or its state that fails ends the
evaluation; a query of results that fails does not (`ReadConditionFails`): the
condition counts as not triggered, and the evaluation goes on to write and announce
what follows from that. A check's history is one bit, "its condition matches"; it
flips when a result is saved, and may fall without any result (`Expire`) when results
leave the window. A rule is a set of groups of checks; a group with operator OR is a
set of singletons. `told` is a history variable.

### Scheduler

A run `<<c, i>>` is a goroutine or timer of check `c`, either a timer chain (with
the interval its closure has) or a single run from the event channel. A map entry
holds the chain whose timer was stored last, so an entry can outlive the firing
of its timer, which is where the races are. Each critical section of `s.mu` is an
action (`ApplyChecks`, `TryLock`, `Rearm`, `ClearMaps`); `ReadChecks` is apart
from `ApplyChecks` because the code queries before it locks. A load removes the
entries of every check that is not active (`Inactive`), whatever their interval, so
also that of a chain which armed itself again after an earlier load had stopped it,
and those of a check with another interval than the recorded one (`Changed`). Time
is order only:
an armed timer may fire at any moment. A target that is disabled and one that is
paused are the same to the scheduler.

### Alerter

Each place of `alertSem` is a sender that runs `Dispatch`; the scanner runs
`CheckRealerts`. History rows are abstracted to the ages of the newest row of the
two kinds the code asks for, in ticks, up to the age at which they stop
mattering. `Send` and `Log` are two actions: between them a second `Dispatch` can
look at the history. Sending ends with or without success and is logged in both
cases, as in the code. A target without recipients gets no webhook either.

### RuleEval

One condition, with time in ticks: the timer is armed again when a run has ended,
so results are `interval` plus a duration apart. `Reevaluate` is the evaluation
another check of the same rule causes, at any moment. `failing` and `slowest` are
history variables. `EvalInit` takes every request around the limits of the API
through `Accepted`.

### Accounts and WebSession

Each request is a record with a program counter: `session` and `user` are the two
queries of `requireAuth`, then come the statements of the handler, then the
answer. A handler works with the row it has `seen`, and a statement may fail
between two others (`Fault`). Three history variables name the excuses: `raced`
(a write went ahead though another had changed what it was decided on), `late`
(sessions of logins that had looked at the account before it was revoked),
`spared` (sessions whose deletion failed). In `WebSession` a tab is a browser
with a cookie; `Deliver` applies an answer after the interceptor has looked at
it, in any order; a page that has been left does not wait for its answers. A user
can navigate once the application is mounted, which waits for the first
navigation and so for the first `/me` (`Mounted`).

### TargetStore, TargetModal, TargetList, ConditionForm

`TargetStore` has the statements of each handler. `TargetModal` gives each target its
set of checks, and `home` remembers the one a check was created for; the dialog is
opened, closed and opened for another target while details and saves are on the way, and
other dialogs change the same targets. `TargetList` numbers the changes of the targets,
so that "the list is older than what I did" is a comparison; details of a target may be
asked for again before they have come, so an answer leaves the request there or takes it
away. `ConditionForm` is the form alone: conditions in the order of the dialog, groups
by number, the validity the browser enforces and what the server makes of what it gets.
Removing conditions (`Keep`) and reading them back ordered by group (`Before`) say which
conditions remain and in which order, not how they are filtered or sorted.

### SettingsForms, TagOptions, SavedBackups, SettingsPanels, TokenPanel

A section of the settings is one value, since it is saved as a whole; a secret is
masked as `handleGetSettings` does it. `meant` is what somebody last chose, and
`excused` says where the code cannot do better by its design (see below).
`TagOptions` runs two handlers at a time over options, targets and thresholds.
`SavedBackups` has the directory and the index as two variables and each read and
write as a step. Writing the index is two of them, as `os.WriteFile` empties the file
first: a job that fails in between leaves it empty or cut (`Torn`), as may two that
write at a time, and whoever reads such an index, or cannot read it (`ReadIndexFails`),
goes on with no entries, as `loadBackupIndex` does. Removing an old backup may fail,
which the code ignores (`PruneFails`). `Failing` is FALSE in the instance that shows
what happens without any failure. `SettingsPanels` counts the intervals that run.
In `TokenPanel` a page that is left does not take back its requests: the tokens they
create later are nobody's (`leftBehind`).

### PagedLists, Boards, TargetFilters, Figures

`Boards` keeps, for each check, whether its bars are there, and the requests on the way
in their two stages. A settings page that is opened on the audit log asks for it only
after it has waited for two other answers; until then (`mounting`) the tab is empty. The
order of a list is a relation (`GoesBefore`), the place of a row is the number of rows
before it, and a page is the rows whose places fall into it; tags and saved searches are
sets, since no step looks at their order. The targets page sorts its rows by how many
pinned tags they have; `filteredTargets` leaves that out, since every row left has all
of them (see `PinsPromote` below). `Figures` has no steps: TLC enumerates inputs in
`Init` and the invariant compares each figure with what it should say. Days and slots
are shortened to three, uptimes to three values, and time to hours and ticks, with a
clock that is changed on one day. Averages are whole parts (`Grain`) of a percent,
rounded down, which keeps them on the same side of a threshold (`RoundedDown` of
`BoardsProofs`). How long the lists of an input may be is a bound of the enumeration;
the theorems about each figure are free of it.

## 3. Runs

| Run | Question | Instance |
|---|---|---|
| `ruleengine` | each transition announced once, in order; refinement of `RuleAlerts`; do state and announcements settle; is the place got | 2 rules (one with two AND-ed checks), 2 evaluators, 1 place, 2 events |
| `scheduler_safety` | overlap, places, liveness of map entries, recorded interval | 1 check, 2 intervals, 1 handler and the poll, 3 runs, 2 requests |
| `scheduler_progress` | does an active check keep running; are accepted events run; does `Stop` drain | 1 interval, 1 place in `sem`, 3 runs, 2 requests, shutdown |
| `scheduler_onetimer` | violation, see below | |
| `alerter` | history complete; cooldown; is an outage reported for ever | 1 rule, 1 user, webhook, 1 place and the scanner, 2 edits, 1 fault |
| `alerter_cooldown` | violation, see below | 2 places |
| `ruleeval_threshold` | violation, see below | |
| `websession` | who sees which page; does an administrator remain; do revoked sessions end | 2 administrators and an account to create, 2 browsers, 2 actions, 1 fault |
| `targets` | pause records and rules; checks and recipients that stay with their target; fresh lists; consistent conditions; threshold from below and, with room, from above; log entries of the page asked for | 2-3 targets, 2 handlers, 2 chains, 2 openings of the dialog, 2 conditions; intervals 1-3, fail_count 1-3, window up to 7, run 0 or 1 tick; 2 pages of the log |
| `pages` | nothing old is put back; categories; the index of backups; polling; tokens; bars for all in sight; filters; figures | 4 sections and 3 saves, 3 options and 4 requests, 3 backup jobs with failures, 2 tokens; 2 targets with 3 checks, 2 saved searches in 2 tabs |
| `pages_pins` | violation, see below | as `pages` |
| `savedbackups_limit` | violation, see below | 2 saves, a limit of 1, no failure |

Bounds. `MaxEvents`, `MaxRequests`, `MaxEdits`, `MaxFaults`, `MaxActions`,
`MaxFailures`, `MaxOpened`, `MaxChanges`, `MaxSaves`, `MaxJobs`, `MaxTokens`,
`MaxSaved`, `MaxBatches`, `MaxPages` and `MaxSize` limit what comes from outside (flips,
requests, edits, failures), never what the code does with it; two or three are enough
for one to fall into the middle of another's handling. Two runs of one check collide and
a third can be the chain left over, so `MaxRuns` is 3; a load that needs a fourth has to
wait. Two places of `alertSem` suffice for two `Dispatch` calls to overlap
(`alerter_cooldown`), and one place suffices to make evaluators wait for it. Cooldown
and re-alert period are one tick: ages only matter as "younger" or "old enough". Two
evaluators are one at work and one waiting or starting; the safety properties are also
proved for any number of evaluators, checks, places and senders. In `RuleEval` the
limits are scaled down so that the floor, the cap and the span between them are all
reached. Two browsers with an action each are enough for one to end the session of the
other at any statement; a second fault would only end a second handler early. A browser
has one request on the way at a time there; what a page does while it still waits (it is
reloaded, left, opened again) is what the proof of `ShownToUser` is about, which holds
for any number of requests. Two backups may be kept and three are made, two of them in
the same second if they like; the third of three jobs sees what a failed or overlapped
one has left of the index. A page holds one row, so that two targets make two pages.
`MaxConditions` 2 is enough for a group whose first condition is removed and taken up
again. `ChecksEach` is 1: the checks of a target are started one after the other, and
nothing depends on how many. Interchangeable targets and requests of `TargetList` are
declared symmetric in `targets`; no run with a liveness property uses symmetry.

`scheduler_progress` switches the deadlock check off because a stopped scheduler
with idle handlers really has nothing left to do; there the shutdown counts as one
of the two requests. The runs about the client
switch it off because a user may stop.

Fairness. Goroutines that can run do; timers fire and tickers tick; a check and a
send end, since each has a timeout: weak fairness. Mutexes and channels hand over
to their waiters in turn and `select` picks at random among ready cases, so
waiting for a mutex, for `sem`, for `alertSem` and for `ctx.Done` is strongly
fair. Requests, flips, edits, purges and the shutdown are not owed. In
`RuleEngine` checks keep saving results, which is `ActiveCheckKeepsRunning`. The
models of the client have no fairness: nobody owes an answer or a click.

### What the runs found

1. `OneTimerPerCheck` is violated. An interval changes while the check is running:
   `loadChecks` stores a new chain, then `runAndReschedule` (scheduler.go:241)
   re-arms the old one over it. Both go on for ever, and the check runs at the old
   and the new interval. `RecordedIntervalServed` shows what remains true.
2. `CooldownHonoured` is violated. Two `Dispatch` calls of one rule overlap, both
   look at the history before either logs (alerter.go:50), and both send.
   `CooldownUnlessOverlapping` is what remains.
3. `ThresholdReached` is violated. The floor `fail_count * interval`
   (target_handlers.go:18) leaves out that a run takes time, so `fail_count`
   failures in a row may span more than the window: the condition is late or,
   when another check causes an evaluation, goes back to healthy in the middle of
   an outage. `RoomyFailureTriggers` says when the window is wide enough.
4. `CopiesLimited` is violated. Two saves of full backups overlap
   (backup_handlers.go:386): both read the index, both write their file, and the
   index of the second has no entry of the first's. That file stays, beside as many
   others as `backup_max_copies` allows, though saving is said to be "enforcing" that
   setting (backup_handlers.go:228). `IndexMatchesFiles` is what remains.
5. `PinsPromote` is violated. Pinning a tag is to float the rows that have it to the
   top (TargetsView.vue:72, and "Pin to top" of TagChipInput.vue:87). But only a tag
   among the chips can be pinned, and the list is filtered by all chips first
   (TargetsView.vue:69): the rows without it are gone, those left have every pinned
   tag, and pinning moves none of them.

The other modules state what does hold and name, in a history variable each, the
cases in which the code promises less. A property does not watch the hazard it excuses:
`PROJECT.json` lists such a hazard without a property, and its note says what happens in
the code. What these excuses stand for:

- Two administrators who demote or suspend each other at once can leave no active
  one (`raced`; user_handlers.go:169): `AdminRemains` is stated in `Accounts`, and
  TLC finds it violated there. A profile update takes part, since it writes back
  the role it read.
- A login that overlaps a suspension opens a session that nobody ends (`late`),
  and a deletion of sessions that fails is only logged (`spared`). `requireAuth`
  looks at the status, so such a session of a suspended user is no use until the
  user is activated; after a change of password it is.
- Overlapping pauses leave an open pause record for good (`crossed`), and a
  deletion that fails after its first statement leaves a target without a rule
  (`halfway`).
- A dialog closed during a save and opened for another target can give that
  target the wrong recipients (`odd`): `saveRecipients` reads the form after the
  wait. Checks cannot go astray that way, only because
  `UpdateTargetWithConditions` looks at the target of each check.
- A list loaded before a change may replace the one loaded after it, since
  nothing orders the answers (`passed`, `overlapped`).
- After a save whose reload fails, or crosses that of another section, the copy
  is old and the next save writes it back (`excused`).
- Two categories whose names have the same SLA key share a threshold; deleting or
  renaming one takes it from the other (tags.go:25). Requests that cross leave
  thresholds and categories without an option (`loose`).
- Jobs on the saved backups that overlap lose entries of the index; a failure while
  the index is written, or a reader that meets it empty or torn, loses all of them,
  and an old backup that cannot be removed loses its own (`astray`). Nothing looks
  for files without an entry: they can be neither listed, restored nor deleted.
- A category chosen on the first page of the SOC board does not ask for history
  until the next refresh (`narrowed`; SocView.vue:138); a page a list has shrunk
  under stays, empty (`shrunk`, `squeezed`); an error mark on a check is not taken
  back when its history comes later.
- Around a change of the clocks, `pad90dBars` may show a day twice or leave one
  out (DashboardView.vue:112), so `DaysShown` of `Figures` asks for each day once
  only when they have not changed.
- The comparator of the dashboard is an order, but puts a paused target with an
  unhealthy SLA before healthy ones, other than its comment says
  (DashboardView.vue:165).

## 4. Proofs

All theorems hold for every value of the constants allowed by the named ASSUMEs, which
TLC evaluates on each run: `EngineAssumption`, `SchedulerAssumption`,
`AlerterAssumption`, `EvalAssumption` and `TargetAssumption` of the server,
`AttemptsAssumption`, `NoneAssumption`, `FirstAssumption` and `FormsAssumption` of
accounts and login, `HostAssumption` and `FormAssumption` of the dialog,
`ChecksEachAssumption` of the list, `HostAssumption` and `RowAssumption` of the boards
and filters, `FigureAssumption` of the figures (percentages are between 0 and 100),
`SectionAssumption`, `NameAssumption`, `MaxCopiesAssumption`, `TokenAssumption` and
`QueryAssumption` of the settings and logs. Most say that a mark such as `None` is not
one of the things it stands beside, that a bound is a number, or what the database holds
at first: finitely many users of whom one is an administrator, checks that belong to one
target, categories whose names are unique. That an SLA key is not the name of a category
is about the model: the code keeps them in two tables, and `loose` holds both.

- `RuleEngineProofs`: `TypeOK`, `EvaluationsSerialised`, `TransitionInHand`,
  `DispatchesAlternate`, and the refinement `AnnouncesEveryTransition`. The
  inductive invariant has, besides these, that rows belong to live rules, that an
  evaluator past the comparison wants a change, and that one at `launch` carries
  exactly the stored and the announced state. The last is the key: without it the
  step `Launch` says nothing about which transition it announces. It is kept
  because nobody else can touch the state while the mutex is held, which is
  `EvaluationsSerialised`.
- `SchedulerProofs`: `TypeOK`, `NoOverlap`, `PlacesAccounted`, `EntriesAlive`,
  `RecordedIntervalServed`. `NoOverlap` needs that a run inside holds the mutex,
  unless `Stop` has dropped it. `PlacesAccounted` counts with the cardinality
  theorems, for any finite set of checks. The last two are about chains: a chain
  that is not idle ends only by `ApplyChecks` stopping the timer it finds in the
  entry, which then gets another chain or loses both entries. For the recorded
  interval that is not enough, since the entry may name the old chain again, and
  the invariant follows the chain that carries the recorded interval.
  `StopOnlyDrains` is the safety half of `StopDrains`: after the cancellation and the
  end of the event goroutine no step takes a run back to an earlier stage (`Left`), so
  that each has at most five stages to go; that it goes them is the fairness TLC checks.
- `AlerterProofs`: `TypeOK`, `SentIsLogged`, `CooldownUnlessOverlapping`. The
  action property follows from the history being complete: a `Dispatch` that finds
  only old rows while nobody is about to log has nothing young to overlook.
- `RuleEvalProofs`: `EvalTypeOK`, `NoBlipAlert`, `RoomyFailureTriggers`. The invariant of
  the second is that the streak in the stored results is no longer than the failures
  there were; ageing maps the results onto the older set (a surjection, so no more of
  them), a window only removes some. It also needs that a stored condition with window
  0 has `fail_count` 1, which is a fact about the normalisation of the API and is why
  `evaluateCondition` may ignore `fail_count` there. The third is the converse: now no
  result may be missing from the window, so the invariant (`Spaced`) bounds ages from
  both sides. Results are at least an interval apart, so no two have the same age; and
  at least `k` failures of the current streak are no older than `k - 1` turns of the
  check and the time since the newest result (`Reach`), for every `k` whose reach is
  within the horizon. A longer run only stretches that, and takes from `HasRoom` too.
- `WebSessionProofs`: `AdminUnlessOvertaken`, `RevocationEndsSessions` and
  `ShownToUser`. What the server has is proved of `Accounts` alone (`AdminOfServer`,
  `RevocationOfServer`) and, by the same lemmas for each handler, of `WebSession`,
  whose steps are a statement of the server or an action of a browser. The invariant
  `ServerInv` says for each request what it carries at its statement, that the
  session it came with is its user's or has ended, and, for a request about to
  demote or suspend whose decision has not been overtaken, that two administrators
  are active *now* and not only when they were counted (`DecisionHolds`). A write of
  another request either leaves that true or marks the request as overtaken, which
  is where cardinality comes in: taking one of two leaves one. The invariant
  `ClientInv` adds, for each tab, that a page shown suits the user in the store and
  that a user in the store has a cookie. It needs what a tab is waiting for as well:
  while nothing is mounted, one answer to `/me` about the session its cookie holds, so
  that the store is empty until it comes and no navigation is decided before; and
  afterwards no such answer, so that nothing but a login or the profile's own save
  puts a user into the store of a page that is shown.
- `TargetsProofs`: of the handlers `StoreTypeOK`, `RuleInPlace` and `PauseRecorded`;
  of the dialog `ModalTypeOK`, `ChecksStay` and `RecipientsStay`; of the pages
  `ScreenIsCurrent`; of the form `GroupsAgree` and `StoredAsShown`. `PauseRecorded` is
  not inductive, as it says nothing while a handler is between its statements: the
  invariant adds that one handler at a time is there, and what the target and its
  records are after each of that handler's statements. That an identifier is never
  given out twice is what keeps a new target free of old handlers. `ChecksStay` is
  nearly inductive, since the server refuses the checks of another target, but a check
  that is created must not be one that is somewhere already, so types come first.
  `RecipientsStay` follows the request: a save that is not through and was made from a
  dialog in order (`Tidy`) has the target that is shown, and then its recipients; and
  a dialog that was not opened over requests on the way shows the recipients of its
  target once its details are there. `ScreenIsCurrent` needs, for each chain of
  requests, how old its list can be (`Reloads`) and that an answer with details is for
  the row that is expanded or for none (`Details`). `GroupsAgree` is inductive with
  the types, by the order of positions; that `StoredAsShown` follows from it rests on
  lemmas about what the browser lets through and the server's limits do to each other.
- `SettingsProofs`: `PanelsHold`, `PlaintextSeen`, `SavedStays`, `CategoriesHold` and
  `IndexMatchesFiles`, each with an invariant of its own. *fail2ban*: the page knows
  the interval that runs (`OneInterval`), and only the open list can be answered
  (`OpenListAsked`). *Tokens*: a name is of one token that works, and what two
  requests at a time have made is not held to be seen, nor what a request makes after the
  page was left (`LeftAreUnseen`). *Settings*: each save fits the
  section it was made from (`SavesFit`), and for a section without an excuse the
  server has what was last chosen, and the copy, the field, the save and the answer on
  its way have what the server would show, unless somebody typed it (`Current`).
  *Categories*: `TagHolds` says for a request between two of its statements which
  names and keys are in use, and `CategoriesKept` is the property for all names but
  those that a half-done request is about; the property itself leaves out those of
  every request, and would not survive the next statement. *Backups*: that the
  index never lists more than the limit follows from what a job may write, whose entries
  are pruned before one is added. That a settled backup is in it needs that a job past
  its reading has entries that list every settled backup (`EntriesCover`): a job reads
  all of them, unless the index is being written or cannot be read, and then none is
  settled any more; a save that another job runs beside is not settled
  (`AloneOrAstray`); and emptying the index is harmless as long as the write comes, for
  a job that ends without it marks all as astray. How many they are is a fact about
  positions in a sequence, proved with the cardinality theorems (a listing has no more
  members than positions; an increasing enumeration is an injection).
- `BoardsProofs`: `BarsComing`, `FiltersHold`, `ListIsOfPage` and `FiguresAgree`.
  *Boards*: each check shown has its bars, an error mark or a request on the way
  (`ShownServed`). The step that needs the most is an answer, which takes its request
  away: a request that serves a page has to fit what is there already (`RequestFits`),
  since it leaves out what needs no asking, and the second stage of the SOC page is only
  asked for by the answer to the first. That a page within the list is not empty
  (`PageInList`) says that some target has the page's first place: places are an
  injection of the list into as many numbers, hence a surjection, by the cardinality
  theorems, and a page that is not beyond the last one begins at one of them. *Filters*:
  a page that is not squeezed begins within the rows (`PageExists`), since each change
  of a filter leads back to the first one; applying a saved search, which leaves the
  page alone, is harmless because the search page has none (`PagesApart`); and the
  numbers of saved searches are given out once (`NumbersHold`), so that deleting one
  takes no other away. *Logs*: unless requests overlapped, the one on the way is for the
  page shown (`OnlyThisPage`), and pages exist (`PageThere`); while the settings page is
  still `mounting`, it will ask once more. *Figures*: each figure is proved for inputs
  of any size (`DaysAreShown`, `SlotsAreShown`, `SortIsAnOrder`, `LightsAlwaysAgree`,
  `StatusAlwaysFits`, `PageAlwaysAgrees`), and `FiguresKeepAgreeing` is what follows for
  those of an instance. Sums and averages are recursive functions, and what they compute
  is proved by induction, in a form that needs no predicate as a parameter: the numbers
  a fact holds for are a set, and a set of numbers that leaves one out leaves a least
  one out (`LeastOf`, `Inductive`; `Recursion` gives the function that a definition
  describes). That the average of all hosts lies between those of the categories is then
  a matter of partial sums: were every category above it, so would be all partial sums,
  the last included (`TotalIsBetween`).

TLC has found each inductive invariant to hold on the instance of its run as well.

Every safety property of a passing run is thus proved. Model-checked only: all liveness
properties, since fairness and ENABLED are beyond the prover. Refinement
(`AnnouncesEveryTransition`) is proved for safety alone; its fairness is checked. That
the composition of the modules is as described in section 2 is an argument, not a run.

## 5. Not modelled, and what is next

Left out of the modules above: an edit of a rule's conditions while it is
evaluated; the automatic saving of a page hash and the SNMP cache in `runCheck`;
system alerts; changes of the alerting limits during a behaviour; comparators and
field extraction; how an update matches a target's old checks with new ones; the
limiter of addresses (the same code as that of usernames) and the length of its
periods; free tags, projects and locations; texts, colours and layout.

Left out as components: the network I/O of the checkers; rollups and purges
(single statements over dates); the API limiter (one counter under one mutex); the
two settings cached for 30 s; the arithmetic of the backup schedule; the restore
on the server (one transaction, and copying files); the clean-shutdown marker,
which decides about one message; the reports; configuration files and
cryptography. A composition of scheduler, engine and alerter in one state space is
beyond TLC at the size at which each is interesting; the modules are composed by
the promises named in section 2 instead. Liveness of the client would need
answers that are owed.

What could be proved next, with a history variable for notifications of problems: that
a re-alert of `CheckRealerts` keeps its own period, as `CooldownUnlessOverlapping` does
for `Dispatch`.
