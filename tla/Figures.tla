-------------------------------- MODULE Figures --------------------------------
(***************************************************************************)
(* What the dashboards compute from an answer: the bars of days and of     *)
(* five minutes, the order of the targets, the lights of the system's      *)
(* health, the SLA status and the figures of the SLA page.  Each is        *)
(* compared with what it should say, for every input of an instance.       *)
(* Percentages are whole numbers, times are hours or ticks.                *)
(***************************************************************************)
EXTENDS Integers, Sequences, FiniteSets, FiniteSetsExt

CONSTANTS
    Days,           \* bars of days, 90
    Slots,          \* bars of five minutes, 48
    SlotTicks,      \* ticks of five minutes
    Percent,        \* uptimes
    Threshold,      \* SLA thresholds, 0 for none
    Grain           \* averages are rounded down to parts of this size

ASSUME FigureAssumption ==
    /\ Days \in Nat /\ Slots \in Nat /\ SlotTicks \in Nat \ {0} /\ Grain \in Nat \ {0}
    /\ Percent \subseteq 0 .. 100 /\ Threshold \subseteq 0 .. 100

VARIABLE given      \* an input

Unknown == -1
-----------------------------------------------------------------------------
(* Bars of days.  The browser counts days back on its own clock, which may have been
   changed, and names them in UTC.  `switch` is how many days ago the clock was changed
   from `before` to `after` hours ahead of UTC. *)

DayInputs == [kind : {"days"}, hour : {0, 1, 12, 22, 23}, switch : 0 .. Days, before : 1 .. 2,
              after : 1 .. 2, rollups : SUBSET (20 - Days .. 20)]

Ahead(x, daysAgo) == IF daysAgo < x.switch THEN x.after ELSE x.before

\* From the oldest to today, day 20.
pad90dBars(x) ==
    [i \in 1 .. Days |->
        LET ago == Days - i
            key == (24 * (20 - ago) + x.hour + Ahead(x, 0) - Ahead(x, ago)) \div 24
        IN [date |-> key, known |-> key \in x.rollups]]

\* Days are in order, and every day is shown once with what is known of it, if the clock
\* was not changed.
DaysShown(x) ==
    LET bars == pad90dBars(x) IN
    /\ \A i \in 1 .. Days - 1 : bars[i].date <= bars[i + 1].date
    /\ x.before = x.after =>
          \A day \in 21 - Days .. 20 :
              Cardinality({i \in 1 .. Days : bars[i] = [date |-> day, known |-> day \in x.rollups]}) = 1
-----------------------------------------------------------------------------
(* Bars of five minutes, from results in order of time.  The server's 4 h began a little
   earlier, and its clock may be ahead. *)

Results == {r \in UNION {[1 .. n -> [at : -1 .. Slots * SlotTicks, status : {"up", "down"}]] : n \in 0 .. 2} :
              \A i, j \in DOMAIN r : i < j => r[i].at <= r[j].at}
SlotInputs == [kind : {"slots"}, results : Results]

\* Each slot ends with the tick the next one begins with.
InSlotBoth(t, i) == (i - 1) * SlotTicks <= t /\ t <= i * SlotTicks

InSlot(t, i) == (i - 1) * SlotTicks <= t /\ t < i * SlotTicks

pad4hBars(x) ==
    [i \in 1 .. Slots |->
        LET here == {j \in DOMAIN x.results : InSlot(x.results[j].at, i)}
        IN IF here = {} THEN "none" ELSE x.results[Max(here)].status]

\* The last result of the 4 h is that of the last bar that is not grey, and no result
\* makes two bars.
SlotsShown(x) ==
    LET bars == pad4hBars(x)
        known == {i \in 1 .. Slots : bars[i] # "none"}
        within == {j \in DOMAIN x.results : 0 <= x.results[j].at /\ x.results[j].at < Slots * SlotTicks}
    IN /\ Cardinality(known) <= Cardinality(within)
       /\ (known = {}) = (within = {})
       /\ known # {} => bars[Max(known)] = x.results[Max(within)].status
-----------------------------------------------------------------------------
(* The order of the targets, on both pages. *)

Targets == [state : {"", "checkDown", "paused", "healthy", "unhealthy"}, sla : {"healthy", "unhealthy"},
            worst : {1, 2}, name : {1, 2}]
OrderInputs == [kind : {"order"}, soc : BOOLEAN, a : Targets, b : Targets, c : Targets]

\* SOC looks at the checks of a target that has no state yet.
isTargetDown(soc, t) == t.state = "unhealthy" \/ (soc /\ t.state = "checkDown")

\* The comparator of the sort; negative when a comes first.
Compare(soc, a, b) ==
    LET First(p, q) == IF p = q THEN 0 ELSE IF p THEN -1 ELSE 1
        down == First(isTargetDown(soc, a), isTargetDown(soc, b))
        sla == First(a.sla = "unhealthy", b.sla = "unhealthy")
        paused == First(b.state = "paused", a.state = "paused")
        diff == a.worst - b.worst
    IN IF down # 0 THEN down
       ELSE IF isTargetDown(soc, a) THEN diff
       ELSE IF sla # 0 THEN sla ELSE IF paused # 0 THEN paused
       ELSE IF diff # 0 THEN diff ELSE a.name - b.name

\* A sort needs an order: the comparator does not contradict itself, and problems are first.
SortIsOrder(x) ==
    LET le(a, b) == Compare(x.soc, a, b) <= 0 IN
    /\ (Compare(x.soc, x.a, x.b) < 0) = (Compare(x.soc, x.b, x.a) > 0)
    /\ le(x.a, x.b) /\ le(x.b, x.c) => le(x.a, x.c)
    /\ isTargetDown(x.soc, x.a) /\ ~isTargetDown(x.soc, x.b) => ~le(x.b, x.a)
-----------------------------------------------------------------------------
(* The system's health: a light and a label each. *)

HealthInputs == [kind : {"health"}, known : BOOLEAN, latency : {-1, 0, 3}, total : {0, 10}, free : 0 .. 10,
                 load1 : -1 .. 5, cpus : 1 .. 2, ticked : {-1, 0, 119, 120, 121}]

\* checkScheduler: seconds since the last tick, if there was one.
checkScheduler(x) ==
    IF x.ticked = -1 THEN "starting" ELSE IF x.ticked > 120 THEN "stale" ELSE "ok"

dotColor(x, metric) ==
    IF ~x.known THEN "grey"
    ELSE CASE metric = "net" -> IF x.latency >= 0 THEN "green" ELSE "red"
           [] metric = "disk" -> IF x.total = 0 THEN "grey"
                  ELSE IF 5 * x.free > x.total THEN "green"
                  ELSE IF 10 * x.free > x.total THEN "yellow" ELSE "red"
           [] metric = "cpu" -> IF x.load1 < 0 THEN "grey"
                  ELSE IF x.load1 < x.cpus THEN "green"
                  ELSE IF x.load1 < 2 * x.cpus THEN "yellow" ELSE "red"
           [] metric = "scheduler" -> IF checkScheduler(x) = "ok" THEN "green"
                  ELSE IF checkScheduler(x) = "starting" THEN "yellow" ELSE "red"

\* What each label says, without its numbers.
label(x, metric) ==
    IF ~x.known THEN "-"
    ELSE CASE metric = "net" -> IF x.latency >= 0 THEN "OK" ELSE "Unreachable"
           [] metric = "disk" -> IF x.total = 0 THEN "-" ELSE "free"
           [] metric = "cpu" -> IF x.load1 < 0 THEN "-" ELSE "load"
           [] metric = "scheduler" -> IF checkScheduler(x) = "starting" THEN "Starting"
                  ELSE IF checkScheduler(x) = "stale" THEN "STALE" ELSE "OK"

\* The light is off when the label has nothing to say, and does not contradict it.
LightsAgree(x) ==
    /\ \A m \in {"net", "disk", "cpu", "scheduler"} : (dotColor(x, m) = "grey") = (label(x, m) = "-")
    /\ \A m \in {"net", "scheduler"} : (dotColor(x, m) = "green") = (label(x, m) = "OK")
    /\ (label(x, "scheduler") = "STALE") = (dotColor(x, "scheduler") = "red")
-----------------------------------------------------------------------------
(* The SLA status, from the server, beside the uptime the pages show. *)

Check == [type : {"ping", "http"}, uptime : Percent \cup {Unknown}]
SLAInputs == [kind : {"sla"}, checks : UNION {[1 .. n -> Check] : n \in 0 .. 3},
              preferred : {"ping", "http"}, threshold : Threshold]

OfType(x) == {i \in DOMAIN x.checks : x.checks[i].type = x.preferred}

\* buildDashboardTargets
slaStatus(x) ==
    LET pref == IF OfType(x) = {} THEN Unknown ELSE x.checks[Min(OfType(x))].uptime
        uptime == IF pref = Unknown /\ x.checks # <<>> THEN x.checks[1].uptime ELSE pref
    IN IF x.threshold = 0 \/ uptime = Unknown THEN ""
       ELSE IF uptime >= x.threshold THEN "healthy" ELSE "unhealthy"

getPreferredCheck(x) == x.checks[IF OfType(x) # {} THEN Min(OfType(x)) ELSE 1]

getWorstUptime(x) == Min({100} \cup ({x.checks[i].uptime : i \in DOMAIN x.checks} \ {Unknown}))

\* The status beside an uptime is that of this uptime, and a target is not sorted behind
\* its own bad checks.
StatusFits(x) ==
    x.checks # <<>> =>
        LET shown == getPreferredCheck(x).uptime IN
        /\ shown # Unknown /\ x.threshold > 0 =>
              slaStatus(x) = IF shown >= x.threshold THEN "healthy" ELSE "unhealthy"
        /\ shown # Unknown => getWorstUptime(x) <= shown
-----------------------------------------------------------------------------
(* The figures of the SLA page: categories of targets with the uptimes of some days.
   An average is a sum and the number of its terms. *)

Uptimes == UNION {[1 .. n -> Percent] : n \in 0 .. 2}
PageCategory(hosts) == [threshold : Threshold, targets : UNION {[1 .. n -> Uptimes] : n \in 0 .. hosts}]
PageInputs == [kind : {"page"}, cats : {<<>>} \cup (PageCategory(2) \X PageCategory(1))]

\* Sum and number of the first terms of a sequence, those left out that are not known.
Tally(s) ==
    LET upTo[i \in 0 .. Len(s)] ==
            IF i = 0 THEN [sum |-> 0, n |-> 0]
            ELSE IF s[i] = Unknown THEN upTo[i - 1]
            ELSE [sum |-> upTo[i - 1].sum + s[i], n |-> upTo[i - 1].n + 1]
    IN upTo

Mean(s) == Tally(s)[Len(s)]

target90dAvg(days) ==
    IF Mean(days).n = 0 THEN Unknown ELSE (Grain * Mean(days).sum) \div Mean(days).n

Avgs(cat) == [j \in DOMAIN cat.targets |-> target90dAvg(cat.targets[j])]

\* insights.totalHosts: each by its category and its place in it.
totalHosts(cats) == UNION {{<<i, j>> : j \in DOMAIN cats[i].targets} : i \in DOMAIN cats}

\* insights.failingHosts: those without data are not.
failingHosts(cats) ==
    {h \in totalHosts(cats) :
        LET avg == Avgs(cats[h[1]])[h[2]]
            threshold == cats[h[1]].threshold
        IN threshold > 0 /\ avg # Unknown /\ avg < Grain * threshold}

\* The averages of all hosts, one category after the other.
allAvgs(cats) ==
    LET upTo[i \in 0 .. Len(cats)] == IF i = 0 THEN <<>> ELSE upTo[i - 1] \o Avgs(cats[i])
    IN upTo[Len(cats)]

Shown(cat) == UNION {{cat.targets[j][d] : d \in DOMAIN cat.targets[j]} : j \in DOMAIN cat.targets}

computeYMin(cat) ==
    LET lowest == Min(Shown(cat) \cup {100})
    IN Min({95, IF lowest < 100 THEN lowest - 2 ELSE 95,
            IF cat.threshold > 0 THEN cat.threshold - 2 ELSE 95})

\* Every point and the line of the threshold are on the chart.
ChartFits(cat) ==
    /\ \A v \in Shown(cat) : computeYMin(cat) < v
    /\ cat.threshold > 0 => computeYMin(cat) < cat.threshold

\* A host counts as failing only with a day below the threshold, and does if all its days are.
FailingCounted(cats) ==
    \A i \in DOMAIN cats : \A j \in DOMAIN cats[i].targets :
        LET days == cats[i].targets[j]
            below == {d \in DOMAIN days : days[d] < cats[i].threshold}
        IN /\ <<i, j>> \in failingHosts(cats) => below # {}
           /\ below # {} /\ below = DOMAIN days => <<i, j>> \in failingHosts(cats)

\* The average of all hosts is not below that of every category, nor above.
AverageBetween(cats) ==
    LET all == Mean(allAvgs(cats))
        groups == {i \in DOMAIN cats : Mean(Avgs(cats[i])).n > 0}
        le(p, q) == p.sum * q.n <= q.sum * p.n
    IN /\ (all.n = 0) = (groups = {})
       /\ groups # {} => /\ \E i \in groups : le(Mean(Avgs(cats[i])), all)
                         /\ \E i \in groups : le(all, Mean(Avgs(cats[i])))

PageAgrees(x) ==
    /\ \A i \in DOMAIN x.cats : ChartFits(x.cats[i])
    /\ FailingCounted(x.cats) /\ AverageBetween(x.cats)
-----------------------------------------------------------------------------
FiguresInit ==
    \/ given \in DayInputs \/ given \in SlotInputs \/ given \in OrderInputs
    \/ given \in HealthInputs \/ given \in SLAInputs \/ given \in PageInputs

FiguresSpec == FiguresInit /\ [][FALSE]_given
-----------------------------------------------------------------------------
(* Properties. *)

\* The figures of the pages are those of the answers they are computed from.
FiguresAgree ==
    CASE given.kind = "days" -> DaysShown(given)
      [] given.kind = "slots" -> SlotsShown(given)
      [] given.kind = "order" -> SortIsOrder(given)
      [] given.kind = "health" -> LightsAgree(given)
      [] given.kind = "sla" -> StatusFits(given)
      [] given.kind = "page" -> PageAgrees(given)

===============================================================================
