--------------------------------- MODULE Boards ---------------------------------
(***************************************************************************)
(* The dashboard and the SOC page.  Each loads the state of all targets    *)
(* every 30 s, shows those of one category a page at a time, the ones with *)
(* problems first, and asks for the history of the checks it shows, once.  *)
(* The dashboard asks for both bars of all checks of the page together,    *)
(* the SOC page for the 4 h bar of the preferred ones and, when switched   *)
(* on, for their 90 d bar after that.                                      *)
(***************************************************************************)
EXTENDS Naturals, FiniteSets

CONSTANTS
    Host,           \* targets, numbers in the order of their names
    Checks(_),      \* the checks of a target
    Preferred(_),   \* the one it prefers
    Category,
    CategoryOf(_),
    PageSize,
    MaxBatches      \* bound: requests for history on the way when another is made

ASSUME HostAssumption ==
    /\ Host \subseteq Nat /\ IsFiniteSet(Host)
    /\ PageSize \in Nat \ {0} /\ MaxBatches \in Nat

VARIABLES
    board,      \* which page, "dashboard" or "soc"
    data,       \* dashboardData: the targets, and which of them are down
    activeCategory,     \* the category shown
    page,       \* currentPage
    expanded,   \* expandedTargetId
    show90d,    \* SOC: the switch of the 90 d bars
    bars4h, bars90d,    \* checks whose bars there are
    historyError,       \* checks shown as having no history
    batch,      \* requests for history on the way
    missed,     \* history: checks whose 90 d bar could not be loaded
    narrowed,   \* history: the SOC page's filter changed since it last asked for history
    shrunk      \* history: the list got shorter under the page

barVars == <<bars4h, bars90d, historyError, missed>>
boardVars == <<board, data, activeCategory, page, expanded, show90d, barVars, batch, narrowed,
               shrunk>>

Nothing == 0
All == "All"

BoardsInit ==
    /\ board \in {"dashboard", "soc"}
    /\ data = [targets |-> {}, down |-> {}]
    /\ activeCategory = All /\ page = 1 /\ expanded = Nothing /\ show90d = FALSE
    /\ bars4h = {} /\ bars90d = {} /\ historyError = {} /\ missed = {}
    /\ batch = {}
    /\ narrowed = FALSE /\ shrunk = FALSE

Filtered(d, c) == {h \in d.targets : c = All \/ CategoryOf(h) = c}

\* Problems first, then by name.
GoesBefore(d, g, h) == IF (g \in d.down) = (h \in d.down) THEN g < h ELSE g \in d.down

\* How many targets come before a target of the list.
Place(d, c, h) == Cardinality({g \in Filtered(d, c) : GoesBefore(d, g, h)})

paginated(d, c, p) ==
    {h \in Filtered(d, c) : (p - 1) * PageSize <= Place(d, c, h) /\ Place(d, c, h) < p * PageSize}

totalPages(d, c) == (Cardinality(Filtered(d, c)) + PageSize - 1) \div PageSize

ShownChecks(targets) ==
    IF board = "dashboard" THEN UNION {Checks(h) : h \in targets} ELSE {Preferred(h) : h \in targets}
-----------------------------------------------------------------------------
(* Asking for history. *)

Request(stage, ids, have) ==
    IF ids \subseteq have THEN {} ELSE {[stage |-> stage, ids |-> ids, need |-> ids \ have]}

\* Nothing is asked for while a request is on the way.
AskOnce(targets, with90d) ==
    LET ids == ShownChecks(targets)
    IN batch' = IF batch # {} THEN batch ELSE Request("both", ids, bars4h)

\* What is on the way is asked for again.
Ask(targets, with90d) ==
    LET ids == ShownChecks(targets)
        first == Request(IF board = "dashboard" THEN "both" ELSE "4h", ids, bars4h)
    IN /\ Cardinality(batch) < MaxBatches
       /\ batch' = batch \cup
             (IF board = "soc" /\ first = {} /\ with90d THEN Request("90d", ids, bars90d) ELSE first)

\* The answers to one request come together; those that failed are marked, and not
\* unmarked when a later request for them succeeds.
HistoryAnswered(b) ==
    \E well \in SUBSET b.need :
        /\ bars4h' = IF b.stage = "90d" THEN bars4h ELSE bars4h \cup well
        /\ bars90d' = IF b.stage = "4h" THEN bars90d ELSE bars90d \cup well
        /\ historyError' = IF b.stage = "90d" THEN historyError ELSE historyError \cup (b.need \ well)
        /\ missed' = IF b.stage = "90d" THEN missed \cup (b.need \ well) ELSE missed
        /\ batch' = (batch \ {b}) \cup
              (IF b.stage = "4h" /\ show90d THEN Request("90d", b.ids, bars90d) ELSE {})
        /\ UNCHANGED <<board, data, activeCategory, page, expanded, show90d, narrowed, shrunk>>
-----------------------------------------------------------------------------
(* What the page shows. *)

\* Any state of the targets: answers may come out of order.
loadDashboard ==
    \E targets \in SUBSET Host : \E down \in SUBSET targets :
        /\ data' = [targets |-> targets, down |-> down]
        /\ Ask(paginated(data', activeCategory, page), show90d)
        /\ narrowed' = FALSE
        /\ shrunk' = (page > totalPages(data', activeCategory))
        /\ UNCHANGED <<board, activeCategory, page, expanded, show90d, barVars>>

\* Both pages go back to the first page; SOC asks for history if it was on another.
chooseCategory(c) ==
    /\ c # activeCategory \/ (board = "soc" /\ page # 1)
    /\ activeCategory' = c /\ page' = 1
    /\ IF board = "dashboard" \/ page # 1
       THEN Ask(paginated(data, c, 1), show90d) /\ narrowed' = FALSE
       ELSE UNCHANGED batch /\ narrowed' = TRUE
    /\ shrunk' = FALSE
    /\ UNCHANGED <<board, data, expanded, show90d, barVars>>

\* The buttons are there if there is more than one page.
GoTo(p) ==
    /\ totalPages(data, activeCategory) > 1
    /\ page' = p
    /\ Ask(paginated(data, activeCategory, p), show90d)
    /\ narrowed' = FALSE
    /\ shrunk' = (shrunk /\ p > totalPages(data, activeCategory))
    /\ UNCHANGED <<board, data, activeCategory, expanded, show90d, barVars>>

PrevHosts == page > 1 /\ GoTo(page - 1)
NextHosts == page < totalPages(data, activeCategory) /\ GoTo(page + 1)

\* All checks of an expanded target are shown.
toggleTarget(h) ==
    /\ board = "dashboard" /\ h \in paginated(data, activeCategory, page)
    /\ IF expanded = h THEN expanded' = Nothing /\ UNCHANGED batch
       ELSE expanded' = h /\ Ask({h}, FALSE)
    /\ UNCHANGED <<board, data, activeCategory, page, show90d, barVars, narrowed, shrunk>>

toggle90d ==
    /\ board = "soc"
    /\ show90d' = ~show90d
    /\ IF show90d THEN UNCHANGED <<batch, narrowed>>
       ELSE Ask(paginated(data, activeCategory, page), TRUE) /\ narrowed' = FALSE
    /\ UNCHANGED <<board, data, activeCategory, page, expanded, barVars, shrunk>>

BoardsNext ==
    \/ loadDashboard \/ PrevHosts \/ NextHosts \/ toggle90d
    \/ \E c \in Category \cup {All} : chooseCategory(c)
    \/ \E h \in Host : toggleTarget(h)
    \/ \E b \in batch : HistoryAnswered(b)

BoardsSpec == BoardsInit /\ [][BoardsNext]_boardVars
-----------------------------------------------------------------------------
(* Properties. *)

\* No check that is shown is left grey for good: its bars are there, are marked as
\* missing, or have been asked for, except on a SOC page filtered since the last refresh.
\* A page that is empty, though there are targets to show, was one the list shrank under.
BarsComing ==
    LET here == paginated(data, activeCategory, page)
        coming(stages) == UNION {b.ids : b \in {r \in batch : r.stage \in stages}}
    IN
    /\ \/ narrowed
       \/ /\ ShownChecks(here) \subseteq bars4h \cup historyError \cup coming({"both", "4h"})
          /\ show90d => ShownChecks(here) \subseteq bars90d \cup missed \cup coming({"4h", "90d"})
    /\ here # {} \/ Filtered(data, activeCategory) = {} \/ shrunk

===============================================================================
