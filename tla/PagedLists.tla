------------------------------- MODULE PagedLists -------------------------------
(***************************************************************************)
(* The two logs that are read a page at a time: the alerts page and the    *)
(* audit log tab of the settings page, which can be searched.  Answers     *)
(* replace the list whatever page and search text there are by then.       *)
(***************************************************************************)
EXTENDS Naturals

CONSTANTS
    Query,          \* search texts
    NoQuery,        \* the empty one
    MaxSize         \* bound: pages of the log

ASSUME QueryAssumption == NoQuery \in Query

VARIABLES
    log,        \* which of the two is looked at, "alerts" or "audit"
    size,       \* pages of entries on the server that a search text finds
    looked,     \* the page or the tab is open
    mounting,   \* the settings page waits for its settings before it asks for the log
    at,         \* page, auditPage
    text,       \* auditSearch
    total,      \* totalPages, by the last answer
    entries,    \* page and search text of the entries shown
    sent,       \* requests on the way
    timer,      \* auditSearchTimer is running
    failed,     \* the error is shown
    overlapped, \* history: a request was sent before the one before was answered
    slipped     \* history: the log got shorter, a request failed, or the pages were turned by
                \* an answer out of order, since the first page was last asked for

logVars == <<log, size, looked, mounting, at, text, total, entries, sent, timer, failed,
             overlapped, slipped>>

Blank == [page |-> 0, text |-> NoQuery]

\* The settings page has just been opened, on the tab of the audit log or on another.
LogInit ==
    /\ log \in {"alerts", "audit"}
    /\ size = [q \in Query |-> 1]
    /\ looked \in {FALSE, log = "audit"} /\ mounting = (log = "audit")
    /\ at = 1 /\ text = NoQuery /\ total = 1
    /\ entries = Blank /\ sent = {}
    /\ timer = FALSE /\ failed = FALSE /\ overlapped = FALSE /\ slipped = FALSE

loadLog(page) ==
    /\ at' = page
    /\ sent' = sent \cup {[page |-> page, text |-> text]}
    /\ failed' = FALSE
    /\ overlapped' = (sent # {})

\* The alerts page is mounted, or the tab is opened, on the first page.
OpenLog ==
    /\ ~looked /\ looked' = TRUE
    /\ loadLog(1) /\ slipped' = FALSE
    /\ UNCHANGED <<log, size, mounting, text, total, entries, timer>>

\* The settings are there, or failed to load.  The log is asked for if its tab is the
\* one that is open by now, also when it has been asked for since.
Mounted ==
    /\ mounting /\ mounting' = FALSE
    /\ IF looked THEN loadLog(1) /\ slipped' = FALSE
       ELSE UNCHANGED <<at, sent, failed, overlapped, slipped>>
    /\ UNCHANGED <<log, size, looked, text, total, entries, timer>>

\* The settings page keeps what the tab showed, and its timer.
CloseLog ==
    /\ looked /\ looked' = FALSE
    /\ IF log = "audit" THEN UNCHANGED <<at, total, entries, sent, failed, overlapped, slipped>>
       ELSE /\ at' = 1 /\ total' = 1 /\ entries' = Blank /\ sent' = {}
            /\ failed' = FALSE /\ overlapped' = FALSE /\ slipped' = FALSE
    /\ UNCHANGED <<log, size, mounting, text, timer>>

Turn(page) ==
    /\ looked /\ total > 1
    /\ loadLog(page)
    /\ slipped' = (slipped \/ overlapped)
    /\ UNCHANGED <<log, size, looked, mounting, text, total, entries, timer>>

prevPage == at > 1 /\ Turn(at - 1)
nextPage == at < total /\ Turn(at + 1)
-----------------------------------------------------------------------------
(* The search: 300 ms after the last key the first page is asked for. *)

onAuditSearch(q) ==
    /\ log = "audit" /\ looked /\ q # text
    /\ text' = q /\ timer' = TRUE
    /\ UNCHANGED <<log, size, looked, mounting, at, total, entries, sent, failed, overlapped,
                   slipped>>

\* The page is not set back.
SearchTimeoutHere ==
    /\ timer /\ timer' = FALSE
    /\ loadLog(at) /\ slipped' = FALSE
    /\ UNCHANGED <<log, size, looked, mounting, text, total, entries>>

SearchTimeout ==
    /\ timer /\ timer' = FALSE
    /\ loadLog(1) /\ slipped' = FALSE
    /\ UNCHANGED <<log, size, looked, mounting, text, total, entries>>
-----------------------------------------------------------------------------
(* Answers, and the log. *)

LogAnswered(r) ==
    /\ sent' = sent \ {r}
    /\ entries' = r /\ total' = size[r.text]
    /\ UNCHANGED <<log, size, looked, mounting, at, text, timer, failed, overlapped, slipped>>

LogFails(r) ==
    /\ sent' = sent \ {r}
    /\ failed' = TRUE /\ slipped' = TRUE
    /\ UNCHANGED <<log, size, looked, mounting, at, text, total, entries, timer, overlapped>>

\* Entries are added and, when old, purged; a text finds some of them.
Resize(q, n) ==
    /\ size[q] # n
    /\ size' = [size EXCEPT ![q] = n]
    /\ \A p \in Query : size'[p] <= size'[NoQuery]
    /\ slipped' = (slipped \/ n < size[q])
    /\ UNCHANGED <<log, looked, mounting, at, text, total, entries, sent, timer, failed,
                   overlapped>>

LogNext ==
    \/ OpenLog \/ Mounted \/ CloseLog \/ prevPage \/ nextPage \/ SearchTimeout
    \/ \E q \in Query : onAuditSearch(q) \/ \E n \in 1 .. MaxSize : Resize(q, n)
    \/ \E r \in sent : LogAnswered(r) \/ LogFails(r)

LogSpec == LogInit /\ [][LogNext]_logVars
-----------------------------------------------------------------------------
(* Properties. *)

\* Once all is answered, the entries shown are of the page and the search text shown, and
\* the page exists, so that its buttons lead on, unless requests overlapped, one failed or
\* the log got shorter.
ListIsOfPage ==
    \/ ~looked \/ mounting \/ sent # {} \/ timer \/ failed \/ overlapped
    \/ entries = [page |-> at, text |-> text] /\ (slipped \/ at <= total)

===============================================================================
