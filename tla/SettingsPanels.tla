----------------------------- MODULE SettingsPanels -----------------------------
(***************************************************************************)
(* The settings page as a page: its tabs, the polling of the fail2ban tab, *)
(* the list of bans opened there, and the restore that ends the session.   *)
(***************************************************************************)
EXTENDS Naturals

CONSTANTS
    Detail,         \* the lists of bans that can be opened
    MaxPages,       \* bound: how often the page is opened
    None

VARIABLES
    mounted,    \* the page is there
    tab,        \* activeTab
    intervals,  \* intervals of the browser that call loadFail2Ban
    f2bTimer,   \* whether the page holds one
    jails,      \* f2bJails is not empty
    detailView, detailData,     \* the list that is open, and the one whose rows are shown
    detailAsked,                \* lists that have been asked for
    restoring,  \* "none", "chosen", "confirm" or "running"
    mixed,      \* history: two lists were on the way at once
    pages       \* how often the page was opened

f2bVars == <<intervals, f2bTimer, jails, detailView, detailData, detailAsked, mixed>>
panelVars == <<mounted, tab, f2bVars, restoring, pages>>

Tabs == {"general", "fail2ban", "backup"}

PanelsInit ==
    /\ mounted = TRUE /\ tab = "general"
    /\ intervals = 0 /\ f2bTimer = FALSE /\ jails = FALSE
    /\ detailView = None /\ detailData = None /\ detailAsked = {} /\ mixed = FALSE
    /\ restoring = "none"
    /\ pages = 1
-----------------------------------------------------------------------------
(* Tabs. *)

stopF2BPolling ==
    /\ f2bTimer' = FALSE
    /\ intervals' = IF f2bTimer THEN intervals - 1 ELSE intervals

\* Polling stops before it starts anew, and when another tab is chosen.
startF2BPolling ==
    /\ f2bTimer' = TRUE
    /\ intervals' = IF f2bTimer THEN intervals ELSE intervals + 1

setTab(t) ==
    /\ mounted /\ tab # t /\ tab' = t
    /\ IF t = "fail2ban" THEN startF2BPolling ELSE stopF2BPolling
    /\ UNCHANGED <<mounted, jails, detailView, detailData, detailAsked, mixed,
                   restoring, pages>>

\* Nothing of the page is kept but its interval.
LeavePolling ==
    /\ mounted /\ mounted' = FALSE
    /\ jails' = FALSE /\ detailView' = None /\ detailData' = None /\ detailAsked' = {}
    /\ mixed' = FALSE /\ restoring' = "none"
    /\ UNCHANGED <<tab, intervals, f2bTimer, pages>>

\* Nothing of the page is kept.
Leave ==
    /\ mounted /\ mounted' = FALSE
    /\ stopF2BPolling
    /\ jails' = FALSE /\ detailView' = None /\ detailData' = None /\ detailAsked' = {}
    /\ mixed' = FALSE /\ restoring' = "none"
    /\ UNCHANGED <<tab, pages>>

Enter ==
    /\ ~mounted /\ mounted' = TRUE
    /\ pages < MaxPages /\ pages' = pages + 1
    /\ tab' = "general" /\ f2bTimer' = FALSE
    /\ UNCHANGED <<intervals, jails, detailView, detailData, detailAsked, mixed, restoring>>
-----------------------------------------------------------------------------
(* The fail2ban tab. *)

\* Empty on an error.
loadFail2Ban ==
    /\ mounted /\ intervals > 0
    /\ jails' \in BOOLEAN
    /\ UNCHANGED <<mounted, tab, intervals, f2bTimer, detailView, detailData, detailAsked,
                   mixed, restoring, pages>>

toggleF2BDetail(d) ==
    /\ mounted /\ tab = "fail2ban" /\ jails
    /\ detailData' = None
    /\ IF detailView = d
       THEN detailView' = None /\ UNCHANGED <<detailAsked, mixed>>
       ELSE /\ detailView' = d
            /\ detailAsked' = detailAsked \cup {d}
            /\ mixed' = (mixed \/ detailAsked \ {d} # {})
    /\ UNCHANGED <<mounted, tab, intervals, f2bTimer, jails, restoring, pages>>

CloseDetail ==
    /\ mounted /\ tab = "fail2ban" /\ detailView # None
    /\ detailView' = None /\ detailData' = None
    /\ UNCHANGED <<mounted, tab, intervals, f2bTimer, jails, detailAsked, mixed,
                   restoring, pages>>

\* The rows are shown whatever list is open by now.
DetailAnswered(d) ==
    /\ mounted /\ d \in detailAsked
    /\ detailAsked' = detailAsked \ {d}
    /\ detailData' \in {d, None}
    /\ UNCHANGED <<mounted, tab, intervals, f2bTimer, jails, detailView, mixed,
                   restoring, pages>>
-----------------------------------------------------------------------------
(* The restore of a configuration. *)

RestoreStep(from, to) ==
    /\ mounted /\ restoring = from /\ restoring' = to
    /\ UNCHANGED <<mounted, tab, f2bVars, pages>>

onFileSelected == tab = "backup" /\ RestoreStep("none", "chosen")
confirmRestore == tab = "backup" /\ RestoreStep("chosen", "confirm")
CancelRestore == RestoreStep("confirm", "chosen")
executeRestore == RestoreStep("confirm", "running")
RestoreFails == RestoreStep("running", "chosen")

\* All sessions are gone, the page is left for the login page.
Restored == restoring = "running" /\ Leave
-----------------------------------------------------------------------------
PanelsNext ==
    \/ Leave \/ Enter \/ loadFail2Ban \/ CloseDetail
    \/ onFileSelected \/ confirmRestore \/ CancelRestore \/ executeRestore \/ RestoreFails \/ Restored
    \/ \E t \in Tabs : setTab(t)
    \/ \E d \in Detail : toggleF2BDetail(d) \/ DetailAnswered(d)

PanelsSpec == PanelsInit /\ [][PanelsNext]_panelVars
-----------------------------------------------------------------------------
(* Properties. *)

\* fail2ban is polled while its tab is open and never after, once every 30 s however often
\* tabs and pages change, and the bans shown are those of the open list unless two lists
\* were on the way.
PanelsHold ==
    /\ intervals = IF mounted /\ tab = "fail2ban" THEN 1 ELSE 0
    /\ mixed \/ detailView = None \/ detailData \in {detailView, None}

===============================================================================
