------------------------------ MODULE TargetList ------------------------------
(***************************************************************************)
(* The two pages that list targets, in one browser: pausing, unpausing,    *)
(* deleting and running from the list, the list that is loaded again after *)
(* each change, and the details of the one target that is expanded.  The   *)
(* requests of one chain follow each other; those of two chains, and the   *)
(* answers to them, pass each other.                                       *)
(***************************************************************************)
EXTENDS Naturals, FiniteSets

CONSTANTS
    Row,            \* targets
    Chain,          \* places for chains of requests
    MaxChanges,     \* bound: changes of the targets
    ChecksEach,     \* checks of a target
    Nothing

ASSUME ChecksEachAssumption == ChecksEach \in Nat

VARIABLES
    view,       \* the page, "Targets" or "Search"
    version,    \* number of changes on the server so far
    present,    \* targets on the server
    halted,     \* targets on the server that are paused
    list,       \* targets as last loaded: version, present and halted then
    dialog,     \* the confirmation shown: what and for which target
    chain,      \* the requests on the way
    own,        \* the newest change this page has made and reloaded after
    expanded,   \* expandedTargetId
    detail,     \* Search: the target whose details are in expandedDetail
    cached,     \* Targets: targets whose checks are in targetChecks
    asked,      \* targets with details on the way, asked for once or more often
    passed,     \* history: two reloads were on the way at once, or one failed
    mingled     \* history: details of two targets were on the way at once

serverList == <<version, present, halted>>
detailVars == <<expanded, detail, cached, asked, mingled>>
listVars == <<view, serverList, list, dialog, chain, own, detailVars, passed>>

Free == [pc |-> "none", op |-> "none", on |-> Nothing, made |-> 0, seen |-> Nothing, left |-> 0]
Now == [version |-> version, present |-> present, halted |-> halted]

ListInit ==
    /\ view \in {"Targets", "Search"}
    /\ version = 0 /\ present = Row /\ halted = {}
    /\ list = Now
    /\ dialog = Nothing
    /\ chain = [c \in Chain |-> Free]
    /\ own = 0
    /\ expanded = Nothing /\ detail = Nothing
    /\ cached = {} /\ asked = {}
    /\ passed = FALSE /\ mingled = FALSE

Reloading(ch) == {c \in Chain : ch[c].pc \in {"load", "list"}}
Become(c, new) == chain' = [chain EXCEPT ![c] = new]

\* A chain goes on to reload the list.
Reload(c, made) ==
    /\ Become(c, [Free EXCEPT !.pc = "load", !.made = made])
    /\ passed' = (passed \/ Reloading(chain) # {})
-----------------------------------------------------------------------------
(* Confirmations: a dialog in front of the page. *)

Dialog(op, t) ==
    /\ dialog = Nothing /\ t \in list.present
    /\ dialog' = [op |-> op, on |-> t]
    /\ UNCHANGED <<view, serverList, list, chain, own, detailVars, passed>>

deleteTarget(t) == Dialog("delete", t)
pauseTarget(t) == t \notin list.halted /\ Dialog("pause", t)
unpauseTarget(t) == t \in list.halted /\ Dialog("unpause", t)

Cancel ==
    /\ dialog # Nothing
    /\ dialog' = Nothing
    /\ UNCHANGED <<view, serverList, list, chain, own, detailVars, passed>>

Confirm(c, op) ==
    /\ dialog # Nothing /\ dialog.op = op
    /\ chain[c] = Free
    /\ Become(c, [Free EXCEPT !.pc = "send", !.op = op, !.on = dialog.on])
    /\ dialog' = Nothing
    /\ UNCHANGED <<view, serverList, list, own, detailVars, passed>>

confirmDelete(c) == Confirm(c, "delete")
confirmPause(c) == Confirm(c, "pause")
confirmUnpause(c) == Confirm(c, "unpause")

\* The server does it if the target is there and in the state for it.
Possible(c) ==
    LET t == chain[c].on IN
    t \in present /\ (chain[c].op = "pause" => t \notin halted)
                  /\ (chain[c].op = "unpause" => t \in halted)

\* Search collapses the target it has deleted.
Changed(c) ==
    LET t == chain[c].on
        op == chain[c].op
        gone == view = "Search" /\ op = "delete" /\ expanded = t
    IN
    /\ chain[c].pc = "send" /\ Possible(c)
    /\ version < MaxChanges /\ version' = version + 1
    /\ present' = IF op = "delete" THEN present \ {t} ELSE present
    /\ halted' = IF op = "pause" THEN halted \cup {t} ELSE halted \ {t}
    /\ expanded' = IF gone THEN Nothing ELSE expanded
    /\ detail' = IF gone THEN Nothing ELSE detail
    /\ Reload(c, version + 1)
    /\ UNCHANGED <<view, list, dialog, own, cached, asked, mingled>>

NotChanged(c) ==
    /\ chain[c].pc = "send"
    /\ Become(c, Free)
    /\ UNCHANGED <<view, serverList, list, dialog, own, detailVars, passed>>

\* The dialog of TargetModal has saved a target.
onTargetSaved(c) ==
    /\ chain[c] = Free
    /\ version < MaxChanges /\ version' = version + 1
    /\ Reload(c, version + 1)
    /\ UNCHANGED <<view, present, halted, list, dialog, own, detailVars>>

ServeList(c) ==
    /\ chain[c].pc = "load"
    /\ Become(c, [chain[c] EXCEPT !.pc = "list", !.seen = Now])
    /\ UNCHANGED <<view, serverList, list, dialog, own, detailVars, passed>>

loadTargets(c) ==
    /\ chain[c].pc = "list"
    /\ list' = chain[c].seen
    /\ own' = IF chain[c].made > own THEN chain[c].made ELSE own
    /\ Become(c, Free)
    /\ UNCHANGED <<view, serverList, dialog, detailVars, passed>>

loadFails(c) ==
    /\ chain[c].pc \in {"load", "list"}
    /\ own' = IF chain[c].made > own THEN chain[c].made ELSE own
    /\ passed' = TRUE
    /\ Become(c, Free)
    /\ UNCHANGED <<view, serverList, list, dialog, detailVars>>

OtherChanges ==
    /\ version < MaxChanges /\ version' = version + 1
    /\ \E t \in present : \/ present' = present \ {t} /\ halted' = halted \ {t}
                          \/ present' = present /\ halted' = halted \cup {t}
    /\ UNCHANGED <<view, list, dialog, chain, own, detailVars, passed>>
-----------------------------------------------------------------------------
(* Details of a target. *)

Ask(t) ==
    /\ asked' = asked \cup {t}
    /\ mingled' = (mingled \/ asked \ {t} # {})

Toggle(t) ==
    /\ t \in list.present /\ dialog = Nothing
    /\ IF expanded = t
       THEN expanded' = Nothing /\ UNCHANGED <<asked, mingled>>
       ELSE expanded' = t /\ Ask(t)
    /\ UNCHANGED <<view, serverList, list, dialog, chain, own, cached, passed>>

toggleTarget(t) == view = "Targets" /\ Toggle(t) /\ UNCHANGED detail
\* The old details stay until the new ones come.
toggleExpandKeeping(t) == view = "Search" /\ Toggle(t) /\ UNCHANGED detail

toggleExpand(t) == view = "Search" /\ Toggle(t) /\ detail' = Nothing

\* Targets files the checks under their target, Search shows what comes.  Other
\* details of the same target may still be on the way.
DetailArrives(t) ==
    /\ t \in asked /\ asked' \in {asked, asked \ {t}}
    /\ \/ view = "Targets" /\ cached' = cached \cup {t} /\ UNCHANGED detail
       \/ view = "Search" /\ t \in present /\ detail' = t /\ UNCHANGED cached
       \/ view = "Search" /\ t \notin present /\ UNCHANGED <<detail, cached>>
    /\ UNCHANGED <<view, serverList, list, dialog, chain, own, expanded, mingled, passed>>

\* What Search has under the expanded row; Targets looks the checks up by the row.
Under == IF expanded = Nothing THEN Nothing ELSE detail
-----------------------------------------------------------------------------
(* Running the checks of a target, one request after the other. *)

\* Targets uses the checks it has, however old; Search asks for them.
runAllChecks(c, t) ==
    /\ chain[c] = Free /\ t \in list.present /\ dialog = Nothing
    /\ (view = "Targets" /\ t \in cached) \/ t \in present
    /\ Become(c, [Free EXCEPT !.pc = "run", !.on = t, !.left = ChecksEach])
    /\ cached' = IF view = "Targets" THEN cached \cup {t} ELSE cached
    /\ UNCHANGED <<view, serverList, list, dialog, own, expanded, detail, asked, mingled, passed>>

\* A check that cannot be queued is counted and does not keep the next from being tried.
RunOne(c) ==
    /\ chain[c].pc = "run" /\ chain[c].left > 0
    /\ Become(c, [chain[c] EXCEPT !.left = @ - 1])
    /\ UNCHANGED <<view, serverList, list, dialog, own, detailVars, passed>>

RunDone(c) ==
    /\ chain[c].pc = "run" /\ chain[c].left = 0
    /\ Become(c, Free)
    /\ UNCHANGED <<view, serverList, list, dialog, own, detailVars, passed>>
-----------------------------------------------------------------------------
ListNext ==
    \/ OtherChanges \/ Cancel
    \/ \E t \in Row :
          \/ deleteTarget(t) \/ pauseTarget(t) \/ unpauseTarget(t)
          \/ toggleTarget(t) \/ toggleExpand(t) \/ DetailArrives(t)
    \/ \E c \in Chain :
          \/ confirmDelete(c) \/ confirmPause(c) \/ confirmUnpause(c)
          \/ Changed(c) \/ NotChanged(c) \/ onTargetSaved(c)
          \/ ServeList(c) \/ loadTargets(c) \/ loadFails(c)
          \/ (\E t \in Row : runAllChecks(c, t)) \/ RunOne(c) \/ RunDone(c)

ListSpec == ListInit /\ [][ListNext]_listVars
-----------------------------------------------------------------------------
(* Properties. *)

\* What the page shows is not older than what its user has done with it, and the details
\* under a target are its own, except when answers passed each other: the page looks at
\* no answer twice, so the last one to come is the one that stays.
ScreenIsCurrent ==
    /\ passed \/ list.version >= own
    /\ mingled \/ Under \in {expanded, Nothing}

===============================================================================
