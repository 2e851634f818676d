------------------------------- MODULE TagOptions -------------------------------
(***************************************************************************)
(* The categories of targets: options added, renamed and deleted on the    *)
(* settings page, the targets that name one, and the SLA thresholds, whose *)
(* keys in the settings are derived from the names.  Deleting and renaming *)
(* are several statements without a transaction; writing a target or a     *)
(* threshold looks at the options first.  Requests are served side by      *)
(* side; each request's first statement is part of its arrival.            *)
(***************************************************************************)
EXTENDS Naturals, FiniteSets

CONSTANTS
    Option,         \* identifiers of options, which are not used again
    Name,
    Other,          \* the name that cannot be renamed or deleted
    SLAKey(_),      \* the key of a name: two names may have the same
    FirstNames,     \* the names of the options there are at first
    Tagged,         \* targets
    Server,         \* places for requests
    MaxRequests     \* bound: requests

\* Names are unique, and names are told from keys.
ASSUME NameAssumption ==
    /\ \E first \in SUBSET Option :
          /\ FirstNames \in [first -> Name]
          /\ Other \in {FirstNames[o] : o \in first}
          /\ \A o, p \in first : FirstNames[o] = FirstNames[p] => o = p
    /\ \A n \in Name : SLAKey(n) \notin Name
    /\ {"unborn", "gone"} \cap Name = {}

VARIABLES
    value,      \* name of an option; "unborn" and "gone" ones have none
    category,   \* of a target
    sla,        \* keys of thresholds in the settings
    server,     \* the requests being served
    requests,   \* number of requests so far
    chosen,     \* history: options whose threshold somebody set
    loose       \* history: names and keys two requests wrote at a time, or that a request
                \* that failed left half done, and keys two options had at a time

tagVars == <<value, category, sla, server, requests, chosen, loose>>

NoTag == [op |-> "none", pc |-> "none", option |-> "none", target |-> "none",
          old |-> Other, new |-> Other]

Alive == {o \in Option : value[o] \in Name}
Names == {value[o] : o \in Alive}

TagsInit ==
    /\ value = [o \in Option |-> IF o \in DOMAIN FirstNames THEN FirstNames[o] ELSE "unborn"]
    /\ category = [t \in Tagged |-> Other]
    /\ sla = {}
    /\ server = [h \in Server |-> NoTag]
    /\ requests = 0
    /\ chosen = {}
    /\ loose = {SLAKey(value[o]) : o \in {p \in Alive :
          \E q \in Alive \ {p} : SLAKey(value[q]) = SLAKey(value[p])}}

Active == {h \in Server : server[h] # NoTag}
WithKeys(names) == names \cup {SLAKey(n) : n \in names}
Touched(request) == WithKeys({request.old, request.new} \ {Other})
Writes(request) == request.op \in {"delete", "rename"}

\* Names and keys that a request shares with one under way.
Clash(request) ==
    LET others == {g \in Active : /\ Touched(server[g]) \cap Touched(request) # {}
                                  /\ Writes(server[g]) \/ Writes(request)}
    IN IF others = {} THEN {}
       ELSE Touched(request) \cup UNION {Touched(server[g]) : g \in others}

\* Keys an option would share when it got a name.
Shared(o, n) == {SLAKey(value[p]) : p \in {q \in Alive \ {o} : SLAKey(value[q]) = SLAKey(n)}}

Begin(h, request) ==
    /\ server[h] = NoTag
    /\ requests < MaxRequests /\ requests' = requests + 1
    /\ server' = [server EXCEPT ![h] = request]
    /\ loose' = loose \cup Clash(request)
    /\ UNCHANGED <<value, category, sla, chosen>>

\* The names an option has by now, if another request renamed it after the lookup.
Renamed(h) ==
    LET o == server[h].option
    IN IF value[o] \in Name \ {server[h].old} THEN WithKeys({value[o]}) ELSE {}

At(h, op, pc) == server[h].op = op /\ server[h].pc = pc
Goes(h, pc) == server' = [server EXCEPT ![h].pc = pc] /\ UNCHANGED requests
Answers(h) == server' = [server EXCEPT ![h] = NoTag] /\ UNCHANGED requests
-----------------------------------------------------------------------------
(* Adding, one statement. *)

addTag(o, n) ==
    /\ value[o] = "unborn" /\ n \notin Names
    /\ requests < MaxRequests /\ requests' = requests + 1
    /\ value' = [value EXCEPT ![o] = n]
    /\ loose' = loose \cup Shared(o, n)
                      \cup Clash([NoTag EXCEPT !.op = "rename", !.old = n, !.new = n])
    /\ UNCHANGED <<category, sla, server, chosen>>
-----------------------------------------------------------------------------
(* Deleting: the option is looked up, the targets are asked, the threshold goes, the
   option goes.  The page has no button for Other. *)

deleteTag(h, o) ==
    /\ o \in Alive /\ value[o] # Other
    /\ Begin(h, [NoTag EXCEPT !.op = "delete", !.pc = "targets", !.option = o,
                              !.old = value[o], !.new = value[o]])

\* In use: the page shows the targets and the option stays.
CheckInUse(h) ==
    /\ At(h, "delete", "targets")
    /\ IF \E t \in Tagged : category[t] = server[h].old THEN Answers(h) ELSE Goes(h, "threshold")
    /\ UNCHANGED <<value, category, sla, chosen, loose>>

DeleteThreshold(h) ==
    /\ At(h, "delete", "threshold")
    /\ sla' = sla \ {SLAKey(server[h].old)}
    /\ Goes(h, "option")
    /\ UNCHANGED <<value, category, chosen, loose>>

DeleteOption(h) ==
    /\ At(h, "delete", "option")
    /\ value' = [value EXCEPT ![server[h].option] = "gone"]
    /\ loose' = loose \cup Renamed(h)
    /\ Answers(h)
    /\ UNCHANGED <<category, sla, chosen>>
-----------------------------------------------------------------------------
(* Renaming: the option is looked up and renamed, then the targets, then the threshold. *)

saveRenameCategory(h, o, n) ==
    /\ o \in Alive /\ value[o] \notin {Other, n}
    /\ Begin(h, [NoTag EXCEPT !.op = "rename", !.pc = "option", !.option = o,
                              !.old = value[o], !.new = n])

\* An option that has been deleted meanwhile is not missed.
RenameOption(h) ==
    LET o == server[h].option
        n == server[h].new
        there == o \in Alive
    IN
    /\ At(h, "rename", "option")
    /\ IF there /\ \E p \in Alive \ {o} : value[p] = n
       THEN Answers(h) /\ UNCHANGED <<value, loose>>
       ELSE /\ value' = IF there THEN [value EXCEPT ![o] = n] ELSE value
            /\ loose' = loose \cup Shared(o, n) \cup Renamed(h)
                              \cup (IF there THEN {} ELSE Touched(server[h]))
            /\ Goes(h, "targets")
    /\ UNCHANGED <<category, sla, chosen>>

\* The rename is not carried on to the targets.
RenameTargetsNone(h) ==
    /\ At(h, "rename", "targets")
    /\ Goes(h, "threshold")
    /\ UNCHANGED <<value, category, sla, chosen, loose>>

RenameTargets(h) ==
    /\ At(h, "rename", "targets")
    /\ category' = [t \in Tagged |->
          IF category[t] = server[h].old THEN server[h].new ELSE category[t]]
    /\ Goes(h, "threshold")
    /\ UNCHANGED <<value, sla, chosen, loose>>

\* Keys are unique: if the new one is there already the request fails here.
RenameThreshold(h) ==
    LET old == SLAKey(server[h].old)
        new == SLAKey(server[h].new)
    IN
    /\ At(h, "rename", "threshold")
    /\ sla' = IF old \in sla /\ new \notin sla THEN (sla \ {old}) \cup {new} ELSE sla
    /\ loose' = IF old \in loose \/ (old # new /\ {old, new} \subseteq sla)
                THEN loose \cup {old, new} ELSE loose
    /\ Answers(h)
    /\ UNCHANGED <<value, category, chosen>>
-----------------------------------------------------------------------------
(* Writing a target with a category, and a threshold, that was there when looked for. *)

ValidateCategory(h, t, n) ==
    /\ n \in Names
    /\ Begin(h, [NoTag EXCEPT !.op = "target", !.pc = "write", !.target = t, !.old = n, !.new = n])

WriteTarget(h) ==
    /\ At(h, "target", "write")
    /\ category' = [category EXCEPT ![server[h].target] = server[h].new]
    /\ Answers(h)
    /\ UNCHANGED <<value, sla, chosen, loose>>

isSLAKey(h, n) ==
    /\ n \in Names
    /\ Begin(h, [NoTag EXCEPT !.op = "threshold", !.pc = "write", !.old = n, !.new = n])

WriteThreshold(h) ==
    LET key == SLAKey(server[h].new) IN
    /\ At(h, "threshold", "write")
    /\ sla' = sla \cup {key}
    /\ chosen' = chosen \cup {o \in Alive : SLAKey(value[o]) = key}
    /\ Answers(h)
    /\ UNCHANGED <<value, category, loose>>

HalfDone(h) == \/ server[h].op = "rename" /\ server[h].pc # "option"
               \/ server[h].op = "delete" /\ server[h].pc = "option"

StatementFails(h) ==
    /\ h \in Active
    /\ loose' = IF HalfDone(h) THEN loose \cup Touched(server[h]) ELSE loose
    /\ Answers(h)
    /\ UNCHANGED <<value, category, sla, chosen>>
-----------------------------------------------------------------------------
TagsNext ==
    \/ \E o \in Option, n \in Name : addTag(o, n)
    \/ \E h \in Server :
          \/ \E o \in Option : deleteTag(h, o) \/ \E n \in Name : saveRenameCategory(h, o, n)
          \/ \E n \in Name : isSLAKey(h, n) \/ \E t \in Tagged : ValidateCategory(h, t, n)
          \/ CheckInUse(h) \/ DeleteThreshold(h) \/ DeleteOption(h)
          \/ RenameOption(h) \/ RenameTargets(h) \/ RenameThreshold(h)
          \/ WriteTarget(h) \/ WriteThreshold(h) \/ StatementFails(h)

TagsSpec == TagsInit /\ [][TagsNext]_tagVars
-----------------------------------------------------------------------------
(* Properties. *)

\* Names and keys that may be between two statements.
Between == loose \cup UNION {Touched(server[h]) : h \in Active}

\* A target's category is an option, a threshold in the settings is one of an option, and
\* a threshold that was set follows its option through renames, except where requests
\* crossed or failed halfway or two names have the same key.
CategoriesHold ==
    /\ \A t \in Tagged : category[t] \in Names \cup Between
    /\ sla \subseteq {SLAKey(n) : n \in Names} \cup Between
    /\ \A o \in chosen \cap Alive : SLAKey(value[o]) \in sla \cup Between

===============================================================================
