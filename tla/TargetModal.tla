------------------------------ MODULE TargetModal ------------------------------
(***************************************************************************)
(* The dialog that edits, clones and creates targets, in one browser, and  *)
(* what its saves do to the targets on the server while other people       *)
(* change and delete them.  A save is two requests, the target and its     *)
(* recipients, and no answer is tied to the dialog it was asked for: it is *)
(* applied to whatever the dialog shows when it comes.                     *)
(*                                                                         *)
(* Of a target the model keeps its checks and whose recipients it has; of  *)
(* the form the identifiers of the checks in it.                           *)
(***************************************************************************)
EXTENDS Naturals, FiniteSets

CONSTANTS
    Host,           \* targets, there already or still to be created
    Check,          \* identifiers of checks
    FirstChecks,    \* the checks of the targets there are at first
    Saving,         \* saves that may be on the way at once
    MaxOpened,      \* bound: how often the dialog is opened
    Nobody

ASSUME HostAssumption ==
    /\ Nobody \notin Host /\ MaxOpened \in Nat
    /\ \E first \in SUBSET Host : FirstChecks \in [first -> SUBSET Check]
    \* A check is of one target.
    /\ \A t, u \in DOMAIN FirstChecks : FirstChecks[t] \cap FirstChecks[u] # {} => t = u

VARIABLES
    row,        \* state of a target: "new", "there" or "gone"
    checks,     \* the checks of each target
    home,       \* history: the target each check was created for
    heard,      \* the target whose form the recipients were chosen in
    shown,      \* showForm and the targetId it was opened with
    form,       \* the checks in the form, and whether there are new ones
    chosen,     \* selectedRecipients, by the target they were loaded from
    loading,    \* details that have been asked for
    saves,
    hurried,    \* history: opened over requests of before, or not loaded
    odd,        \* history: targets whose recipients a hurried save wrote
    opened      \* how often the dialog has been opened

serverVars == <<row, checks, home, heard>>
modalVars == <<serverVars, shown, form, chosen, loading, saves, hurried, odd, opened>>

Empty == [ids |-> {}, fresh |-> FALSE]
NoSave == [pc |-> "none", to |-> Nobody, form |-> Empty, who |-> Nobody, tidy |-> TRUE]
Closed == [show |-> FALSE, edit |-> Nobody]

\* The details of a target, asked for to be edited or cloned.
DetailRequest == [id : Host, clone : BOOLEAN]

ModalInit ==
    /\ row = [t \in Host |-> IF t \in DOMAIN FirstChecks THEN "there" ELSE "new"]
    /\ checks = [t \in Host |-> IF t \in DOMAIN FirstChecks THEN FirstChecks[t] ELSE {}]
    /\ home = [c \in Check |->
          IF \E t \in DOMAIN FirstChecks : c \in FirstChecks[t]
          THEN CHOOSE t \in DOMAIN FirstChecks : c \in FirstChecks[t] ELSE Nobody]
    /\ heard = [t \in Host |-> t]
    /\ shown = Closed
    /\ form = Empty
    /\ chosen = Nobody
    /\ loading = {}
    /\ saves = [s \in Saving |-> NoSave]
    /\ hurried = FALSE
    /\ odd = {}
    /\ opened = 0

Saved == \A s \in Saving : saves[s].pc = "none"
Unused == {c \in Check : home[c] = Nobody}
-----------------------------------------------------------------------------
(* Opening, from a list that may still name a deleted target, and closing.  Watching
   show, the dialog asks for what it needs. *)

Show(edit) ==
    /\ ~shown.show
    /\ opened < MaxOpened /\ opened' = opened + 1
    /\ shown' = [show |-> TRUE, edit |-> edit]
    /\ hurried' = (loading # {} \/ ~Saved)
    /\ UNCHANGED <<serverVars, saves, odd>>

openForm(t) ==
    /\ row[t] # "new"
    /\ Show(t)
    /\ loading' = loading \cup {[id |-> t, clone |-> FALSE]}
    /\ UNCHANGED <<form, chosen>>

cloneTarget(t) ==
    /\ row[t] # "new"
    /\ Show(Nobody)
    /\ loading' = loading \cup {[id |-> t, clone |-> TRUE]}
    /\ UNCHANGED <<form, chosen>>

\* The form is emptied, the recipients are left.
openNewForm ==
    /\ Show(Nobody)
    /\ form' = Empty
    /\ UNCHANGED <<chosen, loading>>

openNew ==
    /\ Show(Nobody)
    /\ form' = Empty
    /\ chosen' = Nobody
    /\ UNCHANGED loading

close ==
    /\ shown.show
    /\ shown' = [shown EXCEPT !.show = FALSE]
    /\ UNCHANGED <<serverVars, form, chosen, loading, saves, hurried, odd, opened>>

\* A clone loses the identifiers of the checks, and its recipients.
AsClone(f) == [f EXCEPT !.ids = {}, !.fresh = f.fresh \/ f.ids # {}]

loadTargetDetail(l) ==
    /\ l \in loading
    /\ LET loaded == [ids |-> checks[l.id], fresh |-> FALSE] IN
       \/ /\ row[l.id] = "there"
          /\ form' = IF l.clone THEN AsClone(loaded) ELSE loaded
          /\ chosen' = IF l.clone THEN Nobody ELSE l.id
          /\ UNCHANGED hurried
       \/ /\ form' = IF l.clone THEN AsClone(form) ELSE form
          /\ chosen' = IF l.clone THEN Nobody ELSE chosen
          /\ hurried' = TRUE
    /\ loading' = loading \ {l}
    /\ UNCHANGED <<serverVars, shown, saves, odd, opened>>
-----------------------------------------------------------------------------
(* Editing the conditions. *)

Edit(f) ==
    /\ shown.show
    /\ form' = f /\ form # f
    /\ UNCHANGED <<serverVars, shown, chosen, loading, saves, hurried, odd, opened>>

newCondition == Edit([form EXCEPT !.fresh = TRUE])
dropCondition == \E c \in form.ids : Edit([form EXCEPT !.ids = @ \ {c}])
-----------------------------------------------------------------------------
(* Saving. *)

\* The button is off without conditions, and stays on during a save.
saveTarget(s) ==
    /\ shown.show /\ saves[s].pc = "none"
    /\ form.ids # {} \/ form.fresh
    /\ saves' = [saves EXCEPT ![s] =
          [pc |-> "row", to |-> shown.edit, form |-> form, who |-> Nobody,
           tidy |-> ~hurried /\ loading = {}]]
    /\ UNCHANGED <<serverVars, shown, form, chosen, loading, hurried, odd, opened>>

\* An error leaves the dialog as it is, to be tried again.
SaveFails(s) ==
    /\ saves[s].pc # "none"
    /\ saves' = [saves EXCEPT ![s] = NoSave]
    /\ UNCHANGED <<serverVars, shown, form, chosen, loading, hurried, odd, opened>>

\* An update is accepted whatever checks the form names.
PermittedAny(t, f) == row[t] = "there"

\* An update may only name checks of the target itself.
Permitted(t, f) == row[t] = "there" /\ f.ids \subseteq checks[t]

\* The checks the form does not name are deleted, new ones are created.
Write(t, f) ==
    \E new \in SUBSET Unused :
        /\ Cardinality(new) = IF f.fresh THEN 1 ELSE 0
        /\ checks' = [checks EXCEPT ![t] = f.ids \cup new]
        /\ home' = [c \in Check |-> IF c \in new THEN t ELSE home[c]]

Second(s, t) == [pc |-> "recipients", to |-> t, form |-> Empty, who |-> chosen,
                 tidy |-> saves[s].tidy /\ ~hurried]

\* The answer to the first request; the second goes to the target the dialog shows by
\* now, if any, with the recipients it has by now.
handleUpdateTarget(s) ==
    LET t == saves[s].to IN
    /\ saves[s].pc = "row" /\ t # Nobody
    /\ Permitted(t, saves[s].form)
    /\ Write(t, saves[s].form)
    /\ saves' = [saves EXCEPT ![s] =
          IF shown.edit = Nobody THEN NoSave
          ELSE Second(s, shown.edit)]
    /\ shown' = [shown EXCEPT !.show = @ /\ shown.edit # Nobody]
    /\ UNCHANGED <<row, heard, form, chosen, loading, hurried, odd, opened>>

\* A new target has its creator as recipient until the second request.
handleCreateTarget(s) ==
    /\ saves[s].pc = "row" /\ saves[s].to = Nobody
    /\ \E t \in Host :
          /\ row[t] = "new"
          /\ row' = [row EXCEPT ![t] = "there"]
          /\ Write(t, AsClone(saves[s].form))
          /\ saves' = [saves EXCEPT ![s] = Second(s, t)]
    /\ UNCHANGED <<heard, shown, form, chosen, loading, hurried, odd, opened>>

saveRecipients(s) ==
    LET t == saves[s].to IN
    /\ saves[s].pc = "recipients"
    /\ row[t] = "there"
    /\ heard' = [heard EXCEPT ![t] = saves[s].who]
    /\ odd' = IF saves[s].tidy THEN odd \ {t} ELSE odd \cup {t}
    /\ shown' = [shown EXCEPT !.show = FALSE]
    /\ saves' = [saves EXCEPT ![s] = NoSave]
    /\ UNCHANGED <<row, checks, home, form, chosen, loading, hurried, opened>>
-----------------------------------------------------------------------------
(* Other people. *)

OtherUpdates(t) ==
    /\ row[t] = "there"
    /\ \E kept \in SUBSET checks[t] : kept # {} /\ kept # checks[t]
          /\ checks' = [checks EXCEPT ![t] = kept]
    /\ UNCHANGED <<row, home, heard, shown, form, chosen, loading, saves, hurried, odd, opened>>

OtherDeletes(t) ==
    /\ row[t] = "there"
    /\ row' = [row EXCEPT ![t] = "gone"]
    /\ checks' = [checks EXCEPT ![t] = {}]
    /\ UNCHANGED <<home, heard, shown, form, chosen, loading, saves, hurried, odd, opened>>
-----------------------------------------------------------------------------
ModalNext ==
    \/ \E t \in Host : openForm(t) \/ cloneTarget(t) \/ OtherUpdates(t) \/ OtherDeletes(t)
    \/ openNew \/ close \/ newCondition \/ dropCondition
    \/ \E l \in DetailRequest : loadTargetDetail(l)
    \/ \E s \in Saving :
          saveTarget(s) \/ SaveFails(s) \/ handleUpdateTarget(s) \/ handleCreateTarget(s) \/ saveRecipients(s)

ModalSpec == ModalInit /\ [][ModalNext]_modalVars
-----------------------------------------------------------------------------
(* Properties. *)

\* The types of the dialog.
ModalTypeOK ==
    /\ row \in [Host -> {"new", "there", "gone"}]
    /\ checks \in [Host -> SUBSET Check] /\ home \in [Check -> Host \cup {Nobody}]
    /\ heard \in [Host -> Host \cup {Nobody}]
    /\ shown \in [show: BOOLEAN, edit: Host \cup {Nobody}]
    /\ form.ids \subseteq Check
    /\ chosen \in Host \cup {Nobody}
    /\ loading \subseteq DetailRequest
    /\ opened \in 0 .. MaxOpened

\* However late the details of one target arrive in the dialog of another, no save
\* moves a check, with its results, from the target it was created for to another.
ChecksStay == \A t \in Host : \A c \in checks[t] : home[c] = t

\* A target gets the recipients of another only by a save from a dialog that was opened
\* while requests of before were on the way, or that did not get its own data.
RecipientsStay == \A t \in Host : heard[t] \in {t, Nobody} \/ t \in odd

===============================================================================
