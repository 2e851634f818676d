----------------------------- MODULE SettingsForms -----------------------------
(***************************************************************************)
(* The settings on the server and the forms of the settings page of one    *)
(* administrator.  The page keeps one copy of all settings; the fields of  *)
(* the general and SLA tabs are that copy, those of the other sections     *)
(* are copied from it.  Each section is saved on its own, and all but the  *)
(* general one load all settings again afterwards.  Saves of different     *)
(* sections pass each other.                                               *)
(*                                                                         *)
(* A section has one value.  That of a secret section is a password, which *)
(* the server shows as a mask and does not take back.                      *)
(***************************************************************************)
EXTENDS Naturals

CONSTANTS
    Section,
    General,        \* the section whose fields are the copy itself
    Alerting,       \* sections with one form and one saving flag
    Secret,         \* sections of a password
    Value,
    Mask,
    MaxSaves        \* bound: saves, of this administrator and of others

ASSUME SectionAssumption ==
    /\ General \in Section /\ Alerting \subseteq Section \ {General}
    /\ Secret \subseteq Section \ {General} /\ Mask \notin Value /\ Value # {}

VARIABLES
    stored,     \* the settings on the server
    settings,   \* the page's copy
    form,       \* alertForm, snmpForm and autoBackupForm
    save,       \* the saves on their way
    typed,      \* history: sections whose fields have what was typed into them
    meant,      \* history: what somebody last chose for a section since the page was opened
    excused,    \* history: sections that somebody else saved, that could not be loaded after
                \* a save, or whose save crossed the answer to another's
    saved       \* number of saves

formVars == <<stored, settings, form, save, typed, meant, excused, saved>>

NoRequest == [pc |-> "none", value |-> Mask, typed |-> FALSE, seen |-> <<>>]
Together(s) == IF s \in Alerting THEN Alerting ELSE {s}

\* Sensitive values are masked.
handleGetSettings == [s \in Section |-> IF s \in Secret THEN Mask ELSE stored[s]]

FormsInit ==
    /\ stored = [s \in Section |-> CHOOSE v \in Value : TRUE]
    /\ settings = handleGetSettings
    /\ form = settings
    /\ save = [s \in Section |-> NoRequest]
    /\ typed = {}
    /\ meant = stored
    /\ excused = {}
    /\ saved = 0

Field(s) == IF s = General THEN settings[s] ELSE form[s]
Refill(sections, from) == [s \in Section |-> IF s \in sections THEN from[s] ELSE form[s]]

Type(s, v) ==
    /\ Field(s) # v
    /\ IF s = General THEN settings' = [settings EXCEPT ![s] = v] /\ UNCHANGED form
       ELSE form' = [form EXCEPT ![s] = v] /\ UNCHANGED settings
    /\ typed' = typed \cup {s}
    /\ UNCHANGED <<stored, save, meant, excused, saved>>

\* Opening the tab fills its form from the copy, without asking the server.
openAlerting ==
    /\ form' = Refill(Alerting, settings)
    /\ typed' = typed \ Alerting
    /\ UNCHANGED <<stored, settings, save, meant, excused, saved>>

\* The page is left and opened again.
Mount ==
    /\ \A s \in Section : save[s].pc = "none"
    /\ settings' = handleGetSettings
    /\ form' = settings'
    /\ typed' = {} /\ excused' = {} /\ meant' = stored
    /\ UNCHANGED <<stored, save, saved>>
-----------------------------------------------------------------------------
(* A save: the values, and for all sections but the general one all settings again. *)

Click(s) ==
    /\ \A r \in Together(s) : save[r].pc = "none"
    /\ saved < MaxSaves /\ saved' = saved + 1
    /\ save' = [save EXCEPT ![s] =
          [pc |-> "put", value |-> Field(s), typed |-> s \in typed, seen |-> <<>>]]
    /\ UNCHANGED <<stored, settings, form, typed, meant, excused>>

\* What comes is what is stored, masked or not.
WrittenAny(s, v) == v

\* A mask is not written.
Written(s, v) == IF v = Mask THEN stored[s] ELSE v

handleUpdateSettings(s) ==
    LET v == save[s].value IN
    /\ save[s].pc = "put"
    /\ stored' = [stored EXCEPT ![s] = Written(s, v)]
    /\ meant' = [meant EXCEPT ![s] = IF save[s].typed THEN v ELSE @]
    /\ excused' = excused \cup (IF \E r \in Section : save[r].pc = "got" THEN {s} ELSE {})
    /\ save' = [save EXCEPT ![s] = IF s = General THEN NoRequest ELSE [@ EXCEPT !.pc = "get"]]
    /\ UNCHANGED <<settings, form, typed, saved>>

\* A value out of range, or the key of a category renamed or deleted since the page was
\* opened, and nothing of the section is stored.
UpdateRefused(s) ==
    /\ save[s].pc = "put"
    /\ save' = [save EXCEPT ![s] = NoRequest]
    /\ UNCHANGED <<stored, settings, form, typed, meant, excused, saved>>

ServeSettings(s) ==
    /\ save[s].pc = "get"
    /\ save' = [save EXCEPT ![s] = [@ EXCEPT !.pc = "got", !.seen = handleGetSettings]]
    /\ UNCHANGED <<stored, settings, form, typed, meant, excused, saved>>

\* Unsaved fields of the general tab and of the same form are lost.
loadSettings(s) ==
    /\ save[s].pc = "got"
    /\ settings' = save[s].seen
    /\ form' = Refill(Together(s), settings')
    /\ typed' = typed \ (Together(s) \cup {General})
    /\ excused' = excused \cup (IF save[General].pc = "put" THEN {General} ELSE {})
    /\ save' = [save EXCEPT ![s] = NoRequest]
    /\ UNCHANGED <<stored, meant, saved>>

\* The failure is caught, and the form is filled from the copy of before the save.
loadSettingsFails(s) ==
    /\ save[s].pc \in {"get", "got"}
    /\ form' = Refill(Together(s), settings)
    /\ typed' = typed \ Together(s)
    /\ excused' = excused \cup {s}
    /\ save' = [save EXCEPT ![s] = NoRequest]
    /\ UNCHANGED <<stored, settings, meant, saved>>

OtherSaves(s, v) ==
    /\ saved < MaxSaves /\ saved' = saved + 1
    /\ stored' = [stored EXCEPT ![s] = v]
    /\ meant' = [meant EXCEPT ![s] = v]
    /\ excused' = excused \cup {s}
    /\ UNCHANGED <<settings, form, save, typed>>
-----------------------------------------------------------------------------
FormsNext ==
    \/ openAlerting \/ Mount
    \/ \E s \in Section :
          \/ Click(s) \/ handleUpdateSettings(s) \/ UpdateRefused(s)
          \/ ServeSettings(s) \/ loadSettings(s) \/ loadSettingsFails(s)
          \/ \E v \in Value : Type(s, v) \/ OtherSaves(s, v)

FormsSpec == FormsInit /\ [][FormsNext]_formVars
-----------------------------------------------------------------------------
(* Properties. *)

\* Saving a section whose fields nobody typed into puts nothing old back: a setting is
\* what somebody last chose for it, except where another administrator saved it, it could
\* not be loaded after a save, or the save crossed an older answer.
SavedStays == \A s \in Section \ excused : stored[s] = meant[s]

===============================================================================
