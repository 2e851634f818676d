-------------------------------- MODULE MCPages --------------------------------
(***************************************************************************)
(* Instances of the five modules about the settings page and of the three  *)
(* about what the other pages show.  They share no state: a behaviour      *)
(* takes the steps of one part, and the others stay where they are, so     *)
(* that the states of the parts add up.  Parts whose Init has a choice     *)
(* make it only when they are the part that moves.                         *)
(***************************************************************************)
EXTENDS SettingsForms, TagOptions, SavedBackups, SettingsPanels, TokenPanel,
        Boards, TargetFilters, Figures, TLC

VARIABLE part

\* Two names have the key of "net_a", as tags.go derives it.
SLAKeyOf(n) ==
    IF n \in {"Net A", "net_a"} THEN "sla_net_a" ELSE IF n = "Core" THEN "sla_core" ELSE "sla_other"
FirstNamesOf == ("o1" :> "Other") @@ ("o2" :> "Net A")
ChecksOf(h) == IF h = 1 THEN {11, 12} ELSE {10 * h}
PreferredOf(h) == IF h = 1 THEN 11 ELSE 10 * h
CategoryOfHost(h) == IF h = 1 THEN "A" ELSE "B"
TagsOfTarget(t) == IF t = 1 THEN {"x", "y"} ELSE {"y"}
ChoiceOfTarget(t) == IF t = 1 THEN "A" ELSE "B"
SomeInput == [kind |-> "days", hour |-> 0, switch |-> 0, before |-> 1, after |-> 1, rollups |-> {}]

settingsVars == <<formVars, tagVars, backupVars, panelVars, tokenVars>>
shownVars == <<boardVars, filterVars, given>>

Init ==
    /\ part \in {"forms", "tags", "backups", "panels", "tokens", "board", "filters", "figures"}
    /\ FormsInit /\ TagsInit /\ BackupsInit /\ PanelsInit /\ TokensInit
    /\ BoardsInit /\ FiltersInit
    /\ part = "board" \/ board = "soc"
    /\ part = "filters" \/ screen = "search"
    /\ IF part = "figures" THEN FiguresInit ELSE given = SomeInput

Next ==
    \/ part = "forms" /\ FormsNext
       /\ UNCHANGED <<part, tagVars, backupVars, panelVars, tokenVars, shownVars>>
    \/ part = "tags" /\ TagsNext
       /\ UNCHANGED <<part, formVars, backupVars, panelVars, tokenVars, shownVars>>
    \/ part = "backups" /\ BackupsNext
       /\ UNCHANGED <<part, formVars, tagVars, panelVars, tokenVars, shownVars>>
    \/ part = "panels" /\ PanelsNext
       /\ UNCHANGED <<part, formVars, tagVars, backupVars, tokenVars, shownVars>>
    \/ part = "tokens" /\ TokensNext
       /\ UNCHANGED <<part, formVars, tagVars, backupVars, panelVars, shownVars>>
    \/ part = "board" /\ BoardsNext
       /\ UNCHANGED <<part, filterVars, given, settingsVars>>
    \/ part = "filters" /\ FiltersNext
       /\ UNCHANGED <<part, boardVars, given, settingsVars>>

Spec == Init /\ [][Next]_<<part, settingsVars, shownVars>>

===============================================================================
