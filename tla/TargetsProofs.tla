------------------------------ MODULE TargetsProofs ------------------------------
(***************************************************************************)
(* Proofs about targets: the handlers that pause, resume and delete them   *)
(* (TargetStore), the dialog (TargetModal), the lists (TargetList) and the *)
(* conditions in the dialog (ConditionForm), for any targets, checks,      *)
(* requests and bounds.  The four share no state.                          *)
(***************************************************************************)
EXTENDS TargetStore, TargetModal, TargetList, ConditionForm, FiniteSetTheorems, TLAPS

-----------------------------------------------------------------------------
(* The handlers: types, rules kept with their targets, and pauses recorded *)
(* as long as no two handlers cross.                                       *)

Call == [op : {"none", "pause", "unpause", "delete"}, target : Target \cup {"none"},
         pc : {"idle", "check", "mark", "record", "rule", "row"}]

\* A handler's place fits what it does, and what it works on has been created.
Fitting ==
    \A h \in Handler :
        /\ handler[h].op = "none" => handler[h] = Idle
        /\ handler[h].op \in {"pause", "unpause"} => handler[h].pc \in {"check", "mark", "record"}
        /\ handler[h].op = "delete" => handler[h].pc \in {"check", "rule", "row"}
        /\ handler[h].op # "none" => handler[h].target \in known

StoreTyped ==
    /\ StoreTypeOK
    /\ handler \in [Handler -> Call]
    /\ Fitting
    /\ crossed \subseteq Target /\ halfway \subseteq Target

\* Every action but those of arriving and creating is a step of one handler, which
\* ends or goes on with the same target.
Moves(h) ==
    /\ handler[h] # Idle
    /\ Done(h) \/ \E pc \in {"mark", "record", "rule", "row"} : Step(h, pc)
    /\ known' = known

LEMMA HandlesMove ==
    ASSUME NEW h \in Handler, Handle(h) \/ StatementFails(h)
    PROVE  Moves(h)
BY DEF Handle, StatementFails, CheckPaused, MarkPaused, RecordPause, ClearPaused, RecordResume,
       LookupRule, DeleteRule, DeleteRow, At, Moves, Idle

LEMMA InitTyped == StoreInit => StoreTyped
BY TargetAssumption DEF StoreInit, StoreTyped, StoreTypeOK, Fitting, Idle, Call

\* The handlers, whatever a handler does.
LEMMA HandlerTyped ==
    ASSUME StoreTyped, NEW h \in Handler, Handle(h) \/ StatementFails(h)
    PROVE  /\ handler' \in [Handler -> Call]
           /\ Fitting'
           /\ \A g \in Handler : (handler[g] # Idle => handler[g].target \in Target)'
<1>1. CASE Done(h) /\ known' = known
  BY <1>1 DEF Done, StoreTyped, StoreTypeOK, Fitting, Idle, Call
<1>2. CASE \E pc \in {"mark", "record"} :
              /\ Step(h, pc) /\ known' = known
              /\ handler[h].op \in {"pause", "unpause"}
  BY <1>2 DEF Step, StoreTyped, StoreTypeOK, Fitting, Idle, Call
<1>3. CASE \E pc \in {"rule", "row"} : Step(h, pc) /\ known' = known /\ handler[h].op = "delete"
  BY <1>3 DEF Step, StoreTyped, StoreTypeOK, Fitting, Idle, Call
<1>. QED
  BY <1>1, <1>2, <1>3 DEF Handle, StatementFails, CheckPaused, MarkPaused, RecordPause,
       ClearPaused, RecordResume, LookupRule, DeleteRule, DeleteRow, At

LEMMA StepTyped == StoreTyped /\ [StoreNext]_storeVars => StoreTyped'
<1>. SUFFICES ASSUME StoreTyped, [StoreNext]_storeVars PROVE StoreTyped'
  OBVIOUS
<1>1. ASSUME NEW h \in Handler, NEW t \in Target, NEW op \in {"pause", "unpause", "delete"},
             Receive(h, op, t)
      PROVE  StoreTyped'
  BY <1>1 DEF Receive, StoreTyped, StoreTypeOK, Fitting, Idle, Call
<1>2. ASSUME NEW h \in Handler, NEW t \in Target, CreateTarget(h, t)
      PROVE  StoreTyped'
  BY <1>2 DEF CreateTarget, StoreTyped, StoreTypeOK, Fitting, Idle, Call
<1>3. ASSUME NEW h \in Handler, Handle(h) \/ StatementFails(h)
      PROVE  StoreTyped'
  <2>1. /\ handler' \in [Handler -> Call] /\ Fitting'
        /\ \A g \in Handler : (handler[g] # Idle => handler[g].target \in Target)'
    BY <1>3, HandlerTyped
  <2>2. \A g \in Handler : handler'[g].op \in {"none", "pause", "unpause", "delete"}
                          /\ handler'[g].pc \in {"idle", "check", "mark", "record", "rule", "row"}
    BY <2>1 DEF Call
  <2>3. handler[h] # Idle /\ handler[h].target \in known /\ handler[h].target \in Target
    BY <1>3, HandlesMove DEF Moves, StoreTyped, StoreTypeOK, Fitting, Idle
  <2>4. /\ there' \subseteq known' /\ known' \subseteq Target
        /\ rules' \subseteq known' /\ paused' \subseteq there'
    BY <1>3, <2>3 DEF Handle, StatementFails, CheckPaused, MarkPaused, RecordPause, ClearPaused,
         RecordResume, LookupRule, DeleteRule, DeleteRow, StoreTyped, StoreTypeOK
  <2>5. open' \in [Target -> Nat]
    BY <1>3, <2>3 DEF Handle, StatementFails, CheckPaused, MarkPaused, RecordPause, ClearPaused,
         RecordResume, LookupRule, DeleteRule, DeleteRow, StoreTyped, StoreTypeOK
  <2>6. failures' \in 0 .. MaxFailures /\ crossed' \subseteq Target /\ halfway' \subseteq Target
    BY <1>3, <2>3, TargetAssumption DEF Handle, StatementFails, CheckPaused, MarkPaused, RecordPause, ClearPaused,
         RecordResume, LookupRule, DeleteRule, DeleteRow, Crossing, StoreTyped, StoreTypeOK
  <2>. QED
    BY <2>1, <2>2, <2>4, <2>5, <2>6 DEF StoreTyped, StoreTypeOK
<1>4. CASE UNCHANGED storeVars
  BY <1>4 DEF storeVars, StoreTyped, StoreTypeOK, Fitting, Idle
<1>. QED
  BY <1>1, <1>2, <1>3, <1>4 DEF StoreNext

\* The types of the target tables and of the handlers at work on them.
THEOREM StoreTypes == StoreSpec => []StoreTypeOK
<1>1. StoreTyped => StoreTypeOK
  BY DEF StoreTyped
<1>. QED
  BY InitTyped, StepTyped, <1>1, PTL DEF StoreSpec
-----------------------------------------------------------------------------
(* Rules. *)

LEMMA StepRule == StoreTyped /\ RuleInPlace /\ [StoreNext]_storeVars => RuleInPlace'
<1>. SUFFICES ASSUME StoreTyped, RuleInPlace, [StoreNext]_storeVars,
                     NEW t \in there' \ halfway', t \notin rules'
              PROVE  Amid(t, {"delete"})' # {}
  BY DEF RuleInPlace
<1>1. ASSUME NEW h \in Handler, NEW u \in Target, NEW op \in {"pause", "unpause", "delete"},
             Receive(h, op, u)
      PROVE  Amid(t, {"delete"})' # {}
  BY <1>1 DEF Receive, Amid, RuleInPlace, Idle, StoreTyped, Call
<1>2. ASSUME NEW h \in Handler, NEW u \in Target, CreateTarget(h, u)
      PROVE  Amid(t, {"delete"})' # {}
  BY <1>2 DEF CreateTarget, Amid, RuleInPlace
<1>3. ASSUME NEW h \in Handler, Handle(h) \/ StatementFails(h)
      PROVE  Amid(t, {"delete"})' # {}
  <2>1. CASE DeleteRule(h)
    BY <2>1 DEF DeleteRule, Step, At, Amid, RuleInPlace, StoreTyped, Call
  <2>2. CASE ~DeleteRule(h)
    <3>1. t \in there \ halfway /\ t \notin rules
      BY <1>3, <2>2 DEF Handle, StatementFails, CheckPaused, MarkPaused, RecordPause, ClearPaused,
           RecordResume, LookupRule, DeleteRow
    <3>2. PICK g \in Amid(t, {"delete"}) : TRUE
      BY <3>1 DEF RuleInPlace
    <3>3. g \in Handler /\ handler[g].target = t /\ handler[g].op = "delete" /\ handler[g].pc # "check"
      BY <3>2 DEF Amid
    <3>4. CASE g # h
      <4>1. handler'[g] = handler[g]
        BY <1>3, <3>3, <3>4, HandlesMove DEF Moves, Step, Done, StoreTyped
      <4>. QED
        BY <4>1, <3>3 DEF Amid
    <3>5. CASE g = h
      BY <1>3, <2>2, <3>3, <3>5 DEF Handle, StatementFails, CheckPaused, MarkPaused, RecordPause,
           ClearPaused, RecordResume, LookupRule, DeleteRow, At
    <3>. QED
      BY <3>4, <3>5
  <2>. QED
    BY <2>1, <2>2
<1>4. CASE UNCHANGED storeVars
  BY <1>4 DEF storeVars, RuleInPlace, Amid
<1>. QED
  BY <1>1, <1>2, <1>3, <1>4 DEF StoreNext

\* A target that can be checked can alert: DeleteTarget takes the rule away only from a
\* target that it is about to take away as well.
THEOREM RuleKept == StoreSpec => []RuleInPlace
<1>1. StoreInit => RuleInPlace
  BY DEF StoreInit, RuleInPlace
<1>. QED
  BY InitTyped, StepTyped, StepRule, <1>1, PTL DEF StoreSpec
-----------------------------------------------------------------------------
(* Pauses. *)

\* Handler g is between its look at target t and the end of its writes.
Between(g, t) ==
    /\ handler[g].target = t /\ handler[g].op \in {"pause", "unpause"}
    /\ handler[g].pc # "check"

\* One handler at a time is at work on the pause of a target, and the target and its
\* records are as this handler's statements have left them.
InStep(t) ==
    t \in there \ (crossed \cup halfway) =>
        /\ \A g, k \in Handler : Between(g, t) /\ Between(k, t) => g = k
        /\ \A g \in Handler : Between(g, t) =>
              /\ handler[g].op = "pause" => open[t] = 0
              /\ handler[g].op = "unpause" => open[t] = 1
              /\ handler[g].op = "pause" => (t \in paused <=> handler[g].pc = "record")
              /\ handler[g].op = "unpause" => (t \in paused <=> handler[g].pc = "mark")
        /\ (\A g \in Handler : ~Between(g, t)) =>
              /\ t \in paused => open[t] = 1
              /\ t \notin paused => open[t] = 0

\* A target that is not there is not paused and has no records.
Settled ==
    /\ \A t \in Target \ there : open[t] = 0
    /\ \A t \in there : InStep(t)

LEMMA InitSettled == StoreInit => Settled
BY TargetAssumption DEF StoreInit, Settled, InStep, Between, Idle

LEMMA SettledRecorded == StoreTyped /\ Settled => PauseRecorded
<1>. SUFFICES ASSUME StoreTyped, Settled, NEW t \in there \ (crossed \cup halfway),
                     Amid(t, {"pause", "unpause"}) = {}
              PROVE  open[t] = (IF t \in paused THEN 1 ELSE 0)
  BY DEF PauseRecorded
<1>1. \A g \in Handler : ~Between(g, t)
  BY DEF Amid, Between
<1>. QED
  BY <1>1 DEF Settled, InStep

\* A handler leaves the other targets alone.
LEMMA OthersInStep ==
    ASSUME StoreTyped, NEW h \in Handler, Moves(h), NEW t \in Target, t # handler[h].target,
           open'[t] = open[t], t \in paused' <=> t \in paused, t \in there' => t \in there,
           crossed \subseteq crossed', halfway \subseteq halfway', InStep(t)
    PROVE  InStep(t)'
<1>1. ~Between(h, t) /\ ~Between(h, t)'
  <2>1. CASE Done(h)
    BY <2>1 DEF Done, Between, StoreTyped, Idle
  <2>2. ASSUME NEW pc \in {"mark", "record", "rule", "row"}, Step(h, pc)
        PROVE  ~Between(h, t) /\ ~Between(h, t)'
    BY <2>2 DEF Step, Between, StoreTyped, Call
  <2>. QED
    BY <2>1, <2>2 DEF Moves
<1>2. \A g \in Handler : g # h => handler'[g] = handler[g]
  BY DEF Moves, Step, Done, StoreTyped
<1>3. \A g \in Handler : Between(g, t)' <=> Between(g, t)
  BY <1>1, <1>2 DEF Between
<1>. QED
  BY <1>1, <1>2, <1>3 DEF InStep

LEMMA StepSettled == StoreTyped /\ Settled /\ [StoreNext]_storeVars => Settled'
<1>. SUFFICES ASSUME StoreTyped, Settled, [StoreNext]_storeVars PROVE Settled'
  OBVIOUS
<1>1. ASSUME NEW h \in Handler, NEW u \in Target, NEW op \in {"pause", "unpause", "delete"},
             Receive(h, op, u)
      PROVE  Settled'
  <2>1. \A g \in Handler, t \in Target : Between(g, t)' <=> Between(g, t)
    BY <1>1 DEF Receive, Between, StoreTyped, Idle, Call
  <2>2. \A g \in Handler, t \in Target : Between(g, t) => handler'[g] = handler[g]
    BY <1>1 DEF Receive, Between, StoreTyped, Idle
  <2>. QED
    BY <1>1, <2>1, <2>2 DEF Receive, Settled, InStep, StoreTyped, StoreTypeOK
<1>2. ASSUME NEW h \in Handler, NEW u \in Target, CreateTarget(h, u)
      PROVE  Settled'
  <2>1. \A g \in Handler : ~Between(g, u)
    BY <1>2 DEF CreateTarget, Between, StoreTyped, Fitting
  <2>2. u \notin there /\ u \notin paused /\ open[u] = 0
    BY <1>2 DEF CreateTarget, Settled, StoreTyped, StoreTypeOK
  <2>3. InStep(u)'
    BY <1>2, <2>1, <2>2 DEF CreateTarget, InStep, Between
  <2>4. \A t \in there : InStep(t)'
    BY <1>2 DEF CreateTarget, Settled, InStep, Between
  <2>. QED
    BY <1>2, <2>3, <2>4 DEF CreateTarget, Settled
<1>3. ASSUME NEW h \in Handler, Handle(h) \/ StatementFails(h)
      PROVE  Settled'
  <2>1. PICK u \in Target : u = handler[h].target
    BY <1>3, HandlesMove DEF Moves, StoreTyped, StoreTypeOK
  <2>2. /\ there' \subseteq there /\ crossed \subseteq crossed' /\ halfway \subseteq halfway'
        /\ \A t \in Target : t # u => /\ open'[t] = open[t] /\ (t \in paused' <=> t \in paused)
                                      /\ (t \in there' <=> t \in there)
    BY <1>3, <2>1 DEF Handle, StatementFails, CheckPaused, MarkPaused, RecordPause, ClearPaused,
         RecordResume, LookupRule, DeleteRule, DeleteRow, StoreTyped, StoreTypeOK
  <2>3. \A t \in there' : t # u => InStep(t)'
    BY <1>3, <2>1, <2>2, HandlesMove, OthersInStep DEF Settled, StoreTyped, StoreTypeOK
  <2>4. u \notin there' => open'[u] = 0
    BY <1>3, <2>1 DEF Handle, StatementFails, CheckPaused, MarkPaused, RecordPause, ClearPaused,
         RecordResume, LookupRule, DeleteRule, DeleteRow, Settled, StoreTyped, StoreTypeOK
  <2>5. ASSUME u \in there', u \notin crossed' \cup halfway'
        PROVE  InStep(u)'
    <3>1. u \in there /\ u \notin crossed \cup halfway /\ InStep(u)
      BY <2>1, <2>2, <2>5 DEF Settled
    <3>2. \A g \in Handler : g # h => handler'[g] = handler[g] /\ (Between(g, u)' <=> Between(g, u))
      <4>1. \A g \in Handler : g # h => handler'[g] = handler[g]
        BY <2>1, <1>3, HandlesMove DEF Moves, Step, Done, StoreTyped
      <4>. QED
        BY <2>1, <4>1 DEF Between
    <3>3. CASE CheckPaused(h)
      <4>1. CASE u \in there /\ (u \in paused) = (handler[h].op = "unpause")
        <5>1. Step(h, "mark") /\ crossed' = crossed \cup Crossing(h, u)
          BY <2>1, <3>3, <4>1 DEF CheckPaused
        <5>2. \A g \in Handler : g # h => ~Between(g, u)
          BY <2>1, <2>5, <5>1 DEF Crossing, Amid, Between
        <5>3. ~Between(h, u)
          BY <2>1, <3>3 DEF CheckPaused, Between
        <5>4. /\ u \in paused => open[u] = 1 /\ handler[h].op = "unpause"
              /\ u \notin paused => open[u] = 0 /\ handler[h].op = "pause"
          BY <2>1, <3>1, <3>3, <4>1, <5>2, <5>3 DEF InStep, CheckPaused
        <5>5. handler'[h].op = handler[h].op /\ handler'[h].pc = "mark"
          BY <2>1, <5>1 DEF Step, StoreTyped, Call
        <5>. QED
          BY <2>1, <3>2, <3>3, <5>2, <5>4, <5>5 DEF InStep, CheckPaused, Between
      <4>2. CASE ~(u \in there /\ (u \in paused) = (handler[h].op = "unpause"))
        <5>1. ~Between(h, u) /\ ~Between(h, u)'
          BY <2>1, <3>3, <4>2 DEF CheckPaused, Between, Done, Idle, StoreTyped
        <5>. QED
          BY <2>1, <3>1, <3>2, <3>3, <4>2, <5>1 DEF InStep, CheckPaused
      <4>. QED
        BY <2>1, <4>1, <4>2
    <3>4. CASE MarkPaused(h) \/ ClearPaused(h)
      <4>1. Between(h, u) /\ Between(h, u)'
        BY <2>1, <3>4 DEF MarkPaused, ClearPaused, At, Step, Between, StoreTyped, Call
      <4>2. \A g \in Handler : g # h => ~Between(g, u) /\ ~Between(g, u)'
        BY <2>1, <3>1, <3>2, <4>1 DEF InStep
      <4>3. handler'[h].op = handler[h].op /\ handler'[h].pc = "record"
        BY <2>1, <3>4 DEF MarkPaused, ClearPaused, Step, StoreTyped, Call
      <4>4. /\ handler[h].op = "pause" => u \in paused' /\ open[u] = 0
            /\ handler[h].op = "unpause" => u \notin paused' /\ open[u] = 1
        BY <2>1, <3>1, <3>4, <4>1 DEF MarkPaused, ClearPaused, At, InStep
      <4>. QED
        BY <2>1, <3>4, <4>1, <4>2, <4>3, <4>4 DEF MarkPaused, ClearPaused, At, InStep
    <3>5. CASE RecordPause(h) \/ RecordResume(h)
      <4>1. Between(h, u) /\ ~Between(h, u)'
        BY <2>1, <3>5 DEF RecordPause, RecordResume, At, Done, Idle, Between, StoreTyped
      <4>2. \A g \in Handler : ~Between(g, u)'
        BY <2>1, <3>1, <3>2, <4>1 DEF InStep
      <4>3. /\ RecordPause(h) => u \in paused' /\ open'[u] = 1
            /\ RecordResume(h) => u \notin paused' /\ open'[u] = 0
        BY <2>1, <3>1, <4>1 DEF RecordPause, RecordResume, At, InStep, StoreTyped, StoreTypeOK
      <4>. QED
        BY <2>1, <3>5, <4>2, <4>3 DEF InStep
    <3>6. CASE LookupRule(h) \/ DeleteRule(h) \/ StatementFails(h)
      <4>1. ~Between(h, u) /\ ~Between(h, u)'
        <5>1. CASE LookupRule(h) \/ DeleteRule(h)
          BY <2>1, <5>1 DEF LookupRule, DeleteRule, At, Step, Between, StoreTyped, Call
        <5>2. CASE StatementFails(h)
          BY <2>1, <2>5, <5>2 DEF StatementFails, Done, Idle, Between, StoreTyped
        <5>. QED
          BY <2>1, <3>6, <5>1, <5>2
      <4>2. open' = open /\ paused' = paused
        BY <2>1, <3>6 DEF LookupRule, DeleteRule, StatementFails
      <4>. QED
        BY <2>1, <3>1, <3>2, <4>1, <4>2 DEF InStep
    <3>7. CASE DeleteRow(h)
      BY <2>1, <2>5, <3>7 DEF DeleteRow
    <3>. QED
      BY <2>1, <1>3, <3>3, <3>4, <3>5, <3>6, <3>7 DEF Handle
  <2>6. InStep(u)' \/ u \notin there'
    BY <2>5 DEF InStep
  <2>. QED
    BY <2>1, <2>2, <2>3, <2>4, <2>6 DEF Settled
<1>4. CASE UNCHANGED storeVars
  BY <1>4 DEF storeVars, Settled, InStep, Between
<1>. QED
  BY <1>1, <1>2, <1>3, <1>4 DEF StoreNext

\* PauseTarget and UnpauseTarget keep one open record for a paused target and none for
\* another, as long as no two of them cross and none fails halfway.
THEOREM PausesRecorded == StoreSpec => []PauseRecorded
BY InitTyped, StepTyped, InitSettled, StepSettled, SettledRecorded, PTL DEF StoreSpec

-----------------------------------------------------------------------------
(* The dialog. *)

FormData == [ids : SUBSET Check, fresh : BOOLEAN]
Save == [pc : {"none", "row", "recipients"}, to : Host \cup {Nobody}, form : FormData,
         who : Host \cup {Nobody}, tidy : BOOLEAN]

ModalTyped ==
    /\ ModalTypeOK
    /\ form \in FormData
    /\ saves \in [Saving -> Save]
    /\ \A s \in Saving : saves[s].pc = "recipients" => saves[s].to \in Host
    /\ hurried \in BOOLEAN /\ odd \subseteq Host

LEMMA ModalInitTyped == ModalInit => ModalTyped
<1>. SUFFICES ASSUME ModalInit PROVE ModalTyped
  OBVIOUS
<1>1. home \in [Check -> Host \cup {Nobody}]
  <2>1. \A c \in Check : (\E t \in DOMAIN FirstChecks : c \in FirstChecks[t]) =>
           (CHOOSE t \in DOMAIN FirstChecks : c \in FirstChecks[t]) \in Host
    BY HostAssumption
  <2>. QED
    BY <2>1 DEF ModalInit
<1>2. checks \in [Host -> SUBSET Check]
  BY HostAssumption DEF ModalInit
<1>3. saves \in [Saving -> Save] /\ form \in FormData
  BY DEF ModalInit, Save, NoSave, FormData, Empty
<1>4. MaxOpened \in Nat
  BY HostAssumption
<1>5. shown \in [show : BOOLEAN, edit : Host \cup {Nobody}]
  BY DEF ModalInit, Closed
<1>6. row \in [Host -> {"new", "there", "gone"}] /\ heard \in [Host -> Host \cup {Nobody}]
  BY DEF ModalInit
<1>7. form.ids \subseteq Check
  BY <1>3 DEF FormData
<1>8. /\ loading = {} /\ odd = {} /\ opened = 0 /\ hurried = FALSE /\ chosen = Nobody
      /\ \A s \in Saving : saves[s].pc = "none"
  BY DEF ModalInit, NoSave
<1>9. ModalTypeOK
  BY <1>1, <1>2, <1>4, <1>5, <1>6, <1>7, <1>8 DEF ModalTypeOK
<1>. QED
  BY <1>3, <1>8, <1>9 DEF ModalTyped

LEMMA ModalStepTyped == ModalTyped /\ [ModalNext]_modalVars => ModalTyped'
<1>. SUFFICES ASSUME ModalTyped, [ModalNext]_modalVars PROVE ModalTyped'
  OBVIOUS
<1>. USE DEF ModalTyped, ModalTypeOK
<1>a. MaxOpened \in Nat
  BY HostAssumption
<1>1. ASSUME NEW t \in Host, openForm(t)
      PROVE  ModalTyped'
  <2>1. [id |-> t, clone |-> FALSE] \in DetailRequest
    BY DEF DetailRequest
  <2>2. opened' \in 0 .. MaxOpened
    BY <1>1, <1>a DEF openForm, Show
  <2>3. hurried' \in BOOLEAN /\ shown' \in [show : BOOLEAN, edit : Host \cup {Nobody}]
    BY <1>1 DEF openForm, Show
  <2>. QED
    BY <1>1, <2>1, <2>2, <2>3 DEF openForm, Show, serverVars
<1>b. ASSUME NEW t \in Host, cloneTarget(t)
      PROVE  ModalTyped'
  <2>1. [id |-> t, clone |-> TRUE] \in DetailRequest
    BY DEF DetailRequest
  <2>2. opened' \in 0 .. MaxOpened
    BY <1>b, <1>a DEF cloneTarget, Show
  <2>3. hurried' \in BOOLEAN /\ shown' \in [show : BOOLEAN, edit : Host \cup {Nobody}]
    BY <1>b DEF cloneTarget, Show
  <2>. QED
    BY <1>b, <2>1, <2>2, <2>3 DEF cloneTarget, Show, serverVars
<1>c. ASSUME NEW t \in Host, OtherUpdates(t) \/ OtherDeletes(t)
      PROVE  ModalTyped'
  BY <1>c DEF OtherUpdates, OtherDeletes
<1>2. CASE openNew
  <2>1. opened' \in 0 .. MaxOpened
    BY <1>2, <1>a DEF openNew, Show
  <2>2. hurried' \in BOOLEAN /\ shown' \in [show : BOOLEAN, edit : Host \cup {Nobody}]
    BY <1>2 DEF openNew, Show
  <2>. QED
    BY <1>2, <2>1, <2>2 DEF openNew, Show, serverVars, Empty, FormData
<1>d. CASE close
  <2>1. shown' \in [show : BOOLEAN, edit : Host \cup {Nobody}]
    BY <1>d DEF close
  <2>. QED
    BY <1>d, <2>1 DEF close, serverVars
<1>3. CASE newCondition \/ dropCondition
  <2>1. form' \in FormData
    <3>1. [form EXCEPT !.fresh = TRUE] \in FormData
          /\ \A c \in form.ids : [form EXCEPT !.ids = @ \ {c}] \in FormData
      BY DEF FormData
    <3>. QED
      BY <1>3, <3>1 DEF newCondition, dropCondition, Edit
  <2>2. form'.ids \subseteq Check
    BY <2>1 DEF FormData
  <2>. QED
    BY <1>3, <2>1, <2>2 DEF newCondition, dropCondition, Edit, serverVars
<1>4. ASSUME NEW l \in DetailRequest, loadTargetDetail(l)
      PROVE  ModalTyped'
  <2>1. /\ [ids |-> checks[l.id], fresh |-> FALSE] \in FormData
        /\ \A f \in FormData : AsClone(f) \in FormData
        /\ l.id \in Host
    BY DEF AsClone, FormData, DetailRequest
  <2>2. form' \in FormData
    BY <1>4, <2>1 DEF loadTargetDetail
  <2>3. form'.ids \subseteq Check
    BY <2>2 DEF FormData
  <2>4. chosen' \in Host \cup {Nobody} /\ hurried' \in BOOLEAN
    BY <1>4, <2>1 DEF loadTargetDetail
  <2>. QED
    BY <1>4, <2>2, <2>3, <2>4 DEF loadTargetDetail, serverVars
<1>e. NoSave \in Save
  BY DEF NoSave, Save, Empty, FormData
<1>5. ASSUME NEW s \in Saving, saveTarget(s) \/ SaveFails(s)
      PROVE  ModalTyped'
  <2>1. [pc |-> "row", to |-> shown.edit, form |-> form, who |-> Nobody,
         tidy |-> ~hurried /\ loading = {}] \in Save
    BY DEF Save
  <2>2. saves' \in [Saving -> Save]
    BY <1>5, <1>e, <2>1 DEF saveTarget, SaveFails
  <2>3. \A q \in Saving : saves'[q].pc = "recipients" => saves'[q].to \in Host
    BY <1>5 DEF saveTarget, SaveFails, NoSave
  <2>. QED
    BY <1>5, <2>2, <2>3 DEF saveTarget, SaveFails, serverVars
<1>6. ASSUME NEW s \in Saving, handleUpdateTarget(s)
      PROVE  ModalTyped'
  <2>1. saves[s] \in Save /\ saves[s].to \in Host /\ saves[s].form \in FormData
    BY <1>6 DEF Save, handleUpdateTarget
  <2>2. checks' \in [Host -> SUBSET Check] /\ home' \in [Check -> Host \cup {Nobody}]
    BY <1>6, <2>1 DEF handleUpdateTarget, Write, Unused, FormData
  <2>3. Second(s, shown.edit) \in Save /\ NoSave \in Save
    BY <2>1 DEF Second, Save, NoSave, Empty, FormData
  <2>4. \A q \in Saving : saves'[q].pc = "recipients" => saves'[q].to \in Host
    BY <1>6, <2>1 DEF handleUpdateTarget, Second, NoSave
  <2>5. shown' \in [show : BOOLEAN, edit : Host \cup {Nobody}]
    BY <1>6 DEF handleUpdateTarget
  <2>. QED
    BY <1>6, <2>2, <2>3, <2>4, <2>5 DEF handleUpdateTarget
<1>7. ASSUME NEW s \in Saving, handleCreateTarget(s)
      PROVE  ModalTyped'
  <2>1. saves[s] \in Save /\ saves[s].form \in FormData
    BY DEF Save
  <2>2. PICK t \in Host : /\ row[t] = "new" /\ row' = [row EXCEPT ![t] = "there"]
                          /\ Write(t, AsClone(saves[s].form))
                          /\ saves' = [saves EXCEPT ![s] = Second(s, t)]
    BY <1>7 DEF handleCreateTarget
  <2>3. checks' \in [Host -> SUBSET Check] /\ home' \in [Check -> Host \cup {Nobody}]
    BY <2>1, <2>2 DEF Write, AsClone, Unused, FormData
  <2>4. Second(s, t) \in Save
    BY <2>1 DEF Second, Save, Empty, FormData
  <2>5. \A q \in Saving : saves'[q].pc = "recipients" => saves'[q].to \in Host
    BY <2>2 DEF Second
  <2>. QED
    BY <1>7, <2>2, <2>3, <2>4, <2>5 DEF handleCreateTarget
<1>8. ASSUME NEW s \in Saving, saveRecipients(s)
      PROVE  ModalTyped'
  <2>1. saves[s] \in Save /\ saves[s].to \in Host /\ saves[s].who \in Host \cup {Nobody}
    BY <1>8 DEF Save, saveRecipients
  <2>2. heard' \in [Host -> Host \cup {Nobody}] /\ odd' \subseteq Host
    BY <1>8, <2>1 DEF saveRecipients
  <2>3. shown' \in [show : BOOLEAN, edit : Host \cup {Nobody}]
    BY <1>8 DEF saveRecipients
  <2>4. \A q \in Saving : saves'[q].pc = "recipients" => saves'[q].to \in Host
    BY <1>8 DEF saveRecipients, NoSave
  <2>. QED
    BY <1>8, <1>e, <2>2, <2>3, <2>4 DEF saveRecipients
<1>9. CASE UNCHANGED modalVars
  BY <1>9 DEF modalVars, serverVars
<1>. QED
  BY <1>1, <1>b, <1>c, <1>2, <1>d, <1>3, <1>4, <1>5, <1>6, <1>7, <1>8, <1>9 DEF ModalNext

LEMMA ModalInitStays == ModalInit => ChecksStay
<1>. SUFFICES ASSUME ModalInit, NEW t \in Host, NEW c \in checks[t] PROVE home[c] = t
  BY DEF ChecksStay
<1>1. t \in DOMAIN FirstChecks /\ c \in FirstChecks[t] /\ c \in Check
  BY HostAssumption DEF ModalInit
<1>2. \A u \in DOMAIN FirstChecks : c \in FirstChecks[u] => u = t
  BY <1>1, HostAssumption
<1>3. home[c] = CHOOSE u \in DOMAIN FirstChecks : c \in FirstChecks[u]
  BY <1>1 DEF ModalInit
<1>. QED
  BY <1>1, <1>2, <1>3

\* A write with checks of the target itself, whatever new checks it makes.
LEMMA WriteStays ==
    ASSUME ModalTyped, ChecksStay, NEW t \in Host, NEW f \in FormData,
           f.ids \subseteq checks[t], Write(t, f)
    PROVE  ChecksStay'
<1>1. PICK new \in SUBSET Unused :
         /\ checks' = [checks EXCEPT ![t] = f.ids \cup new]
         /\ home' = [c \in Check |-> IF c \in new THEN t ELSE home[c]]
  BY DEF Write
<1>. QED
  BY <1>1, HostAssumption DEF ChecksStay, Unused, ModalTyped, ModalTypeOK, FormData

LEMMA ModalStepStays == ModalTyped /\ ChecksStay /\ [ModalNext]_modalVars => ChecksStay'
<1>. SUFFICES ASSUME ModalTyped, ChecksStay, [ModalNext]_modalVars PROVE ChecksStay'
  OBVIOUS
<1>1. ASSUME NEW s \in Saving, handleUpdateTarget(s)
      PROVE  ChecksStay'
  BY <1>1, WriteStays DEF handleUpdateTarget, Permitted, ModalTyped, Save
<1>2. ASSUME NEW s \in Saving, handleCreateTarget(s)
      PROVE  ChecksStay'
  <2>1. AsClone(saves[s].form) \in FormData /\ AsClone(saves[s].form).ids = {}
    BY DEF ModalTyped, Save, AsClone, FormData
  <2>. QED
    BY <1>2, <2>1, WriteStays DEF handleCreateTarget
<1>3. ASSUME NEW t \in Host, OtherUpdates(t) \/ OtherDeletes(t)
      PROVE  ChecksStay'
  BY <1>3 DEF OtherUpdates, OtherDeletes, ChecksStay, ModalTyped, ModalTypeOK
<1>4. CASE UNCHANGED <<checks, home>>
  BY <1>4 DEF ChecksStay
<1>. QED
  BY <1>1, <1>2, <1>3, <1>4 DEF ModalNext, modalVars, serverVars, openForm, cloneTarget, openNew,
     Show, close, newCondition, dropCondition, Edit, loadTargetDetail, saveTarget, SaveFails,
     saveRecipients

\* A check stays with the target it was created for: a save from a dialog that shows the
\* details of another target is refused, as UpdateTargetWithConditions takes only checks
\* of the target that is saved.
THEOREM ModalKeepsChecks == ModalSpec => []ChecksStay
BY ModalInitTyped, ModalStepTyped, ModalInitStays, ModalStepStays, PTL DEF ModalSpec

\* What a dialog that was opened with nothing on the way has, and what its saves carry.
Tidy(s) == saves[s].tidy /\ saves[s].pc # "none"
OwnRecipients ==
    /\ ~hurried /\ loading = {} => chosen \in {shown.edit, Nobody}
    /\ ~hurried => \A l \in loading :
          loading = {l} /\ (IF l.clone THEN shown.edit = Nobody ELSE l.id = shown.edit)
    /\ \A s \in Saving : Tidy(s) /\ saves[s].pc = "row" /\ ~hurried =>
          loading = {} /\ saves[s].to = shown.edit
    /\ \A s \in Saving : Tidy(s) /\ saves[s].pc = "recipients" => saves[s].who \in {saves[s].to, Nobody}
    /\ RecipientsStay

LEMMA ModalStepRecipients ==
    ModalTyped /\ OwnRecipients /\ [ModalNext]_modalVars => OwnRecipients'
<1>. SUFFICES ASSUME ModalTyped, OwnRecipients, [ModalNext]_modalVars PROVE OwnRecipients'
  OBVIOUS
<1>a. Nobody \notin Host
  BY HostAssumption
<1>1. ASSUME NEW t \in Host, openForm(t)
      PROVE  OwnRecipients'
  <2>1. ~hurried' => loading' # {} /\ \A l \in loading' : loading' = {l} /\ ~l.clone /\ l.id = t
    <3>1. PICK r : r = [id |-> t, clone |-> FALSE]
      OBVIOUS
    <3>2. ~r.clone /\ r.id = t
      BY <3>1
    <3>3. ~hurried' => loading' = {r}
      BY <1>1, <3>1 DEF openForm, Show
    <3>. QED
      BY <3>2, <3>3
  <2>2. ~hurried' => \A s \in Saving : saves'[s].pc = "none"
    BY <1>1 DEF openForm, Show, Saved
  <2>3. shown'.edit = t /\ UNCHANGED <<saves, heard, odd>>
    BY <1>1 DEF openForm, Show, serverVars
  <2>. QED
    BY <2>1, <2>2, <2>3 DEF OwnRecipients, Tidy, RecipientsStay
<1>2. ASSUME NEW t \in Host, cloneTarget(t)
      PROVE  OwnRecipients'
  <2>1. ~hurried' => loading' # {} /\ \A l \in loading' : loading' = {l} /\ l.clone
    <3>1. PICK r : r = [id |-> t, clone |-> TRUE]
      OBVIOUS
    <3>2. r.clone
      BY <3>1
    <3>3. ~hurried' => loading' = {r}
      BY <1>2, <3>1 DEF cloneTarget, Show
    <3>. QED
      BY <3>2, <3>3
  <2>2. ~hurried' => \A s \in Saving : saves'[s].pc = "none"
    BY <1>2 DEF cloneTarget, Show, Saved
  <2>3. shown'.edit = Nobody /\ UNCHANGED <<saves, heard, odd>>
    BY <1>2 DEF cloneTarget, Show, serverVars
  <2>. QED
    BY <2>1, <2>2, <2>3 DEF OwnRecipients, Tidy, RecipientsStay
<1>3. CASE openNew
  <2>1. ~hurried' => loading' = {} /\ \A s \in Saving : saves'[s].pc = "none"
    BY <1>3 DEF openNew, Show, Saved
  <2>2. shown'.edit = Nobody /\ chosen' = Nobody /\ UNCHANGED <<saves, heard, odd>>
    BY <1>3 DEF openNew, Show, serverVars
  <2>. QED
    BY <2>1, <2>2 DEF OwnRecipients, Tidy, RecipientsStay
<1>4. CASE close
  <2>1. shown'.edit = shown.edit
    BY <1>4 DEF close, ModalTyped, ModalTypeOK
  <2>. QED
    BY <1>4, <2>1 DEF close, serverVars, OwnRecipients, Tidy, RecipientsStay
<1>5. CASE newCondition \/ dropCondition
  BY <1>5 DEF newCondition, dropCondition, Edit, serverVars, OwnRecipients, Tidy, RecipientsStay
<1>6. ASSUME NEW l \in DetailRequest, loadTargetDetail(l)
      PROVE  OwnRecipients'
  <2>1. ~hurried' => loading' = {} /\ chosen' \in {shown.edit, Nobody}
    BY <1>6 DEF loadTargetDetail, OwnRecipients
  <2>2. UNCHANGED <<shown, saves, heard, odd>> /\ (~hurried' => ~hurried)
    BY <1>6 DEF loadTargetDetail, serverVars
  <2>. QED
    BY <2>1, <2>2 DEF OwnRecipients, Tidy, RecipientsStay
<1>7. ASSUME NEW s \in Saving, saveTarget(s)
      PROVE  OwnRecipients'
  <2>1. \A q \in Saving : q # s => saves'[q] = saves[q]
    BY <1>7 DEF saveTarget
  <2>2. /\ saves'[s].pc = "row" /\ saves'[s].to = shown.edit
        /\ saves'[s].tidy = (~hurried /\ loading = {})
    BY <1>7 DEF saveTarget, ModalTyped
  <2>3. UNCHANGED <<shown, loading, chosen, hurried, heard, odd>>
    BY <1>7 DEF saveTarget, serverVars
  <2>. QED
    BY <2>1, <2>2, <2>3 DEF OwnRecipients, Tidy, RecipientsStay
<1>8. ASSUME NEW s \in Saving, SaveFails(s)
      PROVE  OwnRecipients'
  <2>1. \A q \in Saving : q # s => saves'[q] = saves[q]
    BY <1>8 DEF SaveFails
  <2>2. saves'[s].pc = "none"
    BY <1>8 DEF SaveFails, NoSave, ModalTyped
  <2>3. UNCHANGED <<shown, loading, chosen, hurried, heard, odd>>
    BY <1>8 DEF SaveFails, serverVars
  <2>. QED
    BY <2>1, <2>2, <2>3 DEF OwnRecipients, Tidy, RecipientsStay
<1>9. ASSUME NEW s \in Saving, handleUpdateTarget(s)
      PROVE  OwnRecipients'
  <2>1. \A q \in Saving : q # s => saves'[q] = saves[q]
    BY <1>9 DEF handleUpdateTarget
  <2>2. \/ saves'[s].pc = "none"
        \/ /\ saves'[s].pc = "recipients" /\ saves'[s].to = shown.edit /\ saves'[s].who = chosen
           /\ saves'[s].tidy => saves[s].tidy /\ ~hurried
    BY <1>9 DEF handleUpdateTarget, Second, NoSave, ModalTyped
  <2>3. saves[s].tidy /\ ~hurried => loading = {}
    BY <1>9 DEF handleUpdateTarget, OwnRecipients, Tidy
  <2>4. shown'.edit = shown.edit /\ UNCHANGED <<loading, chosen, hurried, heard, odd>>
    BY <1>9 DEF handleUpdateTarget, ModalTyped, ModalTypeOK
  <2>. QED
    BY <2>1, <2>2, <2>3, <2>4 DEF OwnRecipients, Tidy, RecipientsStay
<1>10. ASSUME NEW s \in Saving, handleCreateTarget(s)
      PROVE  OwnRecipients'
  <2>1. \A q \in Saving : q # s => saves'[q] = saves[q]
    BY <1>10 DEF handleCreateTarget
  <2>2. /\ saves'[s].pc = "recipients" /\ saves'[s].who = chosen
        /\ saves'[s].tidy => saves[s].tidy /\ ~hurried
    <3>1. PICK t \in Host : saves' = [saves EXCEPT ![s] = Second(s, t)]
      BY <1>10 DEF handleCreateTarget
    <3>2. saves'[s] = Second(s, t)
      BY <3>1 DEF ModalTyped
    <3>3. saves'[s].tidy = (saves[s].tidy /\ ~hurried)
      BY <3>2 DEF Second
    <3>4. saves'[s].pc = "recipients" /\ saves'[s].who = chosen
      BY <3>2 DEF Second
    <3>. QED
      BY <3>3, <3>4
  <2>3. saves[s].tidy /\ ~hurried => chosen = Nobody
    BY <1>10 DEF handleCreateTarget, OwnRecipients, Tidy
  <2>4. UNCHANGED <<shown, loading, chosen, hurried, heard, odd>>
    BY <1>10 DEF handleCreateTarget
  <2>. QED
    BY <2>1, <2>2, <2>3, <2>4 DEF OwnRecipients, Tidy, RecipientsStay
<1>11. ASSUME NEW s \in Saving, saveRecipients(s)
      PROVE  OwnRecipients'
  <2>1. \A q \in Saving : q # s => saves'[q] = saves[q]
    BY <1>11 DEF saveRecipients
  <2>2. saves'[s].pc = "none"
    BY <1>11 DEF saveRecipients, NoSave, ModalTyped
  <2>3. shown'.edit = shown.edit /\ UNCHANGED <<loading, chosen, hurried>>
    BY <1>11 DEF saveRecipients, ModalTyped, ModalTypeOK
  <2>4. RecipientsStay'
    <3>1. saves[s].to \in Host /\ (saves[s].tidy => saves[s].who \in {saves[s].to, Nobody})
      BY <1>11 DEF saveRecipients, ModalTyped, OwnRecipients, Tidy
    <3>2. heard' = [heard EXCEPT ![saves[s].to] = saves[s].who] /\ heard \in [Host -> Host \cup {Nobody}]
      BY <1>11 DEF saveRecipients, ModalTyped, ModalTypeOK
    <3>3. odd' = IF saves[s].tidy THEN odd \ {saves[s].to} ELSE odd \cup {saves[s].to}
      BY <1>11 DEF saveRecipients
    <3>. QED
      BY <3>1, <3>2, <3>3 DEF RecipientsStay, OwnRecipients
  <2>. QED
    BY <2>1, <2>2, <2>3, <2>4 DEF OwnRecipients, Tidy
<1>12. ASSUME NEW t \in Host, OtherUpdates(t) \/ OtherDeletes(t)
      PROVE  OwnRecipients'
  BY <1>12 DEF OtherUpdates, OtherDeletes, OwnRecipients, Tidy, RecipientsStay
<1>13. CASE UNCHANGED modalVars
  BY <1>13 DEF modalVars, serverVars, OwnRecipients, Tidy, RecipientsStay
<1>. QED
  BY <1>1, <1>2, <1>3, <1>4, <1>5, <1>6, <1>7, <1>8, <1>9, <1>10, <1>11, <1>12, <1>13 DEF ModalNext

\* A target gets the recipients of another only by a save of a dialog that was opened over
\* requests still on the way, or whose own details did not come.
THEOREM ModalKeepsRecipients == ModalSpec => []RecipientsStay
<1>1. ModalInit => OwnRecipients
  BY DEF ModalInit, OwnRecipients, Tidy, NoSave, RecipientsStay
<1>2. OwnRecipients => RecipientsStay
  BY DEF OwnRecipients
<1>. QED
  BY <1>1, <1>2, ModalInitTyped, ModalStepTyped, ModalStepRecipients, PTL DEF ModalSpec

\* The types of the dialog.
THEOREM ModalTypes == ModalSpec => []ModalTypeOK
<1>1. ModalTyped => ModalTypeOK
  BY DEF ModalTyped
<1>. QED
  BY <1>1, ModalInitTyped, ModalStepTyped, PTL DEF ModalSpec
-----------------------------------------------------------------------------
(* The lists. *)

Listing == [version : Nat, present : SUBSET Row, halted : SUBSET Row]
Requests == [pc : {"none", "send", "load", "list", "run"},
             op : {"none", "delete", "pause", "unpause"}, on : Row \cup {Nothing},
             made : Nat, seen : Listing \cup {Nothing}, left : Nat]
Question == [op : {"delete", "pause", "unpause"}, on : Row]

ListTyped ==
    /\ view \in {"Targets", "Search"}
    /\ version \in Nat /\ present \subseteq Row /\ halted \subseteq Row
    /\ list \in Listing
    /\ dialog = Nothing \/ dialog \in Question
    /\ chain \in [Chain -> Requests]
    /\ own \in Nat
    /\ passed \in BOOLEAN /\ mingled \in BOOLEAN

\* The list, the reload on the way and what the page has done, unless answers passed.
Reloads ==
    /\ own <= version
    /\ \A c \in Reloading(chain) : chain[c].made <= version
    /\ \A c \in Chain : chain[c].pc = "list" => chain[c].seen \in Listing
    /\ ~passed =>
          /\ list.version >= own
          /\ \A c, d \in Reloading(chain) : c = d
          /\ \A c \in Chain : chain[c].pc = "list" =>
                chain[c].seen.version >= chain[c].made /\ chain[c].seen.version >= own

\* The details that are shown or on the way, unless those of two targets were.
Details ==
    /\ view = "Targets" => detail = Nothing
    /\ ~mingled => \A t, u \in asked : t = u
    /\ ~mingled /\ expanded # Nothing => detail \in {expanded, Nothing} /\ asked \subseteq {expanded}

ListInv == ListTyped /\ Reloads /\ Details

LEMMA NowListed == ListTyped => Now \in Listing
BY DEF ListTyped, Now, Listing

\* Every step on a chain writes a well-formed one.
LEMMA BecomeTyped ==
    ASSUME ListTyped, NEW c \in Chain, NEW new \in Requests, Become(c, new)
    PROVE  /\ chain' \in [Chain -> Requests] /\ chain'[c] = new
           /\ \A d \in Chain : d # c => chain'[d] = chain[d]
BY DEF ListTyped, Become

LEMMA FreeTyped ==
    /\ Free \in Requests /\ Free.pc = "none"
    /\ \A made \in Nat : LET r == [Free EXCEPT !.pc = "load", !.made = made]
                         IN r \in Requests /\ r.pc = "load" /\ r.made = made
BY DEF Free, Requests

\* Nothing that Reloads looks at changes but a chain that does not reload before or after.
LEMMA AsideReloads ==
    ASSUME ListTyped, Reloads, NEW c \in Chain, chain[c].pc \notin {"load", "list"},
           NEW new \in Requests, new.pc \notin {"load", "list"}, Become(c, new),
           UNCHANGED <<version, list, own, passed>>
    PROVE  Reloads'
<1>1. Reloading(chain') = Reloading(chain)
  BY BecomeTyped DEF Reloading
<1>2. \A d \in Reloading(chain) : d \in Chain /\ d # c
  BY DEF Reloading
<1>. QED
  BY <1>1, <1>2, BecomeTyped DEF Reloads

\* A change and its reload, which is the only one or passes another.
LEMMA ChangeReloads ==
    ASSUME ListTyped, Reloads, NEW c \in Chain, chain[c].pc \notin {"load", "list"},
           Reload(c, version + 1), version' = version + 1, UNCHANGED <<list, own>>
    PROVE  /\ chain' \in [Chain -> Requests] /\ passed' \in BOOLEAN
           /\ Reloads'
<1>1. PICK r \in Requests : r.pc = "load" /\ r.made = version + 1 /\ Become(c, r)
  <2>1. version + 1 \in Nat
    BY DEF ListTyped
  <2>. QED
    BY <2>1, FreeTyped DEF Reload
<1>2. /\ chain' \in [Chain -> Requests] /\ chain'[c] = r
      /\ \A d \in Chain : d # c => chain'[d] = chain[d]
  BY <1>1, BecomeTyped
<1>3. Reloading(chain') = Reloading(chain) \cup {c}
  BY <1>1, <1>2 DEF Reloading
<1>4. passed' = (passed \/ Reloading(chain) # {})
  BY DEF Reload
<1>5. Reloads'
  <2>1. own' <= version' /\ \A d \in Reloading(chain') : chain'[d].made <= version'
    <3>1. \A d \in Reloading(chain) : d \in Chain /\ chain[d].made \in Nat
      BY DEF Reloading, ListTyped, Requests
    <3>. QED
      BY <1>1, <1>2, <1>3, <3>1 DEF Reloads, ListTyped
  <2>2. ~passed' => ~passed /\ \A d \in Chain : chain'[d].pc = "list" => FALSE
    BY <1>1, <1>2, <1>3, <1>4 DEF Reloading
  <2>3. ~passed' => \A d, e \in Reloading(chain') : d = e
    BY <1>3, <1>4
  <2>4. \A d \in Chain : chain'[d].pc = "list" => chain'[d].seen \in Listing
    BY <1>1, <1>2 DEF Reloads
  <2>. QED
    BY <2>1, <2>2, <2>3, <2>4 DEF Reloads
<1>. QED
  BY <1>2, <1>4, <1>5 DEF ListTyped

LEMMA ListStep == ListInv /\ [ListNext]_listVars => ListInv'
<1>. SUFFICES ASSUME ListInv, [ListNext]_listVars PROVE ListInv'
  OBVIOUS
<1>. USE DEF ListInv
<1>f. Free \in Requests /\ Free.pc = "none"
  BY FreeTyped
<1>1. CASE OtherChanges
  <2>1. version' \in Nat /\ version' >= version /\ present' \subseteq Row /\ halted' \subseteq Row
    BY <1>1 DEF OtherChanges, ListTyped
  <2>2. UNCHANGED <<view, list, dialog, chain, own, detailVars, passed>>
    BY <1>1 DEF OtherChanges
  <2>3. ListTyped'
    BY <2>1, <2>2 DEF ListTyped, detailVars
  <2>4. Reloads'
    <3>1. \A d \in Reloading(chain) : d \in Chain /\ chain[d].made \in Nat
      BY DEF Reloading, ListTyped, Requests
    <3>. QED
      BY <2>1, <2>2, <3>1 DEF Reloads, ListTyped
  <2>. QED
    BY <2>2, <2>3, <2>4 DEF Details, detailVars
<1>2. CASE Cancel \/ \E t \in Row : deleteTarget(t) \/ pauseTarget(t) \/ unpauseTarget(t)
  <2>1. dialog' = Nothing \/ dialog' \in Question
    BY <1>2 DEF Cancel, deleteTarget, pauseTarget, unpauseTarget, Dialog, Question
  <2>2. UNCHANGED <<view, serverList, list, chain, own, detailVars, passed>>
    BY <1>2 DEF Cancel, deleteTarget, pauseTarget, unpauseTarget, Dialog
  <2>. QED
    BY <2>1, <2>2 DEF ListTyped, Reloads, Details, detailVars, serverList
<1>3. ASSUME NEW c \in Chain, confirmDelete(c) \/ confirmPause(c) \/ confirmUnpause(c)
      PROVE  ListInv'
  <2>1. PICK op \in {"delete", "pause", "unpause"} : Confirm(c, op)
    BY <1>3 DEF confirmDelete, confirmPause, confirmUnpause
  <2>2. dialog.on \in Row
    BY <2>1 DEF Confirm, ListTyped, Question
  <2>3. PICK r \in Requests : r.pc = "send" /\ Become(c, r)
    BY <2>1, <2>2 DEF Confirm, Free, Requests
  <2>4. chain[c].pc = "none" /\ UNCHANGED <<view, serverList, list, own, detailVars, passed>> /\ dialog' = Nothing
    BY <2>1, <1>f DEF Confirm
  <2>5. Reloads'
    BY <2>3, <2>4, AsideReloads DEF serverList
  <2>. QED
    BY <2>3, <2>4, <2>5, BecomeTyped DEF ListTyped, Details, detailVars, serverList
<1>4. ASSUME NEW c \in Chain, Changed(c)
      PROVE  ListInv'
  <2>1. chain[c].pc = "send" /\ Reload(c, version + 1) /\ version' = version + 1
        /\ UNCHANGED <<view, list, dialog, own, cached, asked, mingled>>
    BY <1>4 DEF Changed
  <2>2. /\ chain' \in [Chain -> Requests] /\ passed' \in BOOLEAN
        /\ Reloads'
    BY <2>1, ChangeReloads
  <2>3. present' \subseteq Row /\ halted' \subseteq Row
    BY <1>4 DEF Changed, Possible, ListTyped
  <2>4. \/ expanded' = expanded /\ detail' = detail
        \/ expanded' = Nothing /\ detail' = Nothing
    BY <1>4 DEF Changed
  <2>. QED
    BY <2>1, <2>2, <2>3, <2>4 DEF ListTyped, Details
<1>5. ASSUME NEW c \in Chain, onTargetSaved(c)
      PROVE  ListInv'
  <2>1. chain[c].pc = "none" /\ Reload(c, version + 1) /\ version' = version + 1
        /\ UNCHANGED <<view, present, halted, list, dialog, own, detailVars>>
    BY <1>5, <1>f DEF onTargetSaved
  <2>2. /\ chain' \in [Chain -> Requests] /\ passed' \in BOOLEAN
        /\ Reloads'
    BY <2>1, ChangeReloads
  <2>. QED
    BY <2>1, <2>2 DEF ListTyped, Details, detailVars
<1>6. ASSUME NEW c \in Chain, NotChanged(c) \/ RunOne(c) \/ RunDone(c)
      PROVE  ListInv'
  <2>1. PICK r \in Requests : r.pc \notin {"load", "list"} /\ Become(c, r)
    <3>1. RunOne(c) => [chain[c] EXCEPT !.left = @ - 1] \in Requests
                       /\ [chain[c] EXCEPT !.left = @ - 1].pc = "run"
      BY DEF RunOne, ListTyped, Requests
    <3>. QED
      BY <1>6, <1>f, <3>1 DEF NotChanged, RunOne, RunDone
  <2>2. /\ chain[c].pc \notin {"load", "list"}
        /\ UNCHANGED <<view, serverList, list, dialog, own, detailVars, passed>>
    BY <1>6 DEF NotChanged, RunOne, RunDone
  <2>3. Reloads'
    BY <2>1, <2>2, AsideReloads DEF serverList
  <2>. QED
    BY <2>1, <2>2, <2>3, BecomeTyped DEF ListTyped, Details, detailVars, serverList
<1>7. ASSUME NEW c \in Chain, ServeList(c)
      PROVE  ListInv'
  <2>1. PICK r \in Requests : r = [chain[c] EXCEPT !.pc = "list", !.seen = Now]
    BY NowListed DEF ListTyped, Requests
  <2>2. r.pc = "list" /\ r.seen = Now /\ r.made = chain[c].made
    BY <2>1 DEF ListTyped, Requests
  <2>3. /\ chain' \in [Chain -> Requests] /\ chain'[c] = r
        /\ \A d \in Chain : d # c => chain'[d] = chain[d]
    BY <1>7, <2>1, BecomeTyped DEF ServeList
  <2>4. chain[c].pc = "load" /\ UNCHANGED <<view, serverList, list, dialog, own, detailVars, passed>>
    BY <1>7 DEF ServeList
  <2>5. Reloading(chain') = Reloading(chain) /\ c \in Reloading(chain)
    BY <2>2, <2>3, <2>4 DEF Reloading
  <2>6. Now.version = version
    BY DEF Now
  <2>7. Reloads'
    <3>1. own' <= version' /\ \A d \in Reloading(chain') : chain'[d].made <= version'
      BY <2>2, <2>3, <2>4, <2>5 DEF Reloads, Reloading, serverList
    <3>2. ~passed => \A d \in Chain : chain'[d].pc = "list" => d = c
      BY <2>3, <2>5 DEF Reloads, Reloading
    <3>3. version >= chain[c].made /\ version >= own
      BY <2>5 DEF Reloads, ListTyped, Requests
    <3>. QED
      BY <3>1, <3>2, <3>3, <2>2, <2>3, <2>4, <2>5, <2>6, NowListed DEF Reloads, serverList
  <2>. QED
    BY <2>3, <2>4, <2>7 DEF ListTyped, Details, detailVars, serverList
<1>8. ASSUME NEW c \in Chain, loadTargets(c)
      PROVE  ListInv'
  <2>1. /\ chain' \in [Chain -> Requests] /\ chain'[c] = Free
        /\ \A d \in Chain : d # c => chain'[d] = chain[d]
    BY <1>8, <1>f, BecomeTyped DEF loadTargets
  <2>2. /\ chain[c].pc = "list" /\ list' = chain[c].seen
        /\ own' = IF chain[c].made > own THEN chain[c].made ELSE own
        /\ UNCHANGED <<view, serverList, dialog, detailVars, passed>>
    BY <1>8 DEF loadTargets
  <2>3. Reloading(chain') = Reloading(chain) \ {c} /\ c \in Reloading(chain)
    BY <1>f, <2>1, <2>2 DEF Reloading
  <2>4. list' \in Listing /\ own' \in Nat /\ own' <= version /\ chain[c].made \in Nat
    BY <2>2, <2>3 DEF Reloads, ListTyped, Requests
  <2>5. Reloads'
    <3>1. \A d \in Reloading(chain') : chain'[d] = chain[d] /\ d \in Reloading(chain)
      BY <2>1, <2>3 DEF Reloading
    <3>2. \A d \in Chain : chain'[d].pc = "list" => d # c /\ chain'[d].seen \in Listing
      BY <1>f, <2>1 DEF Reloads
    <3>3. ~passed' => list'.version >= own'
      BY <2>2, <2>4 DEF Reloads, ListTyped
    <3>4. ~passed' => \A d \in Chain : chain'[d].pc = "list" => FALSE
      BY <1>f, <2>1, <2>2, <2>3 DEF Reloads, Reloading
    <3>. QED
      BY <2>2, <2>3, <2>4, <3>1, <3>2, <3>3, <3>4 DEF Reloads, serverList
  <2>. QED
    BY <2>1, <2>2, <2>4, <2>5 DEF ListTyped, Details, detailVars, serverList
<1>9. ASSUME NEW c \in Chain, loadFails(c)
      PROVE  ListInv'
  <2>1. /\ chain' \in [Chain -> Requests] /\ chain'[c] = Free
        /\ \A d \in Chain : d # c => chain'[d] = chain[d]
    BY <1>9, <1>f, BecomeTyped DEF loadFails
  <2>2. /\ chain[c].pc \in {"load", "list"} /\ passed' = TRUE
        /\ own' = IF chain[c].made > own THEN chain[c].made ELSE own
        /\ UNCHANGED <<view, serverList, list, dialog, detailVars>>
    BY <1>9 DEF loadFails
  <2>3. Reloading(chain') = Reloading(chain) \ {c} /\ c \in Reloading(chain)
    BY <1>f, <2>1, <2>2 DEF Reloading
  <2>4. own' \in Nat /\ own' <= version
    BY <2>2, <2>3 DEF Reloads, ListTyped, Requests
  <2>5. Reloads'
    <3>1. \A d \in Reloading(chain') : chain'[d] = chain[d] /\ d \in Reloading(chain)
      BY <2>1, <2>3 DEF Reloading
    <3>2. \A d \in Chain : chain'[d].pc = "list" => d # c /\ chain'[d].seen \in Listing
      BY <1>f, <2>1 DEF Reloads
    <3>. QED
      BY <2>2, <2>3, <2>4, <3>1, <3>2 DEF Reloads, serverList
  <2>. QED
    BY <2>1, <2>2, <2>4, <2>5 DEF ListTyped, Details, detailVars, serverList
<1>10. ASSUME NEW t \in Row, toggleTarget(t) \/ toggleExpand(t)
      PROVE  ListInv'
  <2>1. UNCHANGED <<view, serverList, list, dialog, chain, own, cached, passed>> /\ Toggle(t)
    BY <1>10 DEF toggleTarget, toggleExpand, Toggle
  <2>2. \/ view = "Targets" /\ detail' = detail
        \/ view = "Search" /\ detail' = Nothing
    BY <1>10 DEF toggleTarget, toggleExpand
  <2>3. \/ expanded' = Nothing /\ UNCHANGED <<asked, mingled>>
        \/ expanded' = t /\ Ask(t)
    BY <2>1 DEF Toggle
  <2>4. mingled' \in BOOLEAN
    BY <2>3 DEF Ask, ListTyped
  <2>5. Details'
    BY <2>1, <2>2, <2>3 DEF Details, Ask
  <2>. QED
    BY <2>1, <2>4, <2>5 DEF ListTyped, Reloads, serverList
<1>11. ASSUME NEW t \in Row, DetailArrives(t)
      PROVE  ListInv'
  <2>1. UNCHANGED <<view, serverList, list, dialog, chain, own, expanded, mingled, passed>>
        /\ t \in asked /\ asked' \subseteq asked /\ detail' \in {detail, t}
        /\ (view = "Targets" => detail' = detail)
    BY <1>11 DEF DetailArrives
  <2>. QED
    BY <2>1 DEF ListTyped, Reloads, Details, serverList
<1>12. ASSUME NEW c \in Chain, NEW t \in Row, runAllChecks(c, t)
      PROVE  ListInv'
  <2>1. PICK r \in Requests : r.pc = "run" /\ Become(c, r)
    BY <1>12, ChecksEachAssumption DEF runAllChecks, Free, Requests
  <2>2. /\ chain[c].pc = "none"
        /\ UNCHANGED <<view, serverList, list, dialog, own, expanded, detail, asked, mingled, passed>>
    BY <1>12, <1>f DEF runAllChecks
  <2>3. Reloads'
    BY <2>1, <2>2, AsideReloads DEF serverList
  <2>. QED
    BY <2>1, <2>2, <2>3, BecomeTyped DEF ListTyped, Details, serverList
<1>13. CASE UNCHANGED listVars
  BY <1>13 DEF listVars, detailVars, serverList, ListTyped, Reloads, Details
<1>. QED
  BY <1>1, <1>2, <1>3, <1>4, <1>5, <1>6, <1>7, <1>8, <1>9, <1>10, <1>11, <1>12, <1>13 DEF ListNext

\* What a list shows is not older than what its user has done on the page, and the details
\* under a target are its own, unless two answers were on the way at once or one failed,
\* for any number of targets and chains of requests.
THEOREM ScreenStaysCurrent == ListSpec => []ScreenIsCurrent
<1>1. ListInit => ListInv
  <2>. SUFFICES ASSUME ListInit PROVE ListInv
    OBVIOUS
  <2>1. Now \in Listing /\ Now.version = 0
    BY DEF ListInit, Now, Listing
  <2>2. chain \in [Chain -> Requests] /\ \A c \in Chain : chain[c].pc = "none"
    BY FreeTyped DEF ListInit
  <2>3. Reloading(chain) = {}
    BY <2>2 DEF Reloading
  <2>4. list \in Listing /\ list.version = 0
    BY <2>1 DEF ListInit
  <2>5. ListTyped
    BY <2>2, <2>4 DEF ListInit, ListTyped
  <2>6. Reloads
    BY <2>2, <2>3, <2>4 DEF ListInit, Reloads
  <2>. QED
    BY <2>5, <2>6 DEF ListInit, ListInv, Details
<1>2. ListInv => ScreenIsCurrent
  BY DEF ListInv, Reloads, Details, ListTyped, ScreenIsCurrent, Under
<1>. QED
  BY <1>1, <1>2, ListStep, PTL DEF ListSpec
-----------------------------------------------------------------------------
(* The conditions in the dialog. *)

Configs == {getDefaultConfig(type) : type \in AllTypes}
Condition == [stored : BOOLEAN, type : AllTypes, config : Configs, interval : Nat \ {0},
              count : Nat, window : Nat, group : Nat, operator : {"AND", "OR"}]

FormTyped ==
    /\ conditions \in Seq(Condition)
    /\ \A i \in Positions : conditions[i].config = getDefaultConfig(conditions[i].type)

FormInv == FormTyped /\ GroupsAgree

LEMMA ConfigTyped == \A type \in AllTypes : getDefaultConfig(type) \in Configs
BY DEF Configs

LEMMA DefaultTyped ==
    ASSUME NEW g \in Nat, NEW operator \in {"AND", "OR"}
    PROVE  LET c == getDefaultCondition(g, operator)
           IN /\ c \in Condition /\ c.config = getDefaultConfig(c.type)
              /\ c.group = g /\ c.operator = operator
BY FormAssumption, ConfigTyped DEF getDefaultCondition, Condition

\* The least window is a number, and grows with both values it is made of.
LEMMA LeastTyped ==
    ASSUME NEW count \in Nat, NEW interval \in Nat
    PROVE  count * interval \in Nat
BY SMT

LEMMA ProductGrows ==
    ASSUME NEW a \in Nat, NEW b \in Nat, NEW c \in Nat, NEW d \in Nat, a <= c, b <= d
    PROVE  a * b <= c * d
<1>1. a * b <= a * d
  <2>1. PICK e \in Nat : d = b + e
    BY SMT
  <2>2. a * d = a * b + a * e /\ a * e \in Nat /\ a * b \in Nat
    BY <2>1, SMT
  <2>. QED
    BY <2>2, SMT
<1>2. a * d <= c * d
  <2>1. PICK e \in Nat : c = a + e
    BY SMT
  <2>2. c * d = a * d + e * d /\ e * d \in Nat /\ a * d \in Nat
    BY <2>1, SMT
  <2>. QED
    BY <2>2, SMT
<1>3. a * b \in Nat /\ a * d \in Nat /\ c * d \in Nat
  BY SMT
<1>. QED
  BY <1>1, <1>2, <1>3, SMT

LEMMA AcceptTyped ==
    ASSUME NEW c \in Condition
    PROVE  /\ Accept(c) \in Condition
           /\ Accept(c).type = c.type /\ Accept(c).config = c.config
           /\ Accept(c).group = c.group /\ Accept(c).operator = c.operator
<1>1. PICK interval \in Nat \ {0} : interval = Smallest(c.interval, MaxInterval)
  BY FormAssumption DEF Condition, Smallest
<1>2. PICK count \in Nat : count = Smallest(c.count, MaxCount)
  BY FormAssumption DEF Condition, Smallest
<1>3. PICK limited \in Condition :
         limited = [c EXCEPT !.interval = Smallest(@, MaxInterval), !.count = Smallest(@, MaxCount)]
  BY <1>1, <1>2 DEF Condition
<1>4. /\ limited.type = c.type /\ limited.config = c.config /\ limited.group = c.group
      /\ limited.operator = c.operator /\ limited.interval \in Nat /\ limited.count \in Nat
      /\ limited.window \in Nat
  BY <1>3 DEF Condition
<1>5. PICK window \in Nat :
         window = IF limited.window < Least(limited) THEN Least(limited) ELSE limited.window
  BY <1>4, LeastTyped DEF Least
<1>6. PICK w \in Nat : w = IF limited.count <= 1 THEN limited.window ELSE Smallest(window, LongestWindow)
  BY <1>4, <1>5, FormAssumption DEF Smallest
<1>7. Accept(c) = [limited EXCEPT !.stored = TRUE, !.window = w]
  BY <1>3, <1>5, <1>6 DEF Accept
<1>. QED
  BY <1>4, <1>6, <1>7 DEF Condition

\* What a step on one condition may change.
LEMMA ChangeKeeps ==
    ASSUME FormInv, NEW i \in Positions, NEW c \in Condition,
           c.config = getDefaultConfig(c.type), Change(i, c),
           c.group = conditions[i].group, c.operator = conditions[i].operator
    PROVE  FormInv'
<1>1. /\ conditions' \in Seq(Condition) /\ Positions' = Positions
      /\ conditions'[i] = c /\ \A j \in Positions : j # i => conditions'[j] = conditions[j]
  BY DEF Change, FormInv, FormTyped, Positions
<1>. QED
  BY <1>1 DEF FormInv, FormTyped, GroupsAgree

\* The conditions at some of the positions, in whatever order, each as it was or accepted.
LEMMA PlacesKeep ==
    ASSUME FormInv, NEW n \in Nat, NEW place \in [1 .. n -> Positions],
           \/ conditions' = [i \in 1 .. n |-> conditions[place[i]]]
           \/ conditions' = [i \in 1 .. n |-> Accept(conditions[place[i]])]
    PROVE  FormInv'
<1>1. \A i \in 1 .. n : place[i] \in Positions /\ conditions[place[i]] \in Condition
  BY DEF FormInv, FormTyped, Positions
<1>2. Positions' = 1 .. n
  BY DEF Positions
<1>3. \A i \in 1 .. n :
         /\ conditions'[i] \in Condition
         /\ conditions'[i].type = conditions[place[i]].type
         /\ conditions'[i].config = conditions[place[i]].config
         /\ conditions'[i].group = conditions[place[i]].group
         /\ conditions'[i].operator = conditions[place[i]].operator
  BY <1>1, AcceptTyped
<1>4. conditions' \in Seq(Condition)
  <2>1. conditions' = [i \in 1 .. n |-> conditions'[i]]
    OBVIOUS
  <2>. QED
    BY <1>3, <2>1
<1>. QED
  BY <1>1, <1>2, <1>3, <1>4 DEF FormInv, FormTyped, GroupsAgree

LEMMA KeepKeeps ==
    ASSUME FormInv, NEW kept \in SUBSET Positions, Keep(kept)
    PROVE  FormInv'
<1>1. Cardinality(kept) \in Nat
  <2>1. Len(conditions) \in Nat /\ Positions = 1 .. Len(conditions)
    BY DEF FormInv, FormTyped, Positions
  <2>2. IsFiniteSet(Positions)
    BY <2>1, FS_Interval
  <2>3. IsFiniteSet(kept)
    BY <2>2, FS_Subset
  <2>. QED
    BY <2>3, FS_CardinalityType
<1>2. PICK place \in [1 .. Cardinality(kept) -> kept] :
         conditions' = [i \in 1 .. Cardinality(kept) |-> conditions[place[i]]]
  BY DEF Keep
<1>. QED
  BY <1>1, <1>2, PlacesKeep

LEMMA GrowKeeps ==
    ASSUME FormInv, NEW g \in Nat, NEW operator \in {"AND", "OR"},
           Grow(getDefaultCondition(g, operator)),
           \A i \in InGroup(g) : conditions[i].operator = operator
    PROVE  FormInv'
<1>1. PICK c \in Condition : /\ c = getDefaultCondition(g, operator)
                             /\ c.config = getDefaultConfig(c.type)
                             /\ c.group = g /\ c.operator = operator
  BY DefaultTyped
<1>2. conditions' = Append(conditions, c)
  BY <1>1 DEF Grow
<1>3. /\ conditions' \in Seq(Condition) /\ Positions' = Positions \cup {Len(conditions) + 1}
      /\ conditions'[Len(conditions) + 1] = c
      /\ \A i \in Positions : conditions'[i] = conditions[i] /\ i # Len(conditions) + 1
  BY <1>2 DEF FormInv, FormTyped, Positions
<1>4. FormTyped'
  BY <1>1, <1>3 DEF FormInv, FormTyped
<1>5. \A i \in Positions : conditions[i].group = g => conditions[i].operator = operator
  BY DEF InGroup
<1>. QED
  BY <1>1, <1>3, <1>4, <1>5 DEF FormInv, GroupsAgree

LEMMA FormStep == FormInv /\ [FormNext]_conditions => FormInv'
<1>. SUFFICES ASSUME FormInv, [FormNext]_conditions PROVE FormInv'
  OBVIOUS
<1>a. \A i \in Positions : conditions[i] \in Condition
                           /\ conditions[i].config = getDefaultConfig(conditions[i].type)
  BY DEF FormInv, FormTyped, Positions
<1>b. \A i \in Positions : conditions[i].group \in Nat
  BY <1>a DEF Condition
<1>1. CASE addGroup
  <2>1. PICK group \in 0 .. MaxGroup : /\ \A g \in Groups : g < group
                                       /\ Grow(getDefaultCondition(group, "AND"))
    BY <1>1 DEF addGroup
  <2>2. group \in Nat /\ InGroup(group) = {}
    BY <1>b, <2>1 DEF Groups, InGroup
  <2>. QED
    BY <2>1, <2>2, GrowKeeps
<1>2. ASSUME NEW g \in Groups, addConditionToGroup(g)
      PROVE  FormInv'
  <2>1. PICK first \in InGroup(g) : Grow(getDefaultCondition(g, conditions[first].operator))
    BY <1>2 DEF addConditionToGroup
  <2>2. g \in Nat /\ conditions[first].operator \in {"AND", "OR"}
    BY <1>a, <2>1 DEF InGroup, Condition
  <2>3. \A i \in InGroup(g) : conditions[i].operator = conditions[first].operator
    BY DEF InGroup, FormInv, GroupsAgree
  <2>. QED
    BY <2>1, <2>2, <2>3, GrowKeeps
<1>3. ASSUME NEW g \in Groups, removeGroup(g)
      PROVE  FormInv'
  BY <1>3, KeepKeeps DEF removeGroup
<1>4. ASSUME NEW i \in Positions, removeCondition(i)
      PROVE  FormInv'
  BY <1>4, KeepKeeps DEF removeCondition
<1>5. CASE SaveAndReopen
  <2>1. Len(conditions) \in Nat /\ Positions = 1 .. Len(conditions)
    BY DEF FormInv, FormTyped, Positions
  <2>2. PICK place \in [Positions -> Positions] :
           conditions' = [i \in Positions |-> Accept(conditions[place[i]])]
    BY <1>5 DEF SaveAndReopen
  <2>. QED
    BY <2>1, <2>2, PlacesKeep
<1>6. ASSUME NEW g \in Groups, NEW operator \in {"AND", "OR"}, setGroupOperator(g, operator)
      PROVE  FormInv'
  <2>1. \A i \in Positions : /\ conditions'[i] \in Condition
                             /\ conditions'[i].type = conditions[i].type
                             /\ conditions'[i].config = conditions[i].config
                             /\ conditions'[i].group = conditions[i].group
                             /\ conditions'[i].operator =
                                  IF conditions[i].group = g THEN operator ELSE conditions[i].operator
    BY <1>6, <1>a DEF setGroupOperator, Condition
  <2>. QED
    BY <2>1, <1>6 DEF setGroupOperator, FormInv, FormTyped, GroupsAgree, Positions
<1>7. CASE CloneOpens
  <2>1. \A i \in Positions : /\ conditions'[i] \in Condition
                             /\ conditions'[i].type = conditions[i].type
                             /\ conditions'[i].config = conditions[i].config
                             /\ conditions'[i].group = conditions[i].group
                             /\ conditions'[i].operator = conditions[i].operator
    BY <1>7, <1>a DEF CloneOpens, Condition
  <2>2. Positions' = Positions /\ conditions' \in Seq(Condition)
    <3>1. /\ Len(conditions) \in Nat /\ Positions = 1 .. Len(conditions)
          /\ conditions' = [i \in 1 .. Len(conditions) |-> conditions'[i]]
      BY <1>7 DEF CloneOpens, FormInv, FormTyped, Positions
    <3>2. DOMAIN conditions' = 1 .. Len(conditions)
      BY <3>1
    <3>. QED
      BY <2>1, <3>1, <3>2 DEF Positions
  <2>. QED
    BY <2>1, <2>2 DEF FormInv, FormTyped, GroupsAgree
<1>8. ASSUME NEW i \in Positions, NEW n \in Counts, onFailCountChange(i, n)
      PROVE  FormInv'
  <2>1. n \in Nat
    BY FormAssumption
  <2>4. PICK c \in Condition : c = [conditions[i] EXCEPT !.count = n]
    BY <1>a, <2>1 DEF Condition
  <2>2. /\ c = [conditions[i] EXCEPT !.count = n]
        /\ c.type = conditions[i].type /\ c.config = conditions[i].config
        /\ c.group = conditions[i].group /\ c.operator = conditions[i].operator
    BY <1>a, <2>4 DEF Condition
  <2>3. PICK w \in Nat : [c EXCEPT !.window = w] =
           IF n <= 1 THEN [c EXCEPT !.window = 0]
           ELSE [c EXCEPT !.window = IF @ < Least(c) THEN Least(c) ELSE @]
    BY LeastTyped DEF Least, Condition
  <2>. QED
    BY <1>8, <1>a, <2>2, <2>3, ChangeKeeps DEF onFailCountChange, Condition
<1>9. ASSUME NEW i \in Positions, NEW s \in Intervals, onIntervalChange(i, s)
      PROVE  FormInv'
  <2>1. s \in Nat \ {0}
    BY FormAssumption
  <2>4. PICK c \in Condition : c = [conditions[i] EXCEPT !.interval = s]
    BY <1>a, <2>1 DEF Condition
  <2>2. /\ c = [conditions[i] EXCEPT !.interval = s]
        /\ c.type = conditions[i].type /\ c.config = conditions[i].config
        /\ c.group = conditions[i].group /\ c.operator = conditions[i].operator
    BY <1>a, <2>4 DEF Condition
  <2>3. Least(c) \in Nat
    BY LeastTyped DEF Least, Condition
  <2>. QED
    BY <1>9, <1>a, <2>2, <2>3, ChangeKeeps DEF onIntervalChange, Condition
<1>10. ASSUME NEW i \in Positions, NEW w \in Windows, typeWindow(i, w)
       PROVE  FormInv'
  <2>1. w \in Nat
    BY FormAssumption
  <2>. QED
    BY <1>10, <1>a, <2>1, ChangeKeeps DEF typeWindow, Condition
<1>11. ASSUME NEW i \in Positions, NEW type \in Type, onConditionTypeChange(i, type)
       PROVE  FormInv'
  <2>1. type \in AllTypes /\ getDefaultConfig(type) \in Configs
    BY FormAssumption, ConfigTyped
  <2>. QED
    BY <1>11, <1>a, <2>1, ChangeKeeps DEF onConditionTypeChange, Condition
<1>12. CASE UNCHANGED conditions
  BY <1>12 DEF FormInv, FormTyped, GroupsAgree, Positions
<1>. QED
  BY <1>1, <1>2, <1>3, <1>4, <1>5, <1>6, <1>7, <1>8, <1>9, <1>10, <1>11, <1>12 DEF FormNext

\* The limits of the server leave alone what the browser has let through.
LEMMA AcceptsValid == ASSUME NEW c \in Condition, Valid(c) PROVE Accept(c).window = c.window
<1>1. c.interval \in Nat /\ c.count \in Nat /\ c.window \in Nat
  BY DEF Condition
<1>2. PICK i \in Nat : i = Smallest(c.interval, MaxInterval) /\ i <= c.interval
  BY <1>1, FormAssumption DEF Smallest
<1>3. PICK n \in Nat : n = Smallest(c.count, MaxCount) /\ n <= c.count
  BY <1>1, FormAssumption DEF Smallest
<1>4. PICK limited : limited = [c EXCEPT !.interval = Smallest(@, MaxInterval), !.count = Smallest(@, MaxCount)]
  OBVIOUS
<1>5. limited.interval = i /\ limited.count = n /\ limited.window = c.window
      /\ [limited EXCEPT !.stored = TRUE, !.window = c.window].window = c.window
  BY <1>2, <1>3, <1>4 DEF Condition
<1>6. CASE n <= 1
  <2>1. Accept(c) = [limited EXCEPT !.stored = TRUE, !.window = limited.window]
    BY <1>4, <1>5, <1>6 DEF Accept
  <2>. QED
    BY <1>5, <2>1
<1>7. CASE ~(n <= 1)
  <2>1. Least(limited) <= c.window /\ Least(limited) \in Nat
    <3>1. Least(c) <= c.window /\ Least(c) \in Nat
      BY <1>1, <1>3, <1>7, LeastTyped DEF Valid, Least
    <3>2. Least(limited) <= Least(c) /\ Least(limited) \in Nat
      BY <1>1, <1>2, <1>3, <1>5, ProductGrows, LeastTyped DEF Least
    <3>. QED
      BY <1>1, <3>1, <3>2
  <2>2. Smallest(c.window, LongestWindow) = c.window
    BY <1>1, <1>3, <1>7 DEF Valid, Smallest
  <2>3. Accept(c) = [limited EXCEPT !.stored = TRUE, !.window = c.window]
    <3>1. (IF limited.window < Least(limited) THEN Least(limited) ELSE limited.window) = c.window
      BY <1>1, <1>5, <2>1
    <3>. QED
      BY <1>4, <1>5, <1>7, <2>2, <3>1 DEF Accept
  <2>. QED
    BY <1>5, <2>3
<1>. QED
  BY <1>6, <1>7

LEMMA FieldsOfDefault == \A type \in AllTypes : Fields(type) \subseteq getDefaultConfig(type)
BY DEF AllTypes, Fields, getDefaultConfig

LEMMA FormInitial == FormInit => FormInv
BY DEF FormInit, FormInv, FormTyped, GroupsAgree, Positions

\* However groups are added, emptied and taken up again, the conditions of a group have one
\* operator, for any bounds of the form.
THEOREM GroupsKeepAgreeing == FormSpec => []GroupsAgree
<1>1. FormInv => GroupsAgree
  BY DEF FormInv
<1>. QED
  BY <1>1, FormInitial, FormStep, PTL DEF FormSpec

\* The window in a form the browser lets through is the one that is stored, for any limits
\* of the server, and every field shown stands for a key of the configuration.
THEOREM StoredStaysAsShown == FormSpec => []StoredAsShown
<1>1. ASSUME FormInv PROVE StoredAsShown
  <2>1. \A i \in Positions : conditions[i] \in Condition
                             /\ conditions[i].config = getDefaultConfig(conditions[i].type)
    BY <1>1 DEF FormInv, FormTyped, Positions
  <2>2. \A i \in Positions : conditions[i].type \in AllTypes
    BY <2>1 DEF Condition
  <2>. QED
    BY <2>1, <2>2, AcceptsValid, FieldsOfDefault DEF StoredAsShown
<1>. QED
  BY <1>1, FormInitial, FormStep, PTL DEF FormSpec
===============================================================================
