-------------------------------- MODULE Alerter --------------------------------
(***************************************************************************)
(* The alerter: Dispatch, which the engine calls for every transition of a *)
(* rule, and CheckRealerts, which runs every minute.                       *)
(*                                                                         *)
(* The engine is the abstract feed of module RuleAlerts, which module      *)
(* RuleEngine implements: each announcement starts a Dispatch in a place   *)
(* of alertSem.  Dispatch calls are not ordered with one another, nor with *)
(* CheckRealerts: two may be at work for one rule, each between its look   *)
(* at the alert history and the rows it adds to it.                        *)
(*                                                                         *)
(* The alert history of a rule is abstracted to the ages of its newest     *)
(* rows, in ticks, up to the age from which they are old enough for the    *)
(* code.  A destination is a recipient or the webhook; a notification that *)
(* is sent may still fail to arrive, and the code logs it all the same.    *)
(***************************************************************************)
EXTENDS Naturals

CONSTANTS
    Rule,        \* rules, one per target
    User,        \* users who may be recipients
    Addressed,   \* those with an address for the personal channel in use
    Slot,        \* the places of alertSem
    Scanner,     \* the goroutine that calls CheckRealerts
    Webhook,     \* the webhook as a destination
    None,        \* no rule
    Never,       \* the age of a row that does not exist
    Cooldown,    \* alert_cooldown_s; 0 in the settings means the default
    Realert,     \* alert_realert_s; 0 in the settings turns CheckRealerts off
    MaxEdits,    \* changes of recipients, channels and pauses, at most (bound)
    MaxFaults    \* failed queries, at most (bound)

ASSUME AlerterAssumption ==
    /\ Cooldown \in Nat \ {0} /\ Realert \in Nat \ {0}
    /\ Addressed \subseteq User
    /\ Scanner \notin Slot /\ Webhook \notin User
    /\ None \notin Rule /\ Never \notin Nat
    /\ MaxEdits \in Nat /\ MaxFaults \in Nat

Sender == Slot \cup {Scanner}
Destination == User \cup {Webhook}
Channel == {"personal", "webhook"}
Kind == {"firing", "recovery", "re-alert"}
Step == {"idle", "lookup", "scan", "recipients", "deliver", "log"}

VARIABLES
    alive, status, told,   \* the feed: see RuleAlerts
    paused,        \* rules whose target is paused
    recipients,    \* the active recipients of each rule's target
    channels,      \* the channels the settings enable
    edits,         \* changes made to these three so far
    transitionAge, \* age of the newest firing or recovery row; no row counts as old
    problemAge,    \* age of the newest firing or re-alert row, or Never
    faults,        \* failed queries so far
    step,          \* where each sender is
    about,         \* the rule it is working on
    kind,          \* the alert type it will log
    ways,          \* the channels it has read from the settings
    due,           \* the destinations it has not served yet
    pending,       \* the rest of the firing rules CheckRealerts has read
    sentAge        \* history: time since a transition notification was sent

feedVars   == <<alive, status, told>>
configVars == <<paused, recipients, channels, edits>>
ageVars    == <<transitionAge, problemAge>>
workVars   == <<step, about, kind, ways, due, pending>>
vars == <<feedVars, configVars, ageVars, faults, workVars, sentAge>>

Feed == INSTANCE RuleAlerts

TypeOK ==
    /\ alive \in SUBSET Rule
    /\ status \in [Rule -> Feed!Status] /\ told \in [Rule -> Feed!Status]
    /\ paused \in SUBSET Rule
    /\ recipients \in [Rule -> SUBSET User]
    /\ channels \in SUBSET Channel
    /\ edits \in 0 .. MaxEdits
    /\ transitionAge \in [Rule -> 0 .. Cooldown]
    /\ problemAge \in [Rule -> 0 .. Realert \cup {Never}]
    /\ faults \in 0 .. MaxFaults
    /\ step \in [Sender -> Step]
    /\ about \in [Sender -> Rule \cup {None}]
    /\ kind \in [Sender -> Kind]
    /\ ways \in [Sender -> SUBSET Channel]
    /\ due \in [Sender -> SUBSET Destination]
    /\ pending \in SUBSET Rule
    /\ sentAge \in [Rule -> 0 .. Cooldown]

Init ==
    /\ Feed!Init
    /\ paused = {}
    /\ recipients \in [Rule -> SUBSET User]
    /\ channels \in SUBSET Channel
    /\ edits = 0
    /\ transitionAge = [r \in Rule |-> Cooldown]
    /\ problemAge = [r \in Rule |-> Never]
    /\ faults = 0
    /\ step = [w \in Sender |-> "idle"]
    /\ about = [w \in Sender |-> None]
    /\ kind = [w \in Sender |-> "re-alert"]
    /\ ways = [w \in Sender |-> {}]
    /\ due = [w \in Sender |-> {}]
    /\ pending = {}
    /\ sentAge = [r \in Rule |-> Cooldown]

-------------------------------------------------------------------------------
(* The engine, the API, the clock and the purge                            *)

Flip(r) ==
    /\ Feed!Flip(r)
    /\ UNCHANGED <<configVars, ageVars, faults, workVars, sentAge>>

\* The recipients go with the target; the alert history stays.
Retire(r) ==
    /\ Feed!Retire(r)
    /\ paused' = paused \ {r}
    /\ recipients' = [recipients EXCEPT ![r] = {}]
    /\ UNCHANGED <<channels, edits, ageVars, faults, workVars, sentAge>>

\* SetTargetRecipients, a change of the alerting settings, pause, unpause.
Edit ==
    /\ edits < MaxEdits
    /\ edits' = edits + 1
    /\ \/ /\ \E r \in alive, us \in SUBSET User : recipients' = [recipients EXCEPT ![r] = us]
          /\ UNCHANGED <<channels, paused>>
       \/ /\ channels' \in SUBSET Channel
          /\ UNCHANGED <<recipients, paused>>
       \/ /\ \E r \in alive : paused' = IF r \in paused THEN paused \ {r} ELSE paused \cup {r}
          /\ UNCHANGED <<recipients, channels>>
    /\ UNCHANGED <<feedVars, ageVars, faults, workVars, sentAge>>

Older(age, limit) == IF age \in 0 .. limit - 1 THEN age + 1 ELSE age

Tick ==
    /\ transitionAge' = [r \in Rule |-> Older(transitionAge[r], Cooldown)]
    /\ problemAge' = [r \in Rule |-> Older(problemAge[r], Realert)]
    /\ sentAge' = [r \in Rule |-> Older(sentAge[r], Cooldown)]
    /\ UNCHANGED <<feedVars, configVars, faults, workVars>>

\* PurgeOldAlertHistory.  The settings API limits alert_realert_s and
\* alert_cooldown_s to a day and the retention is a day at least, so only
\* rows that are old enough for both limits are deleted.
Purge ==
    /\ \E r \in Rule : problemAge[r] = Realert
    /\ problemAge' = [r \in Rule |-> IF problemAge[r] = Realert THEN Never ELSE problemAge[r]]
    /\ UNCHANGED <<feedVars, configVars, transitionAge, faults, workVars, sentAge>>

-------------------------------------------------------------------------------
(* Dispatch and CheckRealerts                                              *)

\* A sender is done with its rule: Dispatch returns and frees its place,
\* CheckRealerts goes on to the next rule.
Leave(w) ==
    /\ step' = [step EXCEPT ![w] = IF w = Scanner THEN "scan" ELSE "idle"]
    /\ about' = [about EXCEPT ![w] = None]
    /\ kind' = [kind EXCEPT ![w] = "re-alert"]
    /\ ways' = IF w = Scanner THEN ways ELSE [ways EXCEPT ![w] = {}]
    /\ due' = [due EXCEPT ![w] = {}]

\* The engine starts "go Dispatch(ruleID, oldState, newState)".
Announce(r, s) ==
    /\ step[s] = "idle"
    /\ Feed!Announce(r)
    /\ step' = [step EXCEPT ![s] = "lookup"]
    /\ about' = [about EXCEPT ![s] = r]
    /\ kind' = [kind EXCEPT ![s] = IF status[r] = "healthy" THEN "recovery" ELSE "firing"]
    /\ UNCHANGED <<configVars, ageVars, faults, ways, due, pending, sentAge>>

\* Mutant: the cooldown is left out for recoveries.
CheckCooldownFiringOnly(s) ==
    /\ step[s] = "lookup"
    /\ IF /\ about[s] \in alive /\ channels # {}
          /\ transitionAge[about[s]] = Cooldown \/ kind[s] = "recovery"
       THEN /\ step' = [step EXCEPT ![s] = "recipients"]
            /\ ways' = [ways EXCEPT ![s] = channels]
            /\ UNCHANGED <<about, kind, due>>
       ELSE Leave(s)
    /\ UNCHANGED <<feedVars, configVars, ageVars, faults, pending, sentAge>>

\* The rule's target, the settings and GetLastTransitionAlertTime are read.
\* A failed query of the last reads as no row: its error is ignored.
CheckCooldown(s) ==
    /\ step[s] = "lookup"
    /\ \E fault \in {0, 1} :
          /\ faults + fault <= MaxFaults
          /\ faults' = faults + fault
          /\ IF /\ about[s] \in alive /\ channels # {}
                /\ transitionAge[about[s]] = Cooldown \/ fault = 1
             THEN /\ step' = [step EXCEPT ![s] = "recipients"]
                  /\ ways' = [ways EXCEPT ![s] = channels]
                  /\ UNCHANGED <<about, kind, due>>
             ELSE Leave(s)
    /\ UNCHANGED <<feedVars, configVars, ageVars, pending, sentAge>>

\* Mutant: GetFiringRules takes only rules that began to fire lately.
BeginScanFreshOnly ==
    /\ step[Scanner] = "idle"
    /\ channels # {}
    /\ step' = [step EXCEPT ![Scanner] = "scan"]
    /\ ways' = [ways EXCEPT ![Scanner] = channels]
    /\ pending' = {r \in alive \ paused : status[r] = "unhealthy" /\ transitionAge[r] < Cooldown}
    /\ UNCHANGED <<feedVars, configVars, ageVars, faults, about, kind, due, sentAge>>

\* CheckRealerts begins: the settings, then GetFiringRules.
BeginScan ==
    /\ step[Scanner] = "idle"
    /\ channels # {}
    /\ step' = [step EXCEPT ![Scanner] = "scan"]
    /\ ways' = [ways EXCEPT ![Scanner] = channels]
    /\ pending' = {r \in alive \ paused : status[r] = "unhealthy"}
    /\ UNCHANGED <<feedVars, configVars, ageVars, faults, about, kind, due, sentAge>>

\* The next rule, with its GetLastProblemAlertTime: a rule with no row, or
\* with a failed query, is skipped.
CheckRealert(r) ==
    /\ step[Scanner] = "scan"
    /\ r \in pending
    /\ pending' = pending \ {r}
    /\ \E fault \in {0, 1} :
          /\ faults + fault <= MaxFaults
          /\ faults' = faults + fault
          /\ IF problemAge[r] = Realert /\ fault = 0
             THEN /\ step' = [step EXCEPT ![Scanner] = "recipients"]
                  /\ about' = [about EXCEPT ![Scanner] = r]
             ELSE UNCHANGED <<step, about>>
    /\ UNCHANGED <<feedVars, configVars, ageVars, kind, ways, due, sentAge>>

EndScan ==
    /\ step[Scanner] = "scan"
    /\ pending = {}
    /\ step' = [step EXCEPT ![Scanner] = "idle"]
    /\ ways' = [ways EXCEPT ![Scanner] = {}]
    /\ UNCHANGED <<feedVars, configVars, ageVars, faults, about, kind, due, pending, sentAge>>

\* Where a notification goes: a target without recipients gets none, not
\* even on the webhook.
Destinations(us, ws) ==
    IF us = {} THEN {}
    ELSE {u \in us \cap Addressed : "personal" \in ws} \cup {x \in {Webhook} : "webhook" \in ws}

\* GetTarget and ListTargetRecipients; either may fail.
ReadRecipients(w) ==
    /\ step[w] = "recipients"
    /\ \E fault \in {0, 1} :
          /\ faults + fault <= MaxFaults
          /\ faults' = faults + fault
          /\ LET to == Destinations(recipients[about[w]], ways[w]) IN
             IF about[w] \in alive /\ to # {} /\ fault = 0
             THEN /\ step' = [step EXCEPT ![w] = "deliver"]
                  /\ due' = [due EXCEPT ![w] = to]
                  /\ UNCHANGED <<about, kind, ways>>
             ELSE Leave(w)
    /\ UNCHANGED <<feedVars, configVars, ageVars, pending, sentAge>>

\* SendEmail, SendSignal or SendWebhook: it ends, with or without success.
Send(w) ==
    /\ step[w] = "deliver"
    /\ step' = [step EXCEPT ![w] = "log"]
    /\ sentAge' = IF kind[w] = "re-alert" THEN sentAge ELSE [sentAge EXCEPT ![about[w]] = 0]
    /\ UNCHANGED <<feedVars, configVars, ageVars, faults, about, kind, ways, due, pending>>

\* The loops over the destinations go on, or are done.
NextDestination(w, d) ==
    IF due[w] = {d} THEN Leave(w)
    ELSE /\ step' = [step EXCEPT ![w] = "deliver"]
         /\ due' = [due EXCEPT ![w] = @ \ {d}]
         /\ UNCHANGED <<about, kind, ways>>

\* Mutant: the webhook's loop has no LogAlert.
LogPersonal(w, d) ==
    /\ step[w] = "log"
    /\ d \in due[w]
    /\ NextDestination(w, d)
    /\ transitionAge' = IF kind[w] = "re-alert" \/ d = Webhook THEN transitionAge
                        ELSE [transitionAge EXCEPT ![about[w]] = 0]
    /\ problemAge' = IF kind[w] = "recovery" \/ d = Webhook THEN problemAge
                     ELSE [problemAge EXCEPT ![about[w]] = 0]
    /\ UNCHANGED <<feedVars, configVars, faults, pending, sentAge>>

\* LogAlert: a row is added, whether the sending succeeded or not; when the
\* insert fails the loop goes on.
Log(w, d) ==
    /\ step[w] = "log"
    /\ d \in due[w]
    /\ NextDestination(w, d)
    /\ \/ /\ transitionAge' = IF kind[w] = "re-alert" THEN transitionAge
                              ELSE [transitionAge EXCEPT ![about[w]] = 0]
          /\ problemAge' = IF kind[w] = "recovery" THEN problemAge
                           ELSE [problemAge EXCEPT ![about[w]] = 0]
          /\ UNCHANGED faults
       \/ /\ faults < MaxFaults
          /\ faults' = faults + 1
          /\ UNCHANGED ageVars
    /\ UNCHANGED <<feedVars, configVars, pending, sentAge>>

-------------------------------------------------------------------------------
Deliver(w) == ReadRecipients(w) \/ Send(w) \/ \E d \in Destination : Log(w, d)
Dispatch(s) == CheckCooldown(s) \/ Deliver(s)
CheckRealerts == BeginScan \/ (\E r \in Rule : CheckRealert(r)) \/ EndScan \/ Deliver(Scanner)

Next ==
    \/ \E r \in Rule : Flip(r) \/ Retire(r)
    \/ \E r \in Rule, s \in Slot : Announce(r, s)
    \/ Edit
    \/ Tick
    \/ Purge
    \/ \E s \in Slot : Dispatch(s)
    \/ CheckRealerts

Spec == Init /\ [][Next]_vars

\* Time passes, sends end within their timeouts and the ticker calls
\* CheckRealerts every minute.  Flips, announcements, edits, deletions and
\* purges are not owed.
Fairness ==
    /\ WF_vars(Tick)
    /\ \A s \in Slot : WF_vars(Dispatch(s))
    /\ WF_vars(CheckRealerts)

FairSpec == Spec /\ Fairness

-------------------------------------------------------------------------------
(* Safety                                                                  *)

\* A notification of a transition that is younger than the cooldown is in
\* the alert history, or the Dispatch that sent it is about to log it:
\* nothing the cooldown counts on is missing, whichever destinations a
\* Dispatch has served and whether or not their sending succeeded.
SentIsLogged ==
    faults = 0 => \A r \in Rule :
        \/ sentAge[r] = Cooldown
        \/ transitionAge[r] <= sentAge[r]
        \/ \E s \in Slot : about[s] = r /\ step[s] = "log"

\* The Dispatch calls of rule r that have got past the cooldown.
Past(r) == {s \in Slot : about[s] = r /\ step[s] \in {"recipients", "deliver", "log"}}

\* The cooldown works as long as the Dispatch calls of the rule do not
\* overlap: one that gets past it while no other of its rule is past it does
\* so no sooner than Cooldown after the last notification of a transition
\* was sent, although it looks at logged rows only.
CooldownUnlessOverlapping ==
    [][\A s \in Slot :
        step[s] = "lookup" /\ step'[s] = "recipients" /\ faults' = 0 /\ Past(about[s]) = {}
        => sentAge[about[s]] = Cooldown]_vars

\* As the documentation has it, without the condition: the notifications of
\* two transitions of one rule are at least Cooldown apart
\* (docs/reference/api_reference.md: "Cooldown applies to all alert types
\* including recovery").
CooldownHonoured ==
    [][\A s \in Slot :
        step[s] = "recipients" /\ step'[s] = "deliver" /\ faults' = 0
        => sentAge[about[s]] = Cooldown]_vars

-------------------------------------------------------------------------------
(* Liveness                                                                *)

Nagging(r) == step[Scanner] = "log" /\ about[Scanner] = r

\* A rule that stays unhealthy, unpaused and with somebody to tell, and for
\* which the history holds a problem alert, is re-alerted again and again:
\* no earlier change of recipients, pause, failed query or scan that found
\* nothing to do ends that, so silence never means that the trouble is over.
DownIsHeard ==
    \A r \in Rule :
        <>[](/\ status[r] = "unhealthy" /\ r \in alive \ paused
             /\ Destinations(recipients[r], channels) # {}
             /\ problemAge[r] # Never)
        => []<>Nagging(r)
===============================================================================
