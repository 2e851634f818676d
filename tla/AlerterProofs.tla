----------------------------- MODULE AlerterProofs -----------------------------
(***************************************************************************)
(* Proofs about module Alerter: type correctness, that the alert history   *)
(* misses nothing the cooldown counts on, and that the cooldown therefore  *)
(* works as long as the Dispatch calls of a rule do not overlap.           *)
(***************************************************************************)
EXTENDS Alerter, TLAPS

\* What a sender holds: a rule and destinations where it needs them, and a
\* kind that tells Dispatch calls from CheckRealerts.
WorkInHand ==
    /\ \A w \in Sender : step[w] \in {"lookup", "recipients", "deliver", "log"} => about[w] \in Rule
    /\ \A s \in Slot : step[s] # "scan"
    /\ \A s \in Slot : step[s] # "idle" => kind[s] \in {"firing", "recovery"}
    /\ step[Scanner] # "lookup" /\ kind[Scanner] = "re-alert"

Typed == TypeOK /\ WorkInHand

LEMMA LimitTyped ==
    ASSUME NEW limit \in Nat, NEW age \in 0 .. limit
    PROVE  Older(age, limit) \in 0 .. limit
BY DEF Older

LEMMA DestinationsTyped ==
    ASSUME NEW us \in SUBSET User, NEW ws
    PROVE  Destinations(us, ws) \in SUBSET Destination
BY DEF Destinations, Destination

\* The end of the work on a rule.
LEMMA LeaveTyped ==
    ASSUME Typed, NEW w \in Sender, Leave(w), UNCHANGED <<feedVars, configVars, pending>>,
           transitionAge' \in [Rule -> 0 .. Cooldown],
           problemAge' \in [Rule -> 0 .. Realert \cup {Never}],
           faults' \in 0 .. MaxFaults, sentAge' = sentAge
    PROVE  Typed'
<1>1. /\ step' \in [Sender -> Step]
      /\ \A v \in Sender : v # w => step'[v] = step[v]
      /\ w = Scanner => step'[w] = "scan"
      /\ w # Scanner => step'[w] = "idle"
  BY DEF Leave, Typed, TypeOK, Step
<1>2. /\ about' \in [Sender -> Rule \cup {None}]
      /\ \A v \in Sender : v # w => about'[v] = about[v]
  BY DEF Leave, Typed, TypeOK
<1>3. /\ kind' \in [Sender -> Kind]
      /\ \A v \in Sender : v # w => kind'[v] = kind[v]
      /\ kind'[w] = "re-alert"
  BY DEF Leave, Typed, TypeOK, Kind
<1>4. ways' \in [Sender -> SUBSET Channel] /\ due' \in [Sender -> SUBSET Destination]
  BY DEF Leave, Typed, TypeOK
<1>5. WorkInHand'
  BY <1>1, <1>2, <1>3, AlerterAssumption DEF WorkInHand, Typed, Sender
<1>. QED
  BY <1>1, <1>2, <1>3, <1>4, <1>5 DEF Typed, TypeOK, feedVars, configVars

\* The rules' feed keeps its types.
LEMMA FeedTyped ==
    ASSUME TypeOK, NEW r \in Rule, Feed!Flip(r) \/ Feed!Announce(r) \/ Feed!Retire(r)
    PROVE  /\ alive' \in SUBSET Rule
           /\ status' \in [Rule -> Feed!Status]
           /\ told' \in [Rule -> Feed!Status]
BY DEF TypeOK, Feed!Flip, Feed!Announce, Feed!Retire, Feed!Opposite, Feed!Status

LEMMA TypedInit == Init => Typed
BY AlerterAssumption DEF Init, Typed, TypeOK, WorkInHand, Feed!Init, Feed!Status, Kind, Step, Sender

LEMMA TypedInductive == Typed /\ [Next]_vars => Typed'
<1> SUFFICES ASSUME Typed, [Next]_vars PROVE Typed'
  OBVIOUS
<1>1. ASSUME NEW r \in Rule, Flip(r) PROVE Typed'
  BY <1>1, FeedTyped DEF Flip, Feed!Flip, Typed, TypeOK, WorkInHand, configVars, ageVars, workVars
<1>2. ASSUME NEW r \in Rule, Retire(r) PROVE Typed'
  BY <1>2, FeedTyped DEF Retire, Typed, TypeOK, WorkInHand, ageVars, workVars
<1>3. ASSUME NEW r \in Rule, NEW s \in Slot, Announce(r, s) PROVE Typed'
  <2>1. s \in Sender /\ s # Scanner
    BY AlerterAssumption DEF Sender
  <2>2. step' \in [Sender -> Step] /\ about' \in [Sender -> Rule \cup {None}]
        /\ kind' \in [Sender -> Kind]
    BY <1>3, <2>1 DEF Announce, Typed, TypeOK, Step, Kind
  <2>3. WorkInHand'
    BY <1>3, <2>1 DEF Announce, Typed, TypeOK, WorkInHand, Sender
  <2>. QED  BY <1>3, <2>2, <2>3, FeedTyped DEF Announce, Typed, TypeOK, configVars, ageVars
<1>4. CASE Edit
  BY <1>4, AlerterAssumption DEF Edit, Typed, TypeOK, WorkInHand, feedVars, ageVars, workVars
<1>5. CASE Tick
  <2>1. transitionAge' \in [Rule -> 0 .. Cooldown] /\ sentAge' \in [Rule -> 0 .. Cooldown]
    BY <1>5, LimitTyped, AlerterAssumption DEF Tick, Typed, TypeOK
  <2>2. problemAge' \in [Rule -> 0 .. Realert \cup {Never}]
    BY <1>5, AlerterAssumption DEF Tick, Typed, TypeOK, Older
  <2>. QED  BY <1>5, <2>1, <2>2 DEF Tick, Typed, TypeOK, WorkInHand, feedVars, configVars, workVars
<1>6. CASE Purge
  BY <1>6 DEF Purge, Typed, TypeOK, WorkInHand, feedVars, configVars, workVars
<1>7. ASSUME NEW s \in Slot, CheckCooldown(s) PROVE Typed'
  <2>1. s \in Sender /\ s # Scanner
    BY AlerterAssumption DEF Sender
  <2>2. faults' \in 0 .. MaxFaults
    BY <1>7, AlerterAssumption DEF CheckCooldown, Typed, TypeOK
  <2>3. CASE Leave(s)
    BY <1>7, <2>1, <2>2, <2>3, LeaveTyped DEF CheckCooldown, Typed, TypeOK, ageVars
  <2>4. CASE /\ step' = [step EXCEPT ![s] = "recipients"]
             /\ ways' = [ways EXCEPT ![s] = channels]
             /\ UNCHANGED <<about, kind, due>>
    BY <1>7, <2>1, <2>2, <2>4 DEF CheckCooldown, Typed, TypeOK, WorkInHand, Step,
       feedVars, configVars, ageVars
  <2>. QED  BY <1>7, <2>3, <2>4 DEF CheckCooldown
<1>8. CASE BeginScan
  BY <1>8, AlerterAssumption DEF BeginScan, Typed, TypeOK, WorkInHand, Step, Sender,
     feedVars, configVars, ageVars
<1>9. ASSUME NEW r \in Rule, CheckRealert(r) PROVE Typed'
  <2>1. faults' \in 0 .. MaxFaults
    BY <1>9, AlerterAssumption DEF CheckRealert, Typed, TypeOK
  <2>2. CASE UNCHANGED <<step, about>>
    BY <1>9, <2>1, <2>2 DEF CheckRealert, Typed, TypeOK, WorkInHand, feedVars, configVars, ageVars
  <2>3. CASE /\ step' = [step EXCEPT ![Scanner] = "recipients"]
             /\ about' = [about EXCEPT ![Scanner] = r]
    BY <1>9, <2>1, <2>3, AlerterAssumption DEF CheckRealert, Typed, TypeOK, WorkInHand, Step, Sender,
       feedVars, configVars, ageVars
  <2>. QED  BY <1>9, <2>2, <2>3 DEF CheckRealert
<1>10. CASE EndScan
  BY <1>10, AlerterAssumption DEF EndScan, Typed, TypeOK, WorkInHand, Step, Sender,
     feedVars, configVars, ageVars
<1>11. ASSUME NEW w \in Sender, ReadRecipients(w) PROVE Typed'
  <2>1. faults' \in 0 .. MaxFaults
    BY <1>11, AlerterAssumption DEF ReadRecipients, Typed, TypeOK
  <2>2. CASE Leave(w)
    BY <1>11, <2>1, <2>2, LeaveTyped DEF ReadRecipients, Typed, TypeOK, ageVars
  <2>3. CASE /\ step' = [step EXCEPT ![w] = "deliver"]
             /\ due' = [due EXCEPT ![w] = Destinations(recipients[about[w]], ways[w])]
             /\ UNCHANGED <<about, kind, ways>>
    <3>1. Destinations(recipients[about[w]], ways[w]) \in SUBSET Destination
      BY <1>11, DestinationsTyped DEF ReadRecipients, Typed, TypeOK, WorkInHand
    <3>2. due' \in [Sender -> SUBSET Destination] /\ step' \in [Sender -> Step]
      BY <2>3, <3>1 DEF Typed, TypeOK, Step
    <3>3. WorkInHand'
      BY <1>11, <2>3 DEF ReadRecipients, Typed, TypeOK, WorkInHand, Sender
    <3>. QED  BY <1>11, <2>1, <2>3, <3>2, <3>3 DEF ReadRecipients, Typed, TypeOK,
                 feedVars, configVars, ageVars
  <2>. QED  BY <1>11, <2>2, <2>3 DEF ReadRecipients
<1>12. ASSUME NEW w \in Sender, Send(w) PROVE Typed'
  BY <1>12, AlerterAssumption DEF Send, Typed, TypeOK, WorkInHand, Step, Sender,
     feedVars, configVars, ageVars
<1>13. ASSUME NEW w \in Sender, NEW d \in Destination, Log(w, d) PROVE Typed'
  <2>1. faults' \in 0 .. MaxFaults
    BY <1>13, AlerterAssumption DEF Log, Typed, TypeOK
  <2>2. /\ transitionAge' \in [Rule -> 0 .. Cooldown]
        /\ problemAge' \in [Rule -> 0 .. Realert \cup {Never}]
    BY <1>13, AlerterAssumption DEF Log, Typed, TypeOK, ageVars
  <2>3. CASE Leave(w)
    BY <1>13, <2>1, <2>2, <2>3, LeaveTyped DEF Log
  <2>4. CASE /\ step' = [step EXCEPT ![w] = "deliver"]
             /\ due' = [due EXCEPT ![w] = @ \ {d}]
             /\ UNCHANGED <<about, kind, ways>>
    <3>1. due' \in [Sender -> SUBSET Destination] /\ step' \in [Sender -> Step]
      BY <2>4 DEF Typed, TypeOK, Step
    <3>2. WorkInHand'
      BY <1>13, <2>4 DEF Log, Typed, TypeOK, WorkInHand, Sender
    <3>. QED  BY <1>13, <2>1, <2>2, <2>4, <3>1, <3>2 DEF Log, Typed, TypeOK, feedVars, configVars
  <2>. QED  BY <1>13, <2>3, <2>4 DEF Log, NextDestination
<1>14. CASE UNCHANGED vars
  BY <1>14 DEF Typed, TypeOK, WorkInHand, vars, feedVars, configVars, ageVars, workVars
<1>. QED
  BY <1>1, <1>2, <1>3, <1>4, <1>5, <1>6, <1>7, <1>8, <1>9, <1>10, <1>11, <1>12, <1>13, <1>14
  DEF Next, Dispatch, CheckRealerts, Deliver, Sender

\* The types, for every value of the constants.
THEOREM TypeCorrect == Spec => []TypeOK
<1>1. Typed => TypeOK
  BY DEF Typed
<1>. QED  BY <1>1, TypedInit, TypedInductive, PTL DEF Spec

LEMMA AlwaysTyped == Spec => []Typed
BY TypedInit, TypedInductive, PTL DEF Spec

-------------------------------------------------------------------------------
\* One step keeps the history complete.
LEMMA LoggedInductive == Typed /\ SentIsLogged /\ [Next]_vars => SentIsLogged'
<1> SUFFICES ASSUME Typed, SentIsLogged, [Next]_vars, faults' = 0, NEW r \in Rule
             PROVE  \/ sentAge'[r] = Cooldown
                    \/ transitionAge'[r] <= sentAge'[r]
                    \/ \E s \in Slot : about'[s] = r /\ step'[s] = "log"
  BY DEF SentIsLogged
<1> DEFINE Good == \/ sentAge'[r] = Cooldown
                   \/ transitionAge'[r] <= sentAge'[r]
                   \/ \E s \in Slot : about'[s] = r /\ step'[s] = "log"
<1> DEFINE Kept == \A s \in Slot : about[s] = r /\ step[s] = "log"
                                   => about'[s] = r /\ step'[s] = "log"
<1>0. /\ faults = 0
      /\ \/ sentAge[r] = Cooldown
         \/ transitionAge[r] <= sentAge[r]
         \/ \E s \in Slot : about[s] = r /\ step[s] = "log"
  <2>1. faults' = faults \/ (faults' = faults + 1) \/ (\E fault \in {0, 1} : faults' = faults + fault)
    BY DEF Next, Flip, Retire, Announce, Edit, Tick, Purge, Dispatch, CheckRealerts, Deliver,
       CheckCooldown, BeginScan, CheckRealert, EndScan, ReadRecipients, Send, Log, vars
  <2>2. faults = 0
    BY <2>1 DEF Typed, TypeOK
  <2>. QED  BY <2>2 DEF SentIsLogged
<1>1. CASE Tick
  <2>1. Kept
    BY <1>1 DEF Tick, workVars
  <2>2. sentAge'[r] = Older(sentAge[r], Cooldown) /\ transitionAge'[r] = Older(transitionAge[r], Cooldown)
    BY <1>1 DEF Tick
  <2>3. sentAge[r] \in 0 .. Cooldown /\ transitionAge[r] \in 0 .. Cooldown
    BY DEF Typed, TypeOK
  <2>. QED  BY <1>0, <2>1, <2>2, <2>3, AlerterAssumption DEF Older
<1>2. ASSUME NEW s \in Slot, Send(s) PROVE \/ sentAge'[r] = sentAge[r] /\ Kept
                                           \/ about'[s] = r /\ step'[s] = "log"
  BY <1>2, AlerterAssumption DEF Send, Typed, TypeOK, Sender
<1>3. ASSUME NEW s \in Slot, NEW d \in Destination, Log(s, d), about[s] = r
      PROVE  transitionAge'[r] <= sentAge'[r]
  <2>1. s \in Sender /\ kind[s] # "re-alert"
    BY <1>3 DEF Log, Typed, WorkInHand, Sender
  <2>2. transitionAge' = [transitionAge EXCEPT ![about[s]] = 0] /\ sentAge' = sentAge
    BY <1>0, <1>3, <2>1 DEF Log
  <2>. QED  BY <1>3, <2>2 DEF Typed, TypeOK
<1>4. ASSUME NEW s \in Slot, NEW d \in Destination, Log(s, d), about[s] # r
      PROVE  UNCHANGED <<sentAge[r], transitionAge[r]>> /\ Kept
  <2>1. UNCHANGED <<sentAge[r], transitionAge[r]>>
    BY <1>4 DEF Log, Typed, TypeOK, ageVars
  <2>2. \A t \in Slot : t # s => about'[t] = about[t] /\ step'[t] = step[t]
    BY <1>4 DEF Log, NextDestination, Leave, Typed, TypeOK, Sender
  <2>. QED  BY <1>4, <2>1, <2>2
<1>5. ASSUME NEW w \in Sender, ReadRecipients(w) PROVE UNCHANGED <<sentAge, transitionAge>> /\ Kept
  <2>1. \A t \in Slot : t # w => about'[t] = about[t] /\ step'[t] = step[t]
    BY <1>5 DEF ReadRecipients, Leave, Typed, TypeOK, Sender
  <2>. QED  BY <1>5, <2>1 DEF ReadRecipients, ageVars
<1>6. ASSUME NEW s \in Slot, CheckCooldown(s) PROVE UNCHANGED <<sentAge, transitionAge>> /\ Kept
  <2>1. \A t \in Slot : t # s => about'[t] = about[t] /\ step'[t] = step[t]
    BY <1>6 DEF CheckCooldown, Leave, Typed, TypeOK, Sender
  <2>. QED  BY <1>6, <2>1 DEF CheckCooldown, ageVars
<1>7. ASSUME NEW q \in Rule, NEW s \in Slot, Announce(q, s)
      PROVE  UNCHANGED <<sentAge, transitionAge>> /\ Kept
  <2>1. \A t \in Slot : t # s => about'[t] = about[t] /\ step'[t] = step[t]
    BY <1>7 DEF Announce, Typed, TypeOK, Sender
  <2>. QED  BY <1>7, <2>1 DEF Announce, ageVars
<1>8. CASE Send(Scanner) \/ \E d \in Destination : Log(Scanner, d)
  <2>1. kind[Scanner] = "re-alert" => UNCHANGED <<sentAge, transitionAge>>
    BY <1>8 DEF Send, Log, ageVars
  <2>2. \A t \in Slot : about'[t] = about[t] /\ step'[t] = step[t]
    BY <1>8, AlerterAssumption DEF Send, Log, NextDestination, Leave, Typed, TypeOK, Sender
  <2>3. kind[Scanner] = "re-alert"
    BY DEF Typed, WorkInHand
  <2>. QED  BY <1>0, <2>1, <2>2, <2>3
<1>9. CASE BeginScan \/ EndScan \/ \E q \in Rule : CheckRealert(q)
  <2>1. UNCHANGED <<sentAge, transitionAge>>
    BY <1>9 DEF BeginScan, EndScan, CheckRealert, ageVars
  <2>2. \A t \in Slot : about'[t] = about[t] /\ step'[t] = step[t]
    BY <1>9, AlerterAssumption DEF BeginScan, EndScan, CheckRealert, Typed, TypeOK, Sender
  <2>. QED  BY <1>0, <2>1, <2>2
<1>10. CASE Edit \/ Purge \/ (\E q \in Rule : Flip(q) \/ Retire(q)) \/ UNCHANGED vars
  BY <1>0, <1>10 DEF Edit, Purge, Flip, Retire, vars, ageVars, workVars
<1>11. ASSUME NEW s \in Slot, Dispatch(s)
       PROVE  Good
  <2>1. CASE Send(s)
    BY <1>0, <1>2, <2>1 DEF Send, ageVars
  <2>2. ASSUME NEW d \in Destination, Log(s, d) PROVE Good
    <3>1. CASE about[s] = r
      BY <1>3, <2>2, <3>1
    <3>2. CASE about[s] # r
      BY <1>0, <1>4, <2>2, <3>2
    <3>. QED  BY <3>1, <3>2
  <2>3. CASE ReadRecipients(s) \/ CheckCooldown(s)
    BY <1>0, <1>5, <1>6, <2>3 DEF Sender
  <2>. QED  BY <1>11, <2>1, <2>2, <2>3 DEF Dispatch, Deliver
<1>12. CASE \E q \in Rule, s \in Slot : Announce(q, s)
  BY <1>0, <1>7, <1>12
<1>13. CASE CheckRealerts
  BY <1>0, <1>5, <1>8, <1>9, <1>13 DEF CheckRealerts, Deliver, Sender
<1>. QED  BY <1>1, <1>10, <1>11, <1>12, <1>13 DEF Next

\* Nothing the cooldown counts on is missing from the alert history.
THEOREM HistoryComplete == Spec => []SentIsLogged
<1>1. Init => SentIsLogged
  BY DEF Init, SentIsLogged
<1>. QED  BY <1>1, AlwaysTyped, LoggedInductive, PTL DEF Spec

\* A Dispatch that gets past the cooldown while no other of its rule is past
\* it follows the last notification by the cooldown at least.
THEOREM CooldownWorks == Spec => CooldownUnlessOverlapping
<1> DEFINE Spaced == \A s \in Slot :
        step[s] = "lookup" /\ step'[s] = "recipients" /\ faults' = 0 /\ Past(about[s]) = {}
        => sentAge[about[s]] = Cooldown
<1>1. ASSUME Typed, SentIsLogged, [Next]_vars PROVE [Spaced]_vars
  <2> SUFFICES ASSUME NEW s \in Slot, step[s] = "lookup", step'[s] = "recipients", faults' = 0,
                      Past(about[s]) = {}
               PROVE  sentAge[about[s]] = Cooldown
    OBVIOUS
  <2>1. CheckCooldown(s)
    <3>1. s \in Sender /\ s # Scanner
      BY AlerterAssumption DEF Sender
    <3>2. ASSUME NEW t \in Slot, Dispatch(t), t # s PROVE step'[s] = step[s]
      BY <1>1, <3>1, <3>2 DEF Dispatch, Deliver, CheckCooldown, ReadRecipients, Send, Log,
         NextDestination, Leave, Typed, TypeOK, Sender
    <3>3. ASSUME CheckRealerts PROVE step'[s] = step[s]
      BY <1>1, <3>1, <3>3 DEF CheckRealerts, Deliver, BeginScan, CheckRealert, EndScan,
         ReadRecipients, Send, Log, NextDestination, Leave, Typed, TypeOK, Sender
    <3>4. ASSUME NEW r \in Rule, NEW t \in Slot, Announce(r, t) PROVE step'[s] # "recipients"
      BY <1>1, <3>1, <3>4 DEF Announce, Typed, TypeOK, Sender
    <3>5. ASSUME Deliver(s) PROVE FALSE
      BY <3>5 DEF Deliver, ReadRecipients, Send, Log
    <3>. QED
      BY <1>1, <3>2, <3>3, <3>4, <3>5 DEF Next, Flip, Retire, Edit, Tick, Purge, workVars, vars,
         Dispatch
  <2>2. faults = 0 /\ transitionAge[about[s]] = Cooldown /\ about[s] \in Rule
    <3>1. about[s] \in Rule /\ s # Scanner /\ s \in Sender
      BY <1>1, AlerterAssumption DEF Typed, WorkInHand, Sender
    <3>2. PICK fault \in {0, 1} :
             /\ faults' = faults + fault
             /\ IF /\ about[s] \in alive /\ channels # {}
                   /\ transitionAge[about[s]] = Cooldown \/ fault = 1
                THEN step' = [step EXCEPT ![s] = "recipients"]
                ELSE Leave(s)
      BY <2>1 DEF CheckCooldown
    <3>3. faults = 0 /\ fault = 0
      BY <1>1, <3>2 DEF Typed, TypeOK
    <3>4. ~ Leave(s)
      BY <1>1, <3>1 DEF Leave, Typed, TypeOK
    <3>. QED  BY <3>1, <3>2, <3>3, <3>4
  <2>3. ~ \E t \in Slot : about[t] = about[s] /\ step[t] = "log"
    BY DEF Past
  <2>4. sentAge[about[s]] \in 0 .. Cooldown
    BY <1>1, <2>2 DEF Typed, TypeOK
  <2>. QED  BY <1>1, <2>2, <2>3, <2>4, AlerterAssumption DEF SentIsLogged
<1>. QED  BY <1>1, AlwaysTyped, HistoryComplete, PTL DEF Spec, CooldownUnlessOverlapping
===============================================================================
