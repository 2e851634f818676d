------------------------------ MODULE RuleAlerts ------------------------------
(***************************************************************************)
(* What the rule engine promises to the alerter, without saying how.       *)
(*                                                                         *)
(* Each rule is healthy or unhealthy.  Every change of a rule's state is   *)
(* announced to the alerter exactly once, in the order of the changes, and *)
(* before the rule's state may change again.  A retired rule (its target   *)
(* was deleted) never changes state again; an announcement that was on its *)
(* way when the rule was retired may still be made.                        *)
(***************************************************************************)

CONSTANTS Rule   \* the rules, one per monitored target

VARIABLES
    alive,       \* the rules that exist
    status,      \* the state of each rule; frozen once the rule is retired
    told         \* the state each rule was in when it was last announced

aVars == <<alive, status, told>>

Status == {"healthy", "unhealthy"}

Opposite(s) == IF s = "healthy" THEN "unhealthy" ELSE "healthy"

Init ==
    /\ alive = Rule
    /\ status = [r \in Rule |-> "healthy"]
    /\ told = [r \in Rule |-> "healthy"]

Flip(r) ==
    /\ r \in alive
    /\ told[r] = status[r]
    /\ status' = [status EXCEPT ![r] = Opposite(@)]
    /\ UNCHANGED <<alive, told>>

Announce(r) ==
    /\ told[r] # status[r]
    /\ told' = [told EXCEPT ![r] = status[r]]
    /\ UNCHANGED <<alive, status>>

Retire(r) ==
    /\ r \in alive
    /\ alive' = alive \ {r}
    /\ UNCHANGED <<status, told>>

Next == \E r \in Rule : Flip(r) \/ Announce(r) \/ Retire(r)

Spec == Init /\ [][Next]_aVars
===============================================================================
