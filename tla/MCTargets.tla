------------------------------- MODULE MCTargets -------------------------------
(***************************************************************************)
(* Instances of the four modules about targets, of RuleEval, about the     *)
(* conditions they are given, and of PagedLists, about the log of what     *)
(* they and the users did.  They share no state: a behaviour takes the     *)
(* steps of one part, and the others stay where they are, so that the      *)
(* states of the parts add up.  Parts whose Init has a choice make it only *)
(* when they are the part that moves.                                      *)
(***************************************************************************)
EXTENDS TargetStore, TargetModal, TargetList, ConditionForm, RuleEval, PagedLists, TLC

CONSTANTS a, b, d, c1, c2, c3, c4, k1, k2, r1, r2

VARIABLE part

FirstChecksOf == (a :> {c1, c2}) @@ (b :> {c3})
Symmetry == Permutations({k1, k2}) \cup Permutations({r1, r2})

Init ==
    /\ part \in {"store", "modal", "list", "form", "eval", "log"}
    /\ StoreInit /\ ModalInit /\ ListInit /\ FormInit /\ EvalInit /\ LogInit
    /\ part # "list" => view = "Targets"
    /\ part # "log" => log = "alerts"
    /\ part # "eval" => cond = [interval |-> MinInterval, failCount |-> 1, failWindow |-> 0]

Next ==
    \/ part = "store" /\ StoreNext
       /\ UNCHANGED <<part, modalVars, listVars, conditions, evalVars, logVars>>
    \/ part = "modal" /\ ModalNext
       /\ UNCHANGED <<part, storeVars, listVars, conditions, evalVars, logVars>>
    \/ part = "list" /\ ListNext
       /\ UNCHANGED <<part, storeVars, modalVars, conditions, evalVars, logVars>>
    \/ part = "form" /\ FormNext
       /\ UNCHANGED <<part, storeVars, modalVars, listVars, evalVars, logVars>>
    \/ part = "eval" /\ EvalNext
       /\ UNCHANGED <<part, storeVars, modalVars, listVars, conditions, logVars>>
    \/ part = "log" /\ LogNext
       /\ UNCHANGED <<part, storeVars, modalVars, listVars, conditions, evalVars>>

Spec == Init /\ [][Next]_<<part, storeVars, modalVars, listVars, conditions, evalVars, logVars>>

===============================================================================
