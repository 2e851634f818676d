----------------------------- MODULE MCRuleEngine -----------------------------
(* A small instance of RuleEngine for TLC. *)
EXTENDS RuleEngine, TLC

CONSTANTS r1, r2, c1, c2, c3, e1, e2, s1

\* r1 needs c1 AND c2, r2 is triggered by c3 alone.
TwoRules == (r1 :> {{c1, c2}}) @@ (r2 :> {{c3}})
===============================================================================
