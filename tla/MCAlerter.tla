------------------------------ MODULE MCAlerter ------------------------------
(* Small instances of Alerter for TLC. *)
EXTENDS Alerter

CONSTANTS r1, r2, u1, u2, s1, s2
===============================================================================
