------------------------------ MODULE MCScheduler ------------------------------
(* Small instances of Scheduler for TLC. *)
EXTENDS Scheduler

CONSTANTS c1, c2, h1, h2, fast, slow
===============================================================================
