----------------------------- MODULE MCScheduler -----------------------------
(* A small instance of Scheduler for TLC. *)
EXTENDS Scheduler

CONSTANTS w1, w2

\* The threads the pool is built with.
TwoWorkers == [i \in {0, 1} |-> IF i = 0 THEN w1 ELSE w2]
==============================================================================
