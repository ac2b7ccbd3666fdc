----------------------------- MODULE MCScheduler -----------------------------
(***************************************************************************)
(* Scheduler for TLC: two instances with a pool of two sessions each.      *)
(***************************************************************************)
EXTENDS Scheduler

CONSTANTS i1, i2, a1, a2, b1, b2, j1, j2

TwoPools == [c \in {a1, a2, b1, b2} |-> IF c \in {a1, a2} THEN i1 ELSE i2]

EarlyAndLate == [j \in {j1, j2} |-> IF j = j1 THEN 1 ELSE 3]
=============================================================================
