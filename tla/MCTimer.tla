------------------------------ MODULE MCTimer ------------------------------
(* A small instance of Timer for TLC: sleeps with a scheduler and without. *)
EXTENDS Timer

CONSTANTS e1, e2, e3

AllSleeps       == {e1, e2, e3}
ScheduledSleeps == {e1, e2}
=============================================================================
