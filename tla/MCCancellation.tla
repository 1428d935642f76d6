--------------------------- MODULE MCCancellation ---------------------------
(* A small instance of Cancellation for TLC.                               *)
EXTENDS Cancellation

CONSTANTS t1, t2, r1, r2, r3

ThreeThreads == {t1, t2, Timer}
ThreeCallbacks == {r1, r2, r3}
OneReentrant == {r3}
=============================================================================
