--------------------------- MODULE MCWorkStealing ---------------------------
(* Small instances of WorkStealing for TLC.                                *)
EXTENDS WorkStealing

CONSTANTS w1, w2, c1, f1, f2, k1

TwoWorkers == {w1, w2}
OneClient  == {c1}
TwoFuncs   == {f1, f2}
OneCont    == {k1}
=============================================================================
