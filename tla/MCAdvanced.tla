----------------------------- MODULE MCAdvanced -----------------------------
(* A small instance of Advanced for TLC: two tasks of the same priority    *)
(* and one above.                                                          *)
EXTENDS Advanced

CONSTANTS w1, w2, c1, f1, f2, f3, k1

TwoWorkers == {w1, w2}
OneClient  == {c1}
ThreeFuncs == {f1, f2, f3}
OneCont    == {k1}
SomePriority == [t \in ThreeFuncs |-> IF t = f3 THEN 2 ELSE 1]
=============================================================================
