---------------------------- MODULE MCScheduler ----------------------------
(* Small instances of Scheduler for TLC.                                   *)
EXTENDS Scheduler, TLC

CONSTANTS w1, w2, c1, c2, f1, f2, k1, k2

TwoWorkers  == {w1, w2}
OneClient   == {c1}
TwoClients  == {c1, c2}
OneFunc     == {f1}
TwoFuncs    == {f1, f2}
OneCoro     == {k1}
TwoCoros    == {k1, k2}

WorkerSymmetry == Permutations(TwoWorkers) \cup Permutations(TwoCoros)
                    \cup Permutations(TwoFuncs)
=============================================================================
