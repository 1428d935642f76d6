---------------------------- MODULE MCCoroutine ----------------------------
(* A small instance of Coroutine for TLC.                                  *)
EXTENDS Coroutine

CONSTANTS c1, c2, c3

ThreeCoros == {c1, c2, c3}
=============================================================================
