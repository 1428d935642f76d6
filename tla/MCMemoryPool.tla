---------------------------- MODULE MCMemoryPool ----------------------------
(* A small instance of MemoryPool for TLC: sizes below, between and above  *)
(* the limits.                                                             *)
EXTENDS MemoryPool

CONSTANTS s1, s2

TwoStacks == {s1, s2}
SomeRequests == {1, 3, 9}
=============================================================================
