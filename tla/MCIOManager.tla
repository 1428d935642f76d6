---------------------------- MODULE MCIOManager ----------------------------
(* A small instance of IOManager for TLC.                                  *)
EXTENDS IOManager

CONSTANTS c1, c2, f1

TwoCoros == {c1, c2}
OneFd    == {f1}
FirstCoro == {c1}
=============================================================================
