----------------------------- MODULE MCAsyncTask -----------------------------
(* A small instance of AsyncTask for TLC: two coroutines share the task.   *)
EXTENDS AsyncTask

CONSTANTS a1, a2

TwoAwaiters == {a1, a2}
=============================================================================
