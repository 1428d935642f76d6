------------------------------- MODULE Future -------------------------------
(***************************************************************************)
(* What a task promises to the coroutines that await it: it is settled     *)
(* once, with a value or an exception, and whoever waits for it is         *)
(* answered at most once each time it asks, never before it is settled,    *)
(* and always reads what it was settled with.  A waiter may be lost, and   *)
(* is then never answered.                                                 *)
(***************************************************************************)
CONSTANT Waiters

VARIABLES
  outcome,    (* "none", or what the task was settled with                 *)
  state,      (* of each waiter: "away", "waiting", "answered" or "lost"   *)
  read        (* what each waiter has read so far                          *)

futureVars == <<outcome, state, read>>

Init ==
  /\ outcome = "none"
  /\ state = [c \in Waiters |-> "away"]
  /\ read = [c \in Waiters |-> {}]

Settled == outcome # "none"

Settle ==
  /\ ~Settled
  /\ outcome' \in {"value", "exception"}
  /\ UNCHANGED <<state, read>>

Goes(c, from, to) ==
  /\ state[c] = from /\ state' = [state EXCEPT ![c] = to]
  /\ UNCHANGED outcome

Ask(c)       == Goes(c, "away", "waiting") /\ UNCHANGED read
AskLate(c)   == Settled /\ Goes(c, "away", "answered") /\ UNCHANGED read
Answer(c)    == Settled /\ Goes(c, "waiting", "answered") /\ UNCHANGED read
Lose(c)      == Goes(c, "waiting", "lost") /\ UNCHANGED read
Read(c)      ==
  /\ Goes(c, "answered", "away")
  /\ read' = [read EXCEPT ![c] = @ \cup {outcome}]

Next ==
  \/ Settle
  \/ \E c \in Waiters : Ask(c) \/ AskLate(c) \/ Answer(c) \/ Lose(c) \/ Read(c)

SafeSpec == Init /\ [][Next]_futureVars
=============================================================================
