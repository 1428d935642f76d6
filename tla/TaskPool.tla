------------------------------ MODULE TaskPool ------------------------------
(***************************************************************************)
(* What the schedulers of the library promise to those who submit tasks.   *)
(*                                                                         *)
(* A task is submitted from outside, waits (pending), is executed by one   *)
(* worker (running), and is then done -- or, when it is a coroutine that   *)
(* suspends, is outside again until somebody submits its continuation.     *)
(* A submission may be refused.  Once a pool that drains is closed, what   *)
(* was pending at that instant is promised: it must still be executed, and *)
(* only tasks that slipped in later may be thrown away.  One that does not *)
(* drain owes nothing to anybody once it is closed.                        *)
(***************************************************************************)
CONSTANTS
  Tasks,
  Drains      (* whether the workers empty the queues before they leave    *)

VARIABLES
  phase,      (* "new", "serving" (workers launched) or "closed"           *)
  pending,    (* accepted, not yet picked up by a worker                   *)
  running,    (* picked up by exactly one worker                           *)
  done,       (* executed to the end                                       *)
  lost,       (* refused or discarded: will never be executed              *)
  promised    (* pending when the pool was closed and not yet picked up    *)

poolVars == <<phase, pending, running, done, lost, promised>>

Known == pending \cup running \cup done \cup lost

Init ==
  /\ phase = "new"
  /\ pending = {} /\ running = {} /\ done = {} /\ lost = {}
  /\ promised = {}

Launch ==
  /\ phase = "new"
  /\ phase' = "serving"
  /\ UNCHANGED <<pending, running, done, lost, promised>>

Accept(t) ==
  /\ t \notin Known
  /\ pending' = pending \cup {t}
  /\ UNCHANGED <<phase, running, done, lost, promised>>

Refuse(t) ==
  /\ t \notin Known
  /\ lost' = lost \cup {t}
  /\ UNCHANGED <<phase, pending, running, done, promised>>

Begin(t) ==
  /\ t \in pending
  /\ phase # "new"
  /\ pending' = pending \ {t}
  /\ running' = running \cup {t}
  /\ promised' = promised \ {t}
  /\ UNCHANGED <<phase, done, lost>>

(* A coroutine suspended: its worker is free, the coroutine is nowhere.    *)
Suspend(t) ==
  /\ t \in running
  /\ running' = running \ {t}
  /\ UNCHANGED <<phase, pending, done, lost, promised>>

Finish(t) ==
  /\ t \in running
  /\ running' = running \ {t}
  /\ done' = done \cup {t}
  /\ UNCHANGED <<phase, pending, lost, promised>>

(* Only a pool that was launched owes anything to what is pending.         *)
Close ==
  /\ phase # "closed"
  /\ phase' = "closed"
  /\ promised' = IF Drains /\ phase = "serving" THEN pending ELSE {}
  /\ UNCHANGED <<pending, running, done, lost>>

Discard(S) ==
  /\ phase = "closed"
  /\ S # {}
  /\ S \subseteq pending \ promised
  /\ pending' = pending \ S
  /\ lost' = lost \cup S
  /\ UNCHANGED <<phase, running, done, promised>>

Next ==
  \/ Launch
  \/ Close
  \/ \E t \in Tasks : Accept(t) \/ Refuse(t) \/ Begin(t) \/ Suspend(t) \/ Finish(t)
  \/ \E S \in SUBSET Tasks : Discard(S)

(* A pool that serves, or that owes t its execution, gets round to t.      *)
Serve(t) == (phase = "serving" \/ t \in promised) /\ Begin(t)

SafeSpec == Init /\ [][Next]_poolVars
Spec     == SafeSpec /\ \A t \in Tasks : WF_poolVars(Serve(t))
=============================================================================
