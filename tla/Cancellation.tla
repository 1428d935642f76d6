---------------------------- MODULE Cancellation ----------------------------
(***************************************************************************)
(* A CancellationSource: the request to cancel, the callbacks registered   *)
(* for it through a CancellationToken, the registrations that take them    *)
(* back, and the TimeoutCancellationSource that owns a source and a thread *)
(* which cancels it when the time is over.                                 *)
(*                                                                         *)
(* A callback is registered once.  Its registration is unregistered or     *)
(* destroyed, which is the same, or overwritten by another through the     *)
(* move assignment, which forgets it.  A reentrant callback takes back its *)
(* own registration before it ends, as one does that resumes the coroutine *)
(* whose awaiter holds the registration.  No callback destroys the         *)
(* TimeoutCancellationSource.                                              *)
(***************************************************************************)
EXTENDS Naturals

CONSTANTS
  Threads,    (* those that call the source, and ...                       *)
  Timer,      (* ... the one started by the TimeoutCancellationSource      *)
  Callbacks,
  Reentrant,  (* the callbacks that call the source themselves             *)
  None        (* no thread, no callback                                    *)

ASSUME CancellationAssumption ==
  /\ Timer \in Threads /\ None \notin Threads \cup Callbacks
  /\ Reentrant \subseteq Callbacks

VARIABLES
  state,      (* state_                                                    *)
  callbacks,  (* callbacks_                                                *)
  mutex,      (* who holds mutex_ while it runs a callback                 *)
  pc,         (* where each thread is                                      *)
  then,       (* where it goes when its cancel() returns                   *)
  toCall,     (* callbacks_to_call of its cancel(), those left             *)
  current,    (* the callback it is running                                *)
  place,      (* what became of each registration                          *)
  ran,        (* how often each callback has run                           *)
  destroyed   (* the TimeoutCancellationSource's destructor was called     *)

threadVars == <<pc, then, toCall, current>>
vars == <<state, callbacks, mutex, threadVars, place, ran, destroyed>>

Init ==
  /\ state = "not cancelled" /\ callbacks = {} /\ mutex = None
  /\ pc = [t \in Threads |-> IF t = Timer THEN "asleep" ELSE "idle"]
  /\ then = [t \in Threads |-> "idle"]
  /\ toCall = [t \in Threads |-> {}]
  /\ current = [t \in Threads |-> None]
  /\ place = [r \in Callbacks |-> "none"]
  /\ ran = [r \in Callbacks |-> 0]
  /\ destroyed = FALSE
-----------------------------------------------------------------------------
(* cancel()                                                                *)

(* Breaks Returns: the callbacks are called under the lock.                *)
RequestKeepsLock(t, next) ==
  /\ mutex = None
  /\ IF state = "not cancelled"
       THEN /\ state' = "requested" /\ mutex' = t
            /\ toCall' = [toCall EXCEPT ![t] = callbacks] /\ callbacks' = {}
            /\ pc' = [pc EXCEPT ![t] = "calling"]
            /\ then' = [then EXCEPT ![t] = next]
       ELSE /\ pc' = [pc EXCEPT ![t] = next]
            /\ UNCHANGED <<state, toCall, callbacks, then, mutex>>
  /\ UNCHANGED <<current, place, ran>>

(* The part under the lock: the first takes over the callbacks, any other  *)
(* returns at once.                                                        *)
Request(t, next) ==
  /\ mutex = None
  /\ IF state = "not cancelled"
       THEN /\ state' = "requested"
            /\ toCall' = [toCall EXCEPT ![t] = callbacks] /\ callbacks' = {}
            /\ pc' = [pc EXCEPT ![t] = "calling"]
            /\ then' = [then EXCEPT ![t] = next]
       ELSE /\ pc' = [pc EXCEPT ![t] = next]
            /\ UNCHANGED <<state, toCall, callbacks, then>>
  /\ UNCHANGED <<mutex, current, place, ran>>

Cancel(t) ==
  /\ pc[t] = "idle"
  /\ Request(t, "idle")
  /\ UNCHANGED destroyed

Call(t, r) ==
  /\ pc[t] = "calling" /\ r \in toCall[t]
  /\ pc' = [pc EXCEPT ![t] = "inside"]
  /\ toCall' = [toCall EXCEPT ![t] = @ \ {r}]
  /\ current' = [current EXCEPT ![t] = r]
  /\ UNCHANGED <<state, callbacks, mutex, then, place, ran, destroyed>>

(* The end of a callback, after whatever it did with the source itself.    *)
RunOnce(t) ==
  LET r == current[t] IN
  /\ r \in Reentrant => mutex = None
  /\ ran' = [ran EXCEPT ![r] = @ + 1]
  /\ place' = [place EXCEPT ![r] =
                 IF r \in Reentrant /\ @ = "held" THEN "released" ELSE @]
  /\ current' = [current EXCEPT ![t] = None]

Called(t) ==
  /\ pc[t] = "inside"
  /\ RunOnce(t)
  /\ pc' = [pc EXCEPT ![t] = "calling"]
  /\ UNCHANGED <<state, callbacks, mutex, then, toCall, destroyed>>

Finish(t) ==
  /\ pc[t] = "calling" /\ toCall[t] = {}
  /\ state' = "cancelled"
  /\ mutex' = IF mutex = t THEN None ELSE mutex
  /\ pc' = [pc EXCEPT ![t] = then[t]]
  /\ UNCHANGED <<callbacks, then, toCall, current, place, ran, destroyed>>

-----------------------------------------------------------------------------
(* register_callback() and the registration                                *)

(* Breaks TypeOK: no return after the callback of a cancelled source.      *)
RegisterGoesOn(t, r) ==
  /\ pc[t] = "idle" /\ place[r] = "none" /\ mutex = None
  /\ callbacks' = callbacks \cup {r}
  /\ IF state = "not cancelled"
       THEN /\ place' = [place EXCEPT ![r] = "held"]
            /\ UNCHANGED <<mutex, pc, current>>
       ELSE /\ mutex' = t
            /\ pc' = [pc EXCEPT ![t] = "inline"]
            /\ current' = [current EXCEPT ![t] = r]
            /\ place' = [place EXCEPT ![r] = "late"]
  /\ UNCHANGED <<state, then, toCall, ran, destroyed>>

(* If it is too late the callback is called on the spot, under the lock.   *)
Register(t, r) ==
  /\ pc[t] = "idle" /\ place[r] = "none" /\ mutex = None
  /\ IF state = "not cancelled"
       THEN /\ callbacks' = callbacks \cup {r}
            /\ place' = [place EXCEPT ![r] = "held"]
            /\ UNCHANGED <<mutex, pc, current>>
       ELSE /\ mutex' = t
            /\ pc' = [pc EXCEPT ![t] = "inline"]
            /\ current' = [current EXCEPT ![t] = r]
            /\ place' = [place EXCEPT ![r] = "late"]
            /\ UNCHANGED callbacks
  /\ UNCHANGED <<state, then, toCall, ran, destroyed>>

RegisterReturns(t) ==
  /\ pc[t] = "inline"
  /\ RunOnce(t)
  /\ mutex' = None
  /\ pc' = [pc EXCEPT ![t] = "idle"]
  /\ UNCHANGED <<state, callbacks, then, toCall, destroyed>>

(* Breaks EachAsPromised: the callback stays in the map.                   *)
UnregisterKeepsCallback(t, r) ==
  /\ pc[t] = "idle" /\ place[r] = "held" /\ mutex = None
  /\ place' = [place EXCEPT ![r] =
                 IF state = "not cancelled" THEN "withdrawn" ELSE "released"]
  /\ UNCHANGED <<state, callbacks, mutex, threadVars, ran, destroyed>>

(* Before the request this takes the callback back; after it the callback  *)
(* may be running, or be about to run.                                     *)
Unregister(t, r) ==
  /\ pc[t] = "idle" /\ place[r] = "held" /\ mutex = None
  /\ callbacks' = callbacks \ {r}
  /\ place' = [place EXCEPT ![r] =
                 IF state = "not cancelled" THEN "withdrawn" ELSE "released"]
  /\ UNCHANGED <<state, mutex, threadVars, ran, destroyed>>

(* The move assignment drops the id without unregistering it.              *)
MoveAssign(t, r) ==
  /\ pc[t] = "idle" /\ place[r] = "held"
  /\ place' = [place EXCEPT ![r] = "forgotten"]
  /\ UNCHANGED <<state, callbacks, mutex, threadVars, ran, destroyed>>

-----------------------------------------------------------------------------
(* TimeoutCancellationSource                                               *)

TimeOver ==
  /\ pc[Timer] = "asleep"
  /\ Request(Timer, "exited")
  /\ UNCHANGED destroyed

(* The destructor cancels, and joins the thread, which sleeps to the end.  *)
Destroy(t) ==
  /\ pc[t] = "idle" /\ ~destroyed
  /\ destroyed' = TRUE
  /\ Request(t, "joining")

Join(t) ==
  /\ pc[t] = "joining" /\ pc[Timer] = "exited"
  /\ pc' = [pc EXCEPT ![t] = "idle"]
  /\ UNCHANGED <<state, callbacks, mutex, then, toCall, current, place, ran,
                 destroyed>>
-----------------------------------------------------------------------------
Step(t) ==
  \/ \E r \in Callbacks : Call(t, r)
  \/ Called(t) \/ Finish(t) \/ RegisterReturns(t) \/ Join(t)

Next ==
  \/ TimeOver
  \/ \E t \in Threads : Step(t) \/ Cancel(t) \/ Destroy(t)
  \/ \E t \in Threads, r \in Callbacks :
       Register(t, r) \/ Unregister(t, r) \/ MoveAssign(t, r)

(* Callbacks come to an end, and time passes.                              *)
Fairness == WF_vars(TimeOver) /\ \A t \in Threads : WF_vars(Step(t))

SafeSpec == Init /\ [][Next]_vars
Spec == SafeSpec /\ Fairness
-----------------------------------------------------------------------------
(* Types; a callback runs once at most, and one in the map is one whose    *)
(* registration came in time and was not taken back.                       *)
TypeOK ==
  /\ state \in {"not cancelled", "requested", "cancelled"}
  /\ callbacks \subseteq {r \in Callbacks : place[r] \in {"held", "forgotten"}}
  /\ mutex \in Threads \cup {None}
  /\ pc \in [Threads -> {"idle", "asleep", "calling", "inside", "inline",
                         "joining", "exited"}]
  /\ then \in [Threads -> {"idle", "joining", "exited"}]
  /\ toCall \in [Threads -> SUBSET Callbacks]
  /\ current \in [Threads -> Callbacks \cup {None}]
  /\ place \in [Callbacks -> {"none", "held", "withdrawn", "released",
                              "forgotten", "late"}]
  /\ ran \in [Callbacks -> 0 .. 1]
  /\ destroyed \in BOOLEAN

(* A registration taken back before the request has the effect its caller  *)
(* expects: the callback never runs.  Any other callback has run when the  *)
(* state says cancelled, whoever races with the request; one registered    *)
(* too late is the last to run, inside its own registration.               *)
EachAsPromised ==
  \A r \in Callbacks :
    /\ place[r] = "withdrawn" => ran[r] = 0
    /\ state = "cancelled" /\ place[r] \in {"held", "released", "forgotten"}
         => ran[r] = 1
    /\ place[r] = "late" /\ ran[r] = 0 => \E t \in Threads : current[t] = r

(* A thread registers a reentrant callback with a cancelled source: the    *)
(* callback waits for the mutex its own thread holds.                      *)
SelfLocked ==
  \E t \in Threads : pc[t] = "inline" /\ current[t] \in Reentrant

(* Every call returns, the destructor's wait for its thread included,      *)
(* unless a thread has locked itself out.                                  *)
Returns ==
  \A t \in Threads :
    pc[t] # "idle" ~> (pc[t] \in {"idle", "exited"} \/ SelfLocked)
=============================================================================
