----------------------------- MODULE Coroutine -----------------------------
(***************************************************************************)
(* Task<T> and its promise: creation, co_await of a Task by another        *)
(* coroutine, the final suspension and who resumes the awaiting coroutine  *)
(* where; and the two registries every coroutine enters at creation and    *)
(* leaves at its end, CoroutineLifecycleManager and                        *)
(* AdvancedCoroutineLifecycleManager, with graceful_shutdown() and         *)
(* check_leaks(), which destroy the frames they find there.                *)
(*                                                                         *)
(* A Task has one owner, the coroutine (or the application thread) that    *)
(* created it; it is awaited, or given to Scheduler::schedule, once at     *)
(* most.  There is one scheduler, which outlives the coroutines, and       *)
(* threads it does not know: detached ones and those of the application.   *)
(* Its queues, which other functions of the application may fill at any    *)
(* time, and the count of active coroutines are in module Scheduler.       *)
(***************************************************************************)
EXTENDS Naturals, FiniteSets

CONSTANTS
  Coros,        (* coroutines                                              *)
  MaxWaits,     (* bound on the waits for timers, descriptors and the like *)
  None          (* no coroutine                                            *)

ASSUME CoroutineAssumption ==
  IsFiniteSet(Coros) /\ None \notin Coros /\ MaxWaits \in Nat

VARIABLES
  pc,            (* where each coroutine is                                *)
  owner,         (* who created its Task; None: the application            *)
  schedulerPtr,  (* promise.scheduler_ptr_ is not null                     *)
  continuation,  (* promise.continuation_                                  *)
  onScheduler,   (* the thread it runs on, or was posted to, has a current *)
                 (* scheduler                                              *)
  posted,        (* how many functions that resume it wait to be called    *)
  inQueue,       (* those whose function is in a queue of the scheduler    *)
  external,      (* those a timer, descriptor or the like will resume      *)
  awaited,       (* the coroutine whose Task each awaits                   *)
  stopped,       (* the scheduler's stop_flag_                             *)
  refused,       (* coroutines whose resumption the scheduler dropped      *)
  registry,      (* CoroutineLifecycleManager::active_coroutines_          *)
  infos,         (* AdvancedCoroutineLifecycleManager::active_coroutines_  *)
  created,       (* total_created_                                         *)
  ended,         (* total_destroyed_                                       *)
  shutdown,      (* graceful_shutdown() is waiting, or where it is then    *)
  doomed,        (* the handles force_cleanup_all() collected              *)
  destroyed,     (* frames destroyed                                       *)
  waits          (* bound                                                  *)

promiseVars  == <<schedulerPtr, continuation>>
runVars      == <<onScheduler, posted, inQueue, external, awaited, refused,
                  waits>>
registryVars == <<registry, infos, created, ended>>
cleanupVars  == <<shutdown, doomed, destroyed>>
vars == <<pc, owner, promiseVars, runVars, stopped, registryVars, cleanupVars>>

(* A frame that runs its body and is not inside the creation of a Task.    *)
InBody(c) ==
  /\ pc[c] = "running" /\ c \notin destroyed
  /\ \A d \in Coros : owner[d] = c => pc[d] # "registering"

(* handle.done(): the frame is suspended at its final suspension point.    *)
Done(c) == pc[c] \in {"final", "done"}

(* Who will resume c: a function in a queue or thread, whatever it waits   *)
(* for, or the final awaiter of the coroutine it awaits.                   *)
Holders(c) ==
  posted[c] + (IF c \in external THEN 1 ELSE 0)
    + Cardinality({d \in Coros : continuation[d] = c /\ pc[d] # "done"})

(* The function that resumes c is in a queue (s) or a thread of its own.   *)
Accept(c, s) ==
  /\ posted' = [posted EXCEPT ![c] = @ + 1]
  /\ inQueue' = IF s THEN inQueue \cup {c} ELSE inQueue
  /\ UNCHANGED refused

(* Scheduler::schedule(func) returns without it: the flag is up, or the    *)
(* queue it drew has reached its limit.                                    *)
Drop(c) == refused' = refused \cup {c} /\ UNCHANGED <<posted, inQueue>>

(* schedule_coroutine_task on a thread with (s) or without a scheduler.    *)
Post(c, s) ==
  \/ (s => ~stopped) /\ Accept(c, s)
  \/ s /\ Drop(c)
-----------------------------------------------------------------------------
Init ==
  /\ pc = [c \in Coros |-> "unborn"]
  /\ owner = [c \in Coros |-> None]
  /\ schedulerPtr = [c \in Coros |-> FALSE]
  /\ continuation = [c \in Coros |-> None]
  /\ onScheduler = [c \in Coros |-> FALSE]
  /\ posted = [c \in Coros |-> 0] /\ inQueue = {}
  /\ external = {}
  /\ awaited = [c \in Coros |-> None]
  /\ stopped = FALSE /\ refused = {}
  /\ registry = {} /\ infos = {} /\ created = 0 /\ ended = 0
  /\ shutdown = "waiting" /\ doomed = {} /\ destroyed = {}
  /\ waits = 0

-----------------------------------------------------------------------------
(* Creation: initial_suspend                                               *)

(* The first registry.  The application's own thread has no scheduler.     *)
Create(p, c) ==
  /\ pc[c] = "unborn"
  /\ p # None => InBody(p)
  /\ pc' = [pc EXCEPT ![c] = "registering"]
  /\ owner' = [owner EXCEPT ![c] = p]
  /\ schedulerPtr' = [schedulerPtr EXCEPT ![c] = p # None /\ onScheduler[p]]
  /\ registry' = registry \cup {c}
  /\ UNCHANGED <<continuation, runVars, stopped, infos, created, ended,
                 cleanupVars>>

(* The second, with a CancellationSource of its own.                       *)
RegisterInfo(c) ==
  /\ pc[c] = "registering"
  /\ pc' = [pc EXCEPT ![c] = "created"]
  /\ infos' = infos \cup {c}
  /\ created' = created + 1
  /\ UNCHANGED <<owner, promiseVars, runVars, stopped, registry, ended,
                 cleanupVars>>

-----------------------------------------------------------------------------
(* Running and waiting                                                     *)

(* The application gives its Task to Scheduler::schedule(Task&&), which    *)
(* looks neither at the flag nor at the size of the queue.                 *)
Schedule(c) ==
  /\ pc[c] = "created" /\ owner[c] = None
  /\ pc' = [pc EXCEPT ![c] = "suspended"]
  /\ onScheduler' = [onScheduler EXCEPT ![c] = TRUE]
  /\ Accept(c, TRUE)
  /\ UNCHANGED <<owner, promiseVars, external, awaited, waits, stopped,
                 registryVars, cleanupVars>>

(* co_await of a Task that has not begun: Task::await_suspend posts the    *)
(* function that begins it, on the thread of p's scheduler or a new one.   *)
Await(p, c) ==
  /\ InBody(p) /\ pc[c] = "created" /\ owner[c] = p
  /\ continuation' = [continuation EXCEPT ![c] = p]
  /\ schedulerPtr' = [schedulerPtr EXCEPT ![c] = @ \/ onScheduler[p]]
  /\ pc' = [pc EXCEPT ![p] = "suspended", ![c] = "suspended"]
  /\ awaited' = [awaited EXCEPT ![p] = c]
  /\ onScheduler' = [onScheduler EXCEPT ![c] =
                       onScheduler[p] \/ schedulerPtr'[c]]
  /\ Post(c, onScheduler[p])
  /\ UNCHANGED <<owner, external, waits, stopped, registryVars, cleanupVars>>

(* Another awaiter: a timer, a descriptor, a YieldAwaiter.                 *)
WaitElsewhere(c) ==
  /\ InBody(c) /\ waits < MaxWaits
  /\ pc' = [pc EXCEPT ![c] = "suspended"]
  /\ external' = external \cup {c}
  /\ waits' = waits + 1
  /\ UNCHANGED <<owner, promiseVars, onScheduler, posted, inQueue, awaited,
                 refused, stopped, registryVars, cleanupVars>>

(* ... which posts c to the scheduler (s), or resumes it itself, on a      *)
(* thread with a current scheduler (r, as I/O threads have) or without.    *)
ExternalDone(c) ==
  /\ c \in external
  /\ external' = external \ {c}
  /\ \E s, r \in BOOLEAN :
       (s => r) /\ onScheduler' = [onScheduler EXCEPT ![c] = r] /\ Post(c, s)
  /\ UNCHANGED <<pc, owner, promiseVars, awaited, waits, stopped,
                 registryVars, cleanupVars>>

(* A function that resumes c is called.                                    *)
Resume(c) ==
  /\ posted[c] > 0 /\ pc[c] = "suspended" /\ c \notin destroyed
  /\ posted' = [posted EXCEPT ![c] = @ - 1]
  /\ inQueue' = inQueue \ {c}
  /\ pc' = [pc EXCEPT ![c] = "running"]
  /\ awaited' = [awaited EXCEPT ![c] = None]
  /\ UNCHANGED <<owner, promiseVars, onScheduler, external, waits, refused,
                 stopped, registryVars, cleanupVars>>

-----------------------------------------------------------------------------
(* The end: final_suspend and the final awaiter                            *)

(* Breaks ResultReady: final_suspend() itself posts the continuation.      *)
UnregisterAndPost(c) ==
  /\ InBody(c)
  /\ pc' = [pc EXCEPT ![c] = "leaving"]
  /\ registry' = registry \ {c}
  /\ IF continuation[c] # None THEN Post(continuation[c], onScheduler[c])
                              ELSE UNCHANGED <<posted, inQueue, refused>>
  /\ UNCHANGED <<owner, promiseVars, onScheduler, external, awaited, waits,
                 stopped, infos, created, ended, cleanupVars>>

Unregister(c) ==
  /\ InBody(c)
  /\ pc' = [pc EXCEPT ![c] = "leaving"]
  /\ registry' = registry \ {c}
  /\ UNCHANGED <<owner, promiseVars, runVars, stopped, infos, created, ended,
                 cleanupVars>>

UnregisterInfo(c) ==
  /\ pc[c] = "leaving"
  /\ pc' = [pc EXCEPT ![c] = "returning"]
  /\ infos' = infos \ {c}
  /\ ended' = IF c \in infos THEN ended + 1 ELSE ended
  /\ UNCHANGED <<owner, promiseVars, runVars, stopped, registry, created,
                 cleanupVars>>

(* The rest of final_suspend(), which reads and writes the promise; only   *)
(* after it is the frame suspended at its end.                             *)
FinalSuspend(c) ==
  /\ pc[c] = "returning" /\ c \notin destroyed
  /\ pc' = [pc EXCEPT ![c] = "final"]
  /\ UNCHANGED <<owner, promiseVars, runVars, stopped, registryVars,
                 cleanupVars>>

(* Breaks AwaitEnds: nobody resumes the continuation when the frame's      *)
(* thread and promise have no scheduler.                                   *)
FinalAwaitNoFallback(c) ==
  /\ pc[c] = "final"
  /\ pc' = [pc EXCEPT ![c] = "done"]
  /\ IF continuation[c] # None /\ (schedulerPtr[c] \/ onScheduler[c])
       THEN Post(continuation[c], onScheduler[c])
       ELSE UNCHANGED <<posted, inQueue, refused>>
  /\ UNCHANGED <<owner, promiseVars, onScheduler, external, awaited, waits,
                 stopped, registryVars, cleanupVars>>

(* Breaks HeldOnce: the continuation is posted, and resumed in place too.  *)
FinalAwaitBoth(c) ==
  LET p == continuation[c]
  IN /\ pc[c] = "final"
     /\ IF p = None
          THEN /\ pc' = [pc EXCEPT ![c] = "done"]
               /\ UNCHANGED <<posted, inQueue, refused, awaited>>
          ELSE /\ pc' = [pc EXCEPT ![c] = "done", ![p] = "running"]
               /\ awaited' = [awaited EXCEPT ![p] = None]
               /\ Post(p, onScheduler[c])
     /\ UNCHANGED <<owner, promiseVars, onScheduler, external, waits, stopped,
                    registryVars, cleanupVars>>

(* The continuation is posted if the promise or the thread has a scheduler *)
(* and resumed in place, inside the final awaiter, if neither has.         *)
FinalAwait(c) ==
  LET p == continuation[c]
      inPlace == ~schedulerPtr[c] /\ ~onScheduler[c]
  IN /\ pc[c] = "final"
     /\ IF p = None
          THEN /\ pc' = [pc EXCEPT ![c] = "done"]
               /\ UNCHANGED <<onScheduler, posted, inQueue, refused, awaited>>
          ELSE /\ onScheduler' = [onScheduler EXCEPT ![p] = onScheduler[c]]
               /\ IF inPlace
                    THEN /\ pc' = [pc EXCEPT ![c] = "done", ![p] = "running"]
                         /\ awaited' = [awaited EXCEPT ![p] = None]
                         /\ UNCHANGED <<posted, inQueue, refused>>
                    ELSE /\ pc' = [pc EXCEPT ![c] = "done"]
                         /\ Post(p, onScheduler[c])
                         /\ UNCHANGED awaited
     /\ UNCHANGED <<owner, promiseVars, external, waits, stopped,
                    registryVars, cleanupVars>>

-----------------------------------------------------------------------------
(* The flag goes up: schedule(func) accepts nothing more.                  *)
StopScheduler ==
  /\ ~stopped /\ stopped' = TRUE
  /\ UNCHANGED <<pc, owner, promiseVars, runVars, registryVars, cleanupVars>>

(* After the joins stop() clears the queues: what was pushed too late, or  *)
(* was in a queue without a worker, is never called.                       *)
Discard(c) ==
  /\ stopped /\ c \in inQueue /\ posted[c] > 0
  /\ posted' = [posted EXCEPT ![c] = @ - 1]
  /\ inQueue' = inQueue \ {c}
  /\ refused' = refused \cup {c}
  /\ UNCHANGED <<pc, owner, promiseVars, onScheduler, external, awaited, waits,
                 stopped, registryVars, cleanupVars>>

(* A frame is destroyed unless it is done.                                 *)
Destroy(handles) == destroyed' = destroyed \cup {c \in handles : ~Done(c)}

(* Breaks GracefulIsComplete: the other registry is looked at.             *)
AllEndedByRegistry ==
  /\ shutdown = "waiting" /\ registry = {}
  /\ shutdown' = "true"
  /\ UNCHANGED <<pc, owner, promiseVars, runVars, stopped, registryVars,
                 doomed, destroyed>>

(* graceful_shutdown(): cancel_all() asks everybody to end (module         *)
(* Cancellation), then the registry is looked at again and again, ...      *)
AllEnded ==
  /\ shutdown = "waiting" /\ infos = {}
  /\ shutdown' = "true"
  /\ UNCHANGED <<pc, owner, promiseVars, runVars, stopped, registryVars,
                 doomed, destroyed>>

(* ... until the time is over: force_cleanup_all() empties the registry,   *)
(* destroys what was in it without the lock, and sets the total.           *)
Collect ==
  /\ shutdown = "waiting" /\ infos # {}
  /\ shutdown' = "forcing"
  /\ doomed' = infos /\ infos' = {}
  /\ UNCHANGED <<pc, owner, promiseVars, runVars, stopped, registry, created,
                 ended, destroyed>>

ForceCleanup ==
  /\ shutdown = "forcing"
  /\ Destroy(doomed)
  /\ doomed' = {} /\ shutdown' = "false"
  /\ ended' = created
  /\ UNCHANGED <<pc, owner, promiseVars, runVars, stopped, registry, infos,
                 created>>

(* check_leaks() finds the first registry not empty and calls              *)
(* cleanup_all(), which empties it under its lock.                         *)
CheckLeaks ==
  /\ registry # {}
  /\ Destroy(registry)
  /\ registry' = {}
  /\ UNCHANGED <<pc, owner, promiseVars, runVars, stopped, infos, created,
                 ended, shutdown, doomed>>

-----------------------------------------------------------------------------
Step(c) ==
  \/ RegisterInfo(c) \/ Resume(c) \/ ExternalDone(c)
  \/ Unregister(c) \/ UnregisterInfo(c) \/ FinalSuspend(c) \/ FinalAwait(c)

Next ==
  \/ \E c \in Coros : Step(c) \/ Schedule(c) \/ WaitElsewhere(c) \/ Discard(c)
  \/ \E c \in Coros, p \in Coros \cup {None} : Create(p, c)
  \/ \E c \in Coros, p \in Coros : Await(p, c)
  \/ StopScheduler \/ AllEnded \/ Collect \/ ForceCleanup \/ CheckLeaks

(* Threads run what they were given, waits end and bodies come to an end.  *)
(* What is in a queue of a stopped scheduler may stay there: a push that   *)
(* came after the queues were cleared (module Scheduler says what is       *)
(* called all the same).                                                   *)
Fairness ==
  \A c \in Coros : WF_vars((stopped => c \notin inQueue) /\ Step(c))

SafeSpec == Init /\ [][Next]_vars
Spec == SafeSpec /\ Fairness
-----------------------------------------------------------------------------
TypeOK ==
  /\ pc \in [Coros -> {"unborn", "registering", "created", "suspended",
                       "running", "leaving", "returning", "final", "done"}]
  /\ owner \in [Coros -> Coros \cup {None}]
  /\ schedulerPtr \in [Coros -> BOOLEAN]
  /\ continuation \in [Coros -> Coros \cup {None}]
  /\ onScheduler \in [Coros -> BOOLEAN]
  /\ posted \in [Coros -> 0 .. 1]
  /\ inQueue \subseteq Coros
  /\ external \subseteq Coros /\ refused \subseteq Coros
  /\ awaited \in [Coros -> Coros \cup {None}]
  /\ stopped \in BOOLEAN
  /\ registry \subseteq Coros /\ infos \subseteq Coros
  /\ created \in 0 .. Cardinality(Coros) /\ ended \in Nat
  /\ shutdown \in {"waiting", "forcing", "true", "false"}
  /\ doomed \subseteq Coros /\ destroyed \subseteq Coros
  /\ waits \in 0 .. MaxWaits

(* Whatever suspends a coroutine leaves one place from which it will be    *)
(* resumed, and a running one is in none: it is never resumed twice, and   *)
(* forgotten only if the scheduler dropped the function that resumes it: a *)
(* queue was at its limit, or the scheduler was stopped.                   *)
HeldOnce ==
  \A c \in Coros :
    Holders(c) = IF pc[c] = "suspended" /\ c \notin refused THEN 1 ELSE 0

(* await_resume() finds the awaited coroutine done: get() does not throw   *)
(* "Task is not ready" into the coroutine that awaited it.                 *)
ResultReady ==
  \A p, c \in Coros : awaited[p] = c /\ posted[p] > 0 => Done(c)

(* When graceful_shutdown() returns true, no coroutine waits, runs its     *)
(* body or is yet to begin, and all those counted as created are counted   *)
(* as ended.  Two may still move: one between its two registrations, and   *)
(* one that has left both registries and is in the rest of final_suspend(). *)
GracefulIsComplete ==
  [][AllEnded =>
       /\ \A c \in Coros : \/ pc[c] \in {"unborn", "registering", "returning"}
                          \/ Done(c)
       /\ created = ended]_vars

(* "All coroutines have completed" (coroutine_cancellation.h:340) is more  *)
(* than the code provides: final_suspend() unregisters a coroutine first   *)
(* and still uses its frame.  No run; TLC refutes it.                      *)
CompletedWhenTrue ==
  [][AllEnded => \A c \in Coros : pc[c] = "unborn" \/ Done(c)]_vars

(* A coroutine that awaits another is resumed once that one is done,       *)
(* unless the scheduler drops the continuation (a queue at its limit, a    *)
(* stop), is stopped while it is in a queue, or a clean-up destroys the    *)
(* frame.                                                                  *)
AwaitEnds ==
  \A p \in Coros :
    (\E c \in Coros : awaited[p] = c /\ Done(c))
      ~> \/ awaited[p] = None \/ p \in refused \/ p \in destroyed
         \/ stopped /\ p \in inQueue
=============================================================================
