----------------------------- MODULE AsyncTask -----------------------------
(***************************************************************************)
(* modern_coro::AsyncTask<T>: a state shared by whoever produces an outcome *)
(* (a detached thread, or a callback) and the coroutines that co_await it. *)
(* It has room for one value, one exception and one continuation, all      *)
(* under the state's mutex; `completed' is also read without it.           *)
(*                                                                         *)
(* "maker" is the thread inside from_sync, from_callback or from_future;   *)
(* "helper" is the thread these start, or the one the callback was handed  *)
(* to.  T is not void.  The schedulers concerned outlive the task.         *)
(***************************************************************************)
EXTENDS Naturals, FiniteSets

CONSTANTS
  Awaiters,     (* coroutines that co_await the task or a copy of it       *)
  MaxAwaits,    (* bound on how often each does                            *)
  None          (* no coroutine                                            *)

ASSUME AwaitersAssumption ==
  IsFiniteSet(Awaiters) /\ None \notin Awaiters /\ MaxAwaits \in Nat

Producers == {"maker", "helper"}

VARIABLES
  source,       (* which from_ function made the task                      *)
  captured,     (* current_scheduler of the maker is not null              *)
  handed,       (* the callback was called or handed to another thread     *)
  value,        (* SharedState::value: unset, set or moved from            *)
  exception,    (* SharedState::exception is set                           *)
  completed,    (* SharedState::completed                                  *)
  continuation, (* SharedState::continuation                               *)
  scheduler,    (* SharedState::scheduler is not null                      *)
  producer,     (* where each producer is                                  *)
  taken,        (* the continuation each took out of the state             *)
  target,       (* target_scheduler of each is not null                    *)
  awaiter,      (* where each coroutine is                                 *)
  inFlight,     (* how often each is in a queue, or in a thread, to resume *)
  got,          (* what await_resume() gave each so far                    *)
  awaits,       (* bound: how often each has awaited                       *)
  dropped,      (* coroutines whose resumption a scheduler refused         *)
  replaced      (* coroutines whose continuation another one overwrote     *)

stateVars    == <<value, exception, completed, continuation, scheduler>>
producerVars == <<source, captured, handed, producer, taken, target>>
awaiterVars  == <<awaiter, inFlight, got, awaits, dropped, replaced>>
vars == <<stateVars, producerVars, awaiterVars>>

(* The places a resumption of c can be in.                                 *)
One(holds) == IF holds THEN 1 ELSE 0

Holders(c) ==
  One(continuation = c) + One(taken["maker"] = c) + One(taken["helper"] = c)
    + One(awaiter[c] = "posting") + inFlight[c]

(* The ways the library documents or admits of losing an awaiter.          *)
Stranded(c) == c \in dropped \cup replaced

(* The function, callback or future ended without an outcome.              *)
Abandoned == producer["helper"] = "swallowed"

-----------------------------------------------------------------------------
(* Faulty variants: each breaks the property its comment names.            *)

(* Resumes: the registration does not look at completed.                   *)
RegisterUnchecked(c) ==
  /\ awaiter[c] = "suspending"
  /\ continuation' = c
  /\ awaiter' = [awaiter EXCEPT ![c] = "suspended"]
  /\ replaced' = replaced \cup ({continuation} \ {None})
  /\ \E s \in BOOLEAN : scheduler' = (scheduler \/ s)
  /\ UNCHANGED <<value, exception, completed, producerVars, inFlight, got,
                 awaits, dropped>>

(* OutcomeReady: the registration fails although nothing is there yet.     *)
RegisterRefuses(c) ==
  /\ awaiter[c] = "suspending"
  /\ awaiter' = [awaiter EXCEPT ![c] = "posting"]
  /\ UNCHANGED <<stateVars, producerVars, inFlight, got, awaits, dropped, replaced>>

(* HeldOnce: the continuation is copied out but not cleared.               *)
CompleteKeepsContinuation(p) ==
  /\ producer[p] \in {"value", "exception"}
  /\ value' = IF producer[p] = "value" THEN "set" ELSE value
  /\ exception' = (exception \/ producer[p] = "exception")
  /\ completed' = TRUE
  /\ taken' = [taken EXCEPT ![p] = continuation]
  /\ target' = [target EXCEPT ![p] = scheduler \/ captured]
  /\ scheduler' = FALSE
  /\ producer' = [producer EXCEPT ![p] = "post"]
  /\ UNCHANGED <<continuation, source, captured, handed, awaiterVars>>

(* SameOutcome: a value is preferred to an exception.                      *)
AwaitResumeValueFirst(c) ==
  /\ awaiter[c] = "resuming"
  /\ got' = [got EXCEPT ![c] = @ \cup
       {CASE ~completed -> "incomplete" [] value # "unset" -> value
          [] exception -> "exception" [] OTHER -> "missing"}]
  /\ value' = IF value = "set" THEN "moved" ELSE value
  /\ awaiter' = [awaiter EXCEPT ![c] = "running"]
  /\ UNCHANGED <<exception, completed, continuation, scheduler, producerVars,
                 inFlight, awaits, dropped, replaced>>

(* FutureSafe: the state has room for one of the two, and the last writer  *)
(* wins.                                                                   *)
CompleteLastWins(p) ==
  /\ producer[p] \in {"value", "exception"}
  /\ value' = IF producer[p] = "value" THEN "set" ELSE "unset"
  /\ exception' = (producer[p] = "exception")
  /\ completed' = TRUE
  /\ taken' = [taken EXCEPT ![p] = continuation]
  /\ target' = [target EXCEPT ![p] = scheduler \/ captured]
  /\ continuation' = None
  /\ scheduler' = FALSE
  /\ producer' = [producer EXCEPT ![p] = "post"]
  /\ UNCHANGED <<source, captured, handed, awaiterVars>>

-----------------------------------------------------------------------------
Init ==
  /\ source \in {"sync", "callback", "future"} /\ captured \in BOOLEAN
  /\ handed = FALSE
  /\ value = "unset" /\ exception = FALSE /\ completed = FALSE
  /\ continuation = None /\ scheduler = FALSE
  /\ producer = [p \in Producers |-> IF p = "maker" THEN "work" ELSE "none"]
  /\ taken = [p \in Producers |-> None]
  /\ target = [p \in Producers |-> FALSE]
  /\ awaiter = [c \in Awaiters |-> "running"]
  /\ inFlight = [c \in Awaiters |-> 0]
  /\ got = [c \in Awaiters |-> {}]
  /\ awaits = [c \in Awaiters |-> 0]
  /\ dropped = {} /\ replaced = {}

-----------------------------------------------------------------------------
(* The thread inside from_sync(), from_callback() or from_future()         *)

GoTo(p, l) == producer' = [producer EXCEPT ![p] = l]

(* from_sync and from_future start a thread and are through.               *)
StartThread ==
  /\ source \in {"sync", "future"} /\ producer["maker"] = "work"
  /\ producer' = [producer EXCEPT !["maker"] = "done", !["helper"] = "work"]
  /\ handed' = TRUE
  /\ UNCHANGED <<stateVars, source, captured, taken, target, awaiterVars>>

(* async_func, given to from_callback, is called at once.  It may hand the *)
(* callback to another thread or call it itself, once at most ...          *)
HandOver ==
  /\ source = "callback" /\ producer["maker"] = "work" /\ ~handed
  /\ handed' = TRUE
  /\ \/ GoTo("helper", "work")
     \/ GoTo("maker", "value")
  /\ UNCHANGED <<stateVars, source, captured, taken, target, awaiterVars>>

(* ... and then returns, or throws, whether it has called it or not.       *)
FuncReturns ==
  /\ source = "callback" /\ producer["maker"] = "work" /\ handed
  /\ GoTo("maker", "done")
  /\ UNCHANGED <<stateVars, source, captured, handed, taken, target, awaiterVars>>

FuncThrows ==
  /\ source = "callback" /\ producer["maker"] = "work"
  /\ GoTo("maker", "exception")
  /\ UNCHANGED <<stateVars, source, captured, handed, taken, target, awaiterVars>>

-----------------------------------------------------------------------------
(* The thread that produces the outcome                                    *)

HelperValue ==
  /\ producer["helper"] = "work"
  /\ GoTo("helper", "value")
  /\ UNCHANGED <<stateVars, source, captured, handed, taken, target, awaiterVars>>

(* from_sync passes an exception on; from_future catches and forgets it.   *)
HelperThrows ==
  /\ producer["helper"] = "work" /\ source # "callback"
  /\ GoTo("helper", IF source = "sync" THEN "exception" ELSE "swallowed")
  /\ UNCHANGED <<stateVars, source, captured, handed, taken, target, awaiterVars>>

(* set_value(), set_exception(): the part under the mutex.                 *)
Complete(p) ==
  /\ producer[p] \in {"value", "exception"}
  /\ value' = IF producer[p] = "value" THEN "set" ELSE value
  /\ exception' = (exception \/ producer[p] = "exception")
  /\ completed' = TRUE
  /\ taken' = [taken EXCEPT ![p] = continuation]
  /\ target' = [target EXCEPT ![p] = scheduler \/ captured]
  /\ continuation' = None
  /\ scheduler' = FALSE
  /\ GoTo(p, "post")
  /\ UNCHANGED <<source, captured, handed, awaiterVars>>

(* A resumption is handed over: a scheduler may refuse it, a new thread,   *)
(* taken when there is no scheduler, cannot.                               *)
Post(c, onScheduler) ==
  \/ /\ inFlight' = [inFlight EXCEPT ![c] = @ + 1]
     /\ dropped' = dropped
  \/ /\ onScheduler
     /\ dropped' = dropped \cup {c}
     /\ inFlight' = inFlight

(* The part after the mutex.  The maker goes on with async_func if it was  *)
(* a callback that it called, and is through if that threw.                *)
Dispatch(p) ==
  /\ producer[p] = "post"
  /\ IF taken[p] = None THEN UNCHANGED <<inFlight, dropped>>
                        ELSE Post(taken[p], target[p])
  /\ taken' = [taken EXCEPT ![p] = None]
  /\ GoTo(p, IF p = "maker" /\ ~exception THEN "work" ELSE "done")
  /\ UNCHANGED <<stateVars, source, captured, handed, target, awaiter, got,
                 awaits, replaced>>

-----------------------------------------------------------------------------
(* co_await                                                                *)

(* await_ready(): completed is read without the mutex.                     *)
Await(c) ==
  /\ awaiter[c] = "running" /\ producer["maker"] = "done"
  /\ awaits[c] < MaxAwaits
  /\ awaits' = [awaits EXCEPT ![c] = @ + 1]
  /\ awaiter' = [awaiter EXCEPT ![c] = IF completed THEN "resuming" ELSE "suspending"]
  /\ UNCHANGED <<stateVars, producerVars, inFlight, got, dropped, replaced>>

(* register_continuation(); s is whether the thread has a scheduler.       *)
Register(c) ==
  /\ awaiter[c] = "suspending"
  /\ IF completed
       THEN /\ awaiter' = [awaiter EXCEPT ![c] = "posting"]
            /\ UNCHANGED <<continuation, scheduler, replaced>>
       ELSE /\ awaiter' = [awaiter EXCEPT ![c] = "suspended"]
            /\ replaced' = replaced \cup ({continuation} \ {None})
            /\ continuation' = c
            /\ \E s \in BOOLEAN : scheduler' = (scheduler \/ s)
  /\ UNCHANGED <<value, exception, completed, producerVars, inFlight, got,
                 awaits, dropped>>

(* await_suspend() found the task completed: it posts the resumption.      *)
PostSelf(c) ==
  /\ awaiter[c] = "posting"
  /\ awaiter' = [awaiter EXCEPT ![c] = "suspended"]
  /\ \E s \in BOOLEAN : Post(c, s)
  /\ UNCHANGED <<stateVars, producerVars, got, awaits, replaced>>

(* A worker or a thread calls resume().                                    *)
Resume(c) ==
  /\ inFlight[c] > 0
  /\ inFlight' = [inFlight EXCEPT ![c] = @ - 1]
  /\ awaiter' = [awaiter EXCEPT ![c] = "resuming"]
  /\ UNCHANGED <<stateVars, producerVars, got, awaits, dropped, replaced>>

(* await_resume(): an exception comes before a value, and a value is moved *)
(* out of the state.                                                       *)
AwaitResume(c) ==
  /\ awaiter[c] = "resuming"
  /\ got' = [got EXCEPT ![c] = @ \cup
       {CASE ~completed -> "incomplete" [] completed /\ exception -> "exception"
          [] completed /\ ~exception /\ value # "unset" -> value
          [] OTHER -> "missing"}]
  /\ value' = IF completed /\ value = "set" THEN "moved" ELSE value
  /\ awaiter' = [awaiter EXCEPT ![c] = "running"]
  /\ UNCHANGED <<exception, completed, continuation, scheduler, producerVars,
                 inFlight, awaits, dropped, replaced>>

-----------------------------------------------------------------------------
MakerStep     == StartThread \/ HandOver \/ FuncReturns \/ FuncThrows
HelperStep    == HelperValue \/ HelperThrows
AwaiterStep(c) == Register(c) \/ PostSelf(c) \/ Resume(c) \/ AwaitResume(c)

Next ==
  \/ MakerStep \/ HelperStep
  \/ \E p \in Producers : Complete(p) \/ Dispatch(p)
  \/ \E c \in Awaiters : Await(c) \/ AwaiterStep(c)

SafeSpec == Init /\ [][Next]_vars

(* Threads run; the function, the future and async_func end.               *)
Fairness ==
  /\ WF_vars(MakerStep) /\ WF_vars(HelperStep)
  /\ \A p \in Producers : WF_vars(Complete(p) \/ Dispatch(p))
  /\ \A c \in Awaiters : WF_vars(AwaiterStep(c))

Spec == SafeSpec /\ Fairness

-----------------------------------------------------------------------------
(* Properties                                                              *)

(* Every variable has its type, a continuation is only kept in a state     *)
(* that is not completed, and the helper works for the maker.              *)
TypeOK ==
  /\ source \in {"sync", "callback", "future"}
  /\ captured \in BOOLEAN /\ handed \in BOOLEAN
  /\ value \in {"unset", "set", "moved"}
  /\ exception \in BOOLEAN /\ completed \in BOOLEAN /\ scheduler \in BOOLEAN
  /\ continuation \in Awaiters \cup {None}
  /\ continuation # None => ~completed
  /\ producer \in [Producers -> {"none", "work", "value", "exception", "post",
                                 "done", "swallowed"}]
  /\ taken \in [Producers -> Awaiters \cup {None}]
  /\ target \in [Producers -> BOOLEAN]
  /\ \A p \in Producers : taken[p] # None => producer[p] = "post"
  /\ handed \/ producer["helper"] = "none"
  /\ source # "callback" => producer["maker"] = IF handed THEN "done" ELSE "work"
  /\ awaiter \in [Awaiters -> {"running", "suspending", "posting", "suspended",
                               "resuming"}]
  /\ inFlight \in [Awaiters -> Nat]
  /\ got \in [Awaiters -> SUBSET {"set", "moved", "exception", "incomplete", "missing"}]
  /\ awaits \in [Awaiters -> 0 .. MaxAwaits]
  /\ dropped \subseteq Awaiters /\ replaced \subseteq Awaiters

(* Producer and awaiter never both resume a coroutine, and never both      *)
(* leave it to the other: a suspended coroutine has exactly one resumption *)
(* on its way (unless a scheduler dropped it or another awaiter took its   *)
(* place), one that is not suspended has none.                             *)
HeldOnce ==
  \A c \in Awaiters :
    Holders(c) = IF awaiter[c] \in {"posting", "suspended"} /\ ~Stranded(c)
                   THEN 1 ELSE 0

(* A coroutine that goes on finds the outcome in the state: the two        *)
(* runtime errors of await_resume(), "not completed" and "result not set", *)
(* are never thrown, although completed is read without the mutex.         *)
OutcomeReady ==
  \A c \in Awaiters :
    awaiter[c] = "resuming" => completed /\ (exception \/ value # "unset")

(* A task whose callback was called, or is still to be called, and whose   *)
(* async_func then threw has an outcome twice: whoever awaits it, and      *)
(* however often, sees either values or the exception, never both.         *)
SameOutcome ==
  \A c, d \in Awaiters : "exception" \in got[c] => got[d] \subseteq {"exception"}

(* All of this as one promise: a Future, settled when the task is complete *)
(* and has left the from_ function that made it (until then a value may    *)
(* still be followed by an exception).  It is settled once, nobody is      *)
(* answered before, and everybody reads what it was settled with, however  *)
(* often the state is written and a value moved out of it.                 *)
Settled == completed /\ producer["maker"] = "done"

Seen(g) == IF g \in {"set", "moved"} THEN "value" ELSE g

Outcome == INSTANCE Future WITH
  Waiters <- Awaiters,
  outcome <- IF ~Settled THEN "none" ELSE IF exception THEN "exception" ELSE "value",
  state   <- [c \in Awaiters |->
                CASE awaiter[c] = "running"                    -> "away"
                  [] awaiter[c] = "resuming"                   -> "answered"
                  [] awaiter[c] = "suspended" /\ Stranded(c)   -> "lost"
                  [] OTHER                                     -> "waiting"],
  read    <- [c \in Awaiters |-> {Seen(g) : g \in got[c]}]

FutureSafe == Outcome!SafeSpec

(* A coroutine that has suspended on the task goes on, unless its          *)
(* resumption was refused, another awaiter took its place or the future    *)
(* threw.                                                                  *)
Resumes ==
  \A c \in Awaiters :
    awaiter[c] = "suspended" ~> awaiter[c] # "suspended" \/ Stranded(c) \/ Abandoned
=============================================================================
