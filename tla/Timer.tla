------------------------------- MODULE Timer -------------------------------
(***************************************************************************)
(* modern_coro::Timer: one thread that sleeps on a condition variable and  *)
(* resumes the coroutines whose time has come, through their scheduler if  *)
(* they have one and on the spot if not.                                   *)
(*                                                                         *)
(* timer_mutex_ is held by the timer thread except where it waits on       *)
(* timer_cv_ or delivers an event; add_timer() takes it, stop() does not.  *)
(***************************************************************************)
EXTENDS Integers, FiniteSets

CONSTANTS
  Sleeps,       (* the suspensions of the run, one event each              *)
  Scheduled,    (* those with a scheduler pointer                          *)
  MaxTime,      (* bound on the clock                                      *)
  MaxStarts     (* bound on start() calls                                  *)

Times == 0 .. MaxTime

ASSUME SleepsAssumption == IsFiniteSet(Sleeps) /\ Scheduled \subseteq Sleeps
ASSUME BoundsAssumption == MaxTime \in Nat /\ MaxStarts \in Nat

VARIABLES
  now,          (* steady_clock                                            *)
  owner,        (* start() and stop(): "idle", "flag", "notify", "join"    *)
  starts,       (* how often start() has launched the thread               *)
  started,      (* started_                                                *)
  stop,         (* stop_flag_                                              *)
  pc,           (* the timer thread                                        *)
  taken,        (* the event it popped: the empty set or a singleton       *)
  wakeAt,       (* the time point it passed to wait_until                  *)
  armed,        (* timer_queue_                                            *)
  due,          (* the time point of each sleep                            *)
  adding,       (* sleeps in add_timer() between unlock and notify_one     *)
  awake,        (* sleeps resumed, or handed to their scheduler            *)
  dropped       (* sleeps whose scheduler refused the continuation         *)

vars == <<now, owner, starts, started, stop, pc, taken, wakeAt, armed, due,
          adding, awake, dropped>>

sleepVars == <<armed, due, adding, awake, dropped>>
ownerVars == <<owner, starts, started, stop>>

Fresh == Sleeps \ (armed \cup adding \cup taken \cup awake \cup dropped)

(* Where the thread holds timer_mutex_.                                    *)
Locked == pc \in {"loop", "look", "wait", "block"}

-----------------------------------------------------------------------------
(* Faulty variants of actions below: each is a mistake this code could     *)
(* have made, and each breaks the property its comment names.              *)

(* EndsOnceNotEarly: the top is popped without a look at the clock.        *)
TakeTop(e) ==
  /\ pc = "look"
  /\ e \in armed /\ \A f \in armed : due[e] <= due[f]
  /\ armed' = armed \ {e}
  /\ taken' = {e}
  /\ pc' = "deliver"
  /\ UNCHANGED <<now, ownerVars, wakeAt, due, adding, awake, dropped>>

(* WakeupUnderWay: add_timer() does not notify.                            *)
AddTimerSilently(e, t) ==
  /\ e \in Fresh
  /\ now < t
  /\ ~Locked
  /\ due' = [due EXCEPT ![e] = t]
  /\ armed' = armed \cup {e}
  /\ UNCHANGED <<now, ownerVars, pc, taken, wakeAt, adding, awake, dropped>>

(* DueSleepEnds: the predicate of the wait forgets the queue.              *)
TestOnlyStop ==
  /\ pc = "wait"
  /\ pc' = IF stop THEN "loop" ELSE "block"
  /\ UNCHANGED <<now, ownerVars, taken, wakeAt, sleepVars>>

(* QuietWhenStopped: stop() detaches the thread instead of joining it.     *)
JoinNobody ==
  /\ owner = "join"
  /\ owner' = "idle"
  /\ UNCHANGED <<now, starts, started, stop, pc, taken, wakeAt, sleepVars>>

(* StopReturnsIfArmed: stop() notifies without having set the flag.        *)
SetNoFlag ==
  /\ owner = "flag"
  /\ owner' = "notify"
  /\ UNCHANGED <<now, starts, started, stop, pc, taken, wakeAt, sleepVars>>

Init ==
  /\ now = 0 /\ owner = "idle" /\ starts = 0
  /\ started = FALSE /\ stop = FALSE
  /\ pc = "none" /\ taken = {} /\ wakeAt = 0
  /\ armed = {} /\ due = [e \in Sleeps |-> 0]
  /\ adding = {} /\ awake = {} /\ dropped = {}

Tick ==
  /\ now < MaxTime
  /\ now' = now + 1
  /\ UNCHANGED <<ownerVars, pc, taken, wakeAt, sleepVars>>

-----------------------------------------------------------------------------
(* A sleep: await_ready() goes on at once when the time point has passed,  *)
(* else await_suspend() pushes the event and then notifies.                *)

SleepReady(e, t) ==
  /\ e \in Fresh
  /\ now >= t
  /\ due' = [due EXCEPT ![e] = t]
  /\ awake' = awake \cup {e}
  /\ UNCHANGED <<now, ownerVars, pc, taken, wakeAt, armed, adding, dropped>>

AddTimer(e, t) ==
  /\ e \in Fresh
  /\ now < t
  /\ ~Locked
  /\ due' = [due EXCEPT ![e] = t]
  /\ armed' = armed \cup {e}
  /\ adding' = adding \cup {e}
  /\ UNCHANGED <<now, ownerVars, pc, taken, wakeAt, awake, dropped>>

(* A notification ends a wait; with nobody waiting it is lost.             *)
Woken == IF pc \in {"waiting", "waitingUntil"}
           THEN IF pc = "waiting" THEN "rewait" ELSE "relock"
           ELSE pc

NotifyOne(e) ==
  /\ e \in adding
  /\ adding' = adding \ {e}
  /\ pc' = Woken
  /\ UNCHANGED <<now, ownerVars, taken, wakeAt, armed, due, awake, dropped>>

-----------------------------------------------------------------------------
(* timer_worker()                                                          *)

Enter ==
  /\ pc = "entry"
  /\ pc' = "loop"
  /\ UNCHANGED <<now, ownerVars, taken, wakeAt, sleepVars>>

Earliest(e) == e \in armed /\ \A f \in armed : due[e] <= due[f]

Leave ==
  /\ pc = "loop"
  /\ stop
  /\ pc' = "exited"
  /\ UNCHANGED <<now, ownerVars, taken, wakeAt, sleepVars>>

LookAgain ==
  /\ pc = "loop"
  /\ ~stop
  /\ pc' = "look"
  /\ UNCHANGED <<now, ownerVars, taken, wakeAt, sleepVars>>

(* The queue is empty: wait(lock, predicate).                              *)
LoopEmpty ==
  /\ pc = "look"
  /\ armed = {}
  /\ pc' = "wait"
  /\ UNCHANGED <<now, ownerVars, taken, wakeAt, sleepVars>>

(* The predicate, read under the mutex -- which stop() does not take.      *)
TestPredicate ==
  /\ pc = "wait"
  /\ pc' = IF stop \/ armed # {} THEN "loop" ELSE "block"
  /\ UNCHANGED <<now, ownerVars, taken, wakeAt, sleepVars>>

Block ==
  /\ pc = "block"
  /\ pc' = "waiting"
  /\ UNCHANGED <<now, ownerVars, taken, wakeAt, sleepVars>>

Rewait ==
  /\ pc = "rewait"
  /\ pc' = "wait"
  /\ UNCHANGED <<now, ownerVars, taken, wakeAt, sleepVars>>

(* The earliest event is due: it is popped and the mutex released.         *)
TakeDue(e) ==
  /\ pc = "look"
  /\ Earliest(e)
  /\ now >= due[e]
  /\ armed' = armed \ {e}
  /\ taken' = {e}
  /\ pc' = "deliver"
  /\ UNCHANGED <<now, ownerVars, wakeAt, due, adding, awake, dropped>>

(* Without a scheduler the coroutine is resumed here; with one it goes to  *)
(* schedule(), which may refuse it.                                        *)
Deliver ==
  /\ pc = "deliver"
  /\ \E refused \in SUBSET (taken \cap Scheduled) :
       /\ dropped' = dropped \cup refused
       /\ awake' = awake \cup (taken \ refused)
  /\ taken' = {}
  /\ pc' = "relock"
  /\ UNCHANGED <<now, ownerVars, wakeAt, armed, due, adding>>

(* The earliest event is not due: wait_until its time, without predicate.  *)
(* The mutex is held from "loop" on, but stop_flag_ is not looked at again.*)
WaitUntil(e) ==
  /\ pc = "look"
  /\ Earliest(e)
  /\ now < due[e]
  /\ wakeAt' = due[e]
  /\ pc' = "waitingUntil"
  /\ UNCHANGED <<now, ownerVars, taken, sleepVars>>

TimedOut ==
  /\ pc = "waitingUntil"
  /\ now >= wakeAt
  /\ pc' = "relock"
  /\ UNCHANGED <<now, ownerVars, taken, wakeAt, sleepVars>>

Relock ==
  /\ pc = "relock"
  /\ pc' = "loop"
  /\ UNCHANGED <<now, ownerVars, taken, wakeAt, sleepVars>>

(* The standard lets any wait return for no reason.                        *)
Spurious ==
  /\ pc \in {"waiting", "waitingUntil"}
  /\ pc' = Woken
  /\ UNCHANGED <<now, ownerVars, taken, wakeAt, sleepVars>>

-----------------------------------------------------------------------------
(* start() and stop(), called by the thread that owns the scheduler.       *)

Start ==
  /\ owner = "idle"
  /\ ~started
  /\ starts < MaxStarts
  /\ starts' = starts + 1
  /\ started' = TRUE
  /\ stop' = FALSE
  /\ pc' = "entry"
  /\ UNCHANGED <<now, owner, taken, wakeAt, sleepVars>>

BeginStop ==
  /\ owner = "idle"
  /\ started
  /\ started' = FALSE
  /\ owner' = "flag"
  /\ UNCHANGED <<now, starts, stop, pc, taken, wakeAt, sleepVars>>

SetFlag ==
  /\ owner = "flag"
  /\ stop' = TRUE
  /\ owner' = "notify"
  /\ UNCHANGED <<now, starts, started, pc, taken, wakeAt, sleepVars>>

NotifyAll ==
  /\ owner = "notify"
  /\ pc' = Woken
  /\ owner' = "join"
  /\ UNCHANGED <<now, starts, started, stop, taken, wakeAt, sleepVars>>

Join ==
  /\ owner = "join"
  /\ pc = "exited"
  /\ pc' = "none"
  /\ owner' = "idle"
  /\ UNCHANGED <<now, starts, started, stop, taken, wakeAt, sleepVars>>

-----------------------------------------------------------------------------
StopStep   == SetFlag \/ NotifyAll \/ Join
ThreadStep == Enter \/ Leave \/ LookAgain \/ LoopEmpty \/ TestPredicate \/ Block
                \/ Rewait \/ Deliver \/ TimedOut \/ Relock
                \/ \E e \in Sleeps : TakeDue(e) \/ WaitUntil(e)

Next ==
  \/ Tick \/ Start \/ BeginStop \/ StopStep \/ ThreadStep \/ Spurious
  \/ \E e \in Sleeps : NotifyOne(e)
  \/ \E e \in Sleeps, t \in Times : SleepReady(e, t) \/ AddTimer(e, t)

(* Time passes and threads that can run do; a wait that ends for no reason *)
(* is not relied on.                                                       *)
Spec ==
  /\ Init /\ [][Next]_vars
  /\ WF_vars(Tick) /\ WF_vars(StopStep) /\ WF_vars(ThreadStep)
  /\ \A e \in Sleeps : WF_vars(NotifyOne(e))

-----------------------------------------------------------------------------
(* Properties                                                              *)

(* The variables have their types.                                         *)
TypeOK ==
  /\ now \in Times /\ wakeAt \in Times
  /\ owner \in {"idle", "flag", "notify", "join"}
  /\ starts \in 0 .. MaxStarts /\ started \in BOOLEAN /\ stop \in BOOLEAN
  /\ pc \in {"none", "entry", "loop", "look", "wait", "block", "waiting",
             "rewait", "deliver", "waitingUntil", "relock", "exited"}
  /\ due \in [Sleeps -> Times]
  /\ taken \subseteq Sleeps /\ armed \subseteq Sleeps /\ adding \subseteq Sleeps
  /\ awake \subseteq Sleeps /\ dropped \subseteq Scheduled

(* A sleep ends at most once, and never before its time: it is armed, in   *)
(* the thread's hands, over or dropped, and in the last three cases its    *)
(* time point has passed, whatever woke the thread up.                     *)
EndsOnceNotEarly ==
  /\ armed \cap (taken \cup awake \cup dropped) = {}
  /\ taken \cap (awake \cup dropped) = {} /\ awake \cap dropped = {}
  /\ \A e \in taken \cup awake \cup dropped : now >= due[e]

(* No event is unheard of: while the thread waits without a deadline and   *)
(* something is armed, or waits for longer than the earliest event allows, *)
(* some thread is still on its way to notify_one().                        *)
WakeupUnderWay ==
  /\ pc = "waiting" /\ armed # {} => adding # {}
  /\ pc = "waitingUntil" /\ (\E e \in armed : due[e] < wakeAt) => adding # {}

(* A stopped timer has no thread and has nothing in its hands: what it     *)
(* took from the queue was delivered before stop() returned.               *)
QuietWhenStopped == owner = "idle" /\ ~started => pc = "none" /\ taken = {}

(* A sleep whose time has come is ended, unless the timer is stopped.      *)
DueSleepEnds ==
  \A e \in Sleeps : e \in armed /\ started ~> e \notin armed \/ ~started

(* stop() gets past its join if an event is armed by the time it joins:    *)
(* only an empty queue can hold it up.                                     *)
StopReturnsIfArmed == owner = "join" /\ armed # {} ~> owner = "idle"

(* README.md:276, "safe stop": stop(), with which Scheduler::stop() begins,*)
(* returns.  The flag is set and the notification sent without the mutex,  *)
(* so that both can fall between the thread's test and its wait.           *)
StopReturns == owner = "flag" ~> owner = "idle"
=============================================================================
