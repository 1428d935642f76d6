------------------------------ MODULE Advanced ------------------------------
(***************************************************************************)
(* modern_coro::AdvancedScheduler: a priority queue per worker, filled at  *)
(* the least loaded one and emptied by its workers and by thieves.  Like   *)
(* WorkStealingScheduler it hides schedule() of the Scheduler it derives   *)
(* from: what is submitted through a Scheduler* goes to the base's queues, *)
(* and start() and stop() are the base's.                                  *)
(*                                                                         *)
(* The id of a worker comes from a counter that all AdvancedSchedulers of  *)
(* the process share.                                                      *)
(***************************************************************************)
EXTENDS Integers, FiniteSets

CONSTANTS
  Workers,        (* the threads start() creates                           *)
  Clients,        (* other threads that submit                             *)
  Funcs,          (* tasks submitted with a priority                       *)
  Conts,          (* continuations submitted through a Scheduler*          *)
  Priority,       (* of each of Funcs                                      *)
  MaxForeign,     (* bound on the ids drawn by workers of other schedulers *)
  None            (* no task                                               *)

Threads == Clients \cup Workers
N       == Cardinality(Workers)
Queues  == 0 .. N - 1

ASSUME AdvancedAssumption ==
  /\ IsFiniteSet(Workers) /\ Workers # {} /\ Workers \cap Clients = {}
  /\ IsFiniteSet(Funcs) /\ Funcs \cap Conts = {}
  /\ None \notin Funcs \cup Conts
  /\ Priority \in [Funcs -> 0 .. 3] /\ MaxForeign \in Nat

VARIABLES
  main,      (* the owner: start() and the steps of the base's stop()      *)
  stop,      (* stop_flag_                                                 *)
  queue,     (* tasks, of each ThreadQueue; task_count is its size         *)
  base,      (* what is in the base's queues                               *)
  time,      (* when each task was submitted: the clock is a counter       *)
  call,      (* where each thread is inside schedule_with_priority()       *)
  posting,   (* what each thread is about to push to a base queue          *)
  counter,   (* the counter of get_thread_id()                             *)
  foreign,   (* how many of its values went to other schedulers            *)
  id,        (* get_thread_id() of each worker                             *)
  pc,        (* where each worker is                                       *)
  victims,   (* candidates of its try_steal_task(), those left             *)
  cur,       (* the task it executes                                       *)
  done,      (* executed tasks                                             *)
  lost       (* what the base refused, dropped or cleared                  *)

workerVars == <<counter, foreign, id, pc, victims, cur>>
vars == <<main, stop, queue, base, time, call, posting, workerVars, done, lost>>

NoCall == [task |-> None, next |-> 0, least |-> 0, load |-> 0]
Queued == UNION {queue[q] : q \in Queues}
Begun  == {t \in Funcs : time[t] > 0}
Load(q) == Cardinality(queue[q])

(* The task top() returns: PriorityTask::operator<                         *)
Top(q) ==
  CHOOSE t \in queue[q] :
    \A u \in queue[q] \ {t} :
      \/ Priority[t] > Priority[u]
      \/ Priority[t] = Priority[u] /\ time[t] < time[u]

Init ==
  /\ main = "new" /\ stop = FALSE
  /\ queue = [q \in Queues |-> {}] /\ base = {}
  /\ time = [t \in Funcs |-> 0]
  /\ call = [th \in Threads |-> NoCall]
  /\ posting = [th \in Threads |-> None]
  /\ counter = 0 /\ foreign = 0 /\ id = [w \in Workers |-> 0]
  /\ pc = [w \in Workers |-> "none"]
  /\ victims = [w \in Workers |-> {}]
  /\ cur = [w \in Workers |-> None]
  /\ done = {} /\ lost = {}
-----------------------------------------------------------------------------
(* Submission, by a client or from the body of a task; the stop flag is    *)
(* not looked at                                                           *)

InCall(th)  == call[th] # NoCall \/ posting[th] # None
CanCall(th) == ~InCall(th) /\ (th \in Workers => pc[th] = "run")

Schedule(th, t) ==
  /\ CanCall(th) /\ t \notin Begun
  /\ time' = [time EXCEPT ![t] = Cardinality(Begun) + 1]
  /\ call' = [call EXCEPT ![th] =
                [task |-> t, next |-> 1, least |-> 0, load |-> Load(0)]]
  /\ UNCHANGED <<main, stop, queue, base, posting, workerVars, done, lost>>

(* The loads are read one after the other, without the locks.              *)
Compare(th) ==
  LET c == call[th] IN
  /\ c # NoCall /\ c.next < N
  /\ call' = [call EXCEPT ![th] =
                IF Load(c.next) < c.load
                  THEN [c EXCEPT !.next = @ + 1, !.least = c.next,
                                 !.load = Load(c.next)]
                  ELSE [c EXCEPT !.next = @ + 1]]
  /\ UNCHANGED <<main, stop, queue, base, time, posting, workerVars, done,
                 lost>>

Push(th) ==
  LET c == call[th] IN
  /\ c # NoCall /\ c.next = N
  /\ queue' = [queue EXCEPT ![c.least] = @ \cup {c.task}]
  /\ call' = [call EXCEPT ![th] = NoCall]
  /\ UNCHANGED <<main, stop, base, time, posting, workerVars, done, lost>>

(* Scheduler::schedule through a Scheduler*: it looks at the flag, ...     *)
ScheduleOnBase(th, t) ==
  /\ CanCall(th)
  /\ t \notin base \cup lost /\ \A u \in Threads : posting[u] # t
  /\ IF stop
       THEN lost' = lost \cup {t} /\ UNCHANGED posting
       ELSE posting' = [posting EXCEPT ![th] = t] /\ UNCHANGED lost
  /\ UNCHANGED <<main, stop, queue, base, time, call, workerVars, done>>

(* ... and then pushes to the base queue it drew, unless that is at its    *)
(* limit.                                                                  *)
PushOnBase(th) ==
  /\ posting[th] # None
  /\ \/ base' = base \cup {posting[th]} /\ UNCHANGED lost
     \/ lost' = lost \cup {posting[th]} /\ UNCHANGED base
  /\ posting' = [posting EXCEPT ![th] = None]
  /\ UNCHANGED <<main, stop, queue, time, call, workerVars, done>>

-----------------------------------------------------------------------------
(* worker_thread()                                                         *)

GetThreadId(w) ==
  /\ pc[w] = "boot"
  /\ id' = [id EXCEPT ![w] = counter % N]
  /\ counter' = counter + 1
  /\ pc' = [pc EXCEPT ![w] = "loop"]
  /\ UNCHANGED <<main, stop, queue, base, time, call, posting, foreign,
                 victims, cur, done, lost>>

(* A worker of another AdvancedScheduler draws one.                        *)
ForeignDraw ==
  /\ foreign < MaxForeign
  /\ foreign' = foreign + 1 /\ counter' = counter + 1
  /\ UNCHANGED <<main, stop, queue, base, time, call, posting, id, pc,
                 victims, cur, done, lost>>

TestFlag(w) ==
  /\ pc[w] = "loop"
  /\ pc' = [pc EXCEPT ![w] = IF stop THEN "exited" ELSE "own"]
  /\ UNCHANGED <<main, stop, queue, base, time, call, posting, counter,
                 foreign, id, victims, cur, done, lost>>

(* (Breaks PoolSafe: the task is looked up again when it is popped, after  *)
(* the lock was released, and what is popped then is another.)             *)
TakeInTwo(w, q) ==
  /\ cur' = [cur EXCEPT ![w] = Top(q)]
  /\ \E t \in queue[q] : queue' = [queue EXCEPT ![q] = @ \ {t}]
  /\ pc' = [pc EXCEPT ![w] = "run"]

Take(w, q) ==
  /\ cur' = [cur EXCEPT ![w] = Top(q)]
  /\ queue' = [queue EXCEPT ![q] = @ \ {Top(q)}]
  /\ pc' = [pc EXCEPT ![w] = "run"]

(* Ten milliseconds end the wait for a task, if none comes before.  A      *)
(* worker without one looks for queues with more than one task, ...        *)
PopOwn(w) ==
  /\ pc[w] = "own"
  /\ IF queue[id[w]] # {}
       THEN /\ Take(w, id[w])
            /\ UNCHANGED victims
       ELSE /\ victims' = [victims EXCEPT ![w] =
                             {q \in Queues \ {id[w]} : Load(q) > 1}]
            /\ pc' = [pc EXCEPT ![w] = "steal"]
            /\ UNCHANGED <<queue, cur>>
  /\ UNCHANGED <<main, stop, base, time, call, posting, counter, foreign,
                 id, done, lost>>

(* (Breaks InOnePlace: the thief leaves the task where it was.)             *)
StealKeeps(w, q) ==
  /\ pc[w] = "steal" /\ q \in victims[w] /\ queue[q] # {}
  /\ cur' = [cur EXCEPT ![w] = Top(q)]
  /\ pc' = [pc EXCEPT ![w] = "run"]
  /\ victims' = [victims EXCEPT ![w] = {}]
  /\ UNCHANGED <<main, stop, queue, base, time, call, posting, counter,
                 foreign, id, done, lost>>

(* ... tries them in any order, takes what it finds, if only one task, ... *)
Steal(w, q) ==
  /\ pc[w] = "steal" /\ q \in victims[w] /\ queue[q] # {}
  /\ Take(w, q)
  /\ victims' = [victims EXCEPT ![w] = {}]
  /\ UNCHANGED <<main, stop, base, time, call, posting, counter, foreign,
                 id, done, lost>>

(* (Breaks QueuedRuns: a thief that fails does not return to its queue.)   *)
GiveUpForGood(w) ==
  /\ pc[w] = "steal"
  /\ victims' = [victims EXCEPT ![w] = {}]
  /\ pc' = [pc EXCEPT ![w] = "exited"]
  /\ UNCHANGED <<main, stop, queue, base, time, call, posting, counter,
                 foreign, id, cur, done, lost>>

(* ... and begins anew when they were empty, or locked, or there was none. *)
GiveUp(w) ==
  /\ pc[w] = "steal"
  /\ victims' = [victims EXCEPT ![w] = {}]
  /\ pc' = [pc EXCEPT ![w] = "loop"]
  /\ UNCHANGED <<main, stop, queue, base, time, call, posting, counter,
                 foreign, id, cur, done, lost>>

(* A task returns or throws.                                               *)
Finish(w) ==
  /\ pc[w] = "run" /\ ~InCall(w)
  /\ done' = done \cup {cur[w]}
  /\ cur' = [cur EXCEPT ![w] = None]
  /\ pc' = [pc EXCEPT ![w] = "loop"]
  /\ UNCHANGED <<main, stop, queue, base, time, call, posting, counter,
                 foreign, id, victims, lost>>

-----------------------------------------------------------------------------
(* Scheduler::start() and Scheduler::stop() on this object                 *)

Start ==
  /\ main = "new" /\ main' = "serving"
  /\ pc' = [w \in Workers |-> "boot"]
  /\ UNCHANGED <<stop, queue, base, time, call, posting, counter, foreign,
                 id, victims, cur, done, lost>>

(* is_idle() looks at the base queues, for ten seconds at most; then the   *)
(* flag is set.                                                            *)
SetFlag ==
  /\ main \in {"new", "serving"}
  /\ main' = "join" /\ stop' = TRUE
  /\ UNCHANGED <<queue, base, time, call, posting, workerVars, done, lost>>

(* The workers have left; the base queues are cleared one by one, and a    *)
(* late push may stay; the queues of this class are not cleared.           *)
Join ==
  /\ main = "join" /\ \A w \in Workers : pc[w] \in {"none", "exited"}
  /\ main' = "stopped"
  /\ \E S \in SUBSET base : base' = base \ S /\ lost' = lost \cup S
  /\ UNCHANGED <<stop, queue, time, call, posting, workerVars, done>>
-----------------------------------------------------------------------------
Loop(w) == GetThreadId(w) \/ TestFlag(w) \/ PopOwn(w) \/ GiveUp(w) \/ Finish(w)

Next ==
  \/ Start \/ SetFlag \/ Join \/ ForeignDraw
  \/ \E w \in Workers : Loop(w) \/ \E q \in Queues : Steal(w, q)
  \/ \E th \in Threads : Compare(th) \/ Push(th) \/ PushOnBase(th)
  \/ \E th \in Threads, t \in Funcs : Schedule(th, t)
  \/ \E th \in Threads, t \in Conts : ScheduleOnBase(th, t)

(* Threads that can run do, tasks return, and locks are not always held    *)
(* when a thief tries them.                                                *)
Fairness ==
  /\ WF_vars(Join)
  /\ \A th \in Threads : WF_vars(Compare(th) \/ Push(th) \/ PushOnBase(th))
  /\ \A w \in Workers :
       WF_vars(Loop(w)) /\ \A q \in Queues : SF_vars(Steal(w, q))

SafeSpec == Init /\ [][Next]_vars
Spec == SafeSpec /\ Fairness
-----------------------------------------------------------------------------
(* A task that was submitted is in one place: the call that submits it,    *)
(* one queue, one worker, or done; and only a task that was is anywhere.   *)
InOnePlace ==
  \A t \in Funcs :
    Cardinality({th \in Threads : call[th].task = t})
      + Cardinality({q \in Queues : t \in queue[q]})
      + Cardinality({w \in Workers : cur[w] = t})
      + (IF t \in done THEN 1 ELSE 0)
    = IF t \in Begun THEN 1 ELSE 0

Running == {cur[w] : w \in Workers} \ {None}

(* What this class promises: a task is started once, by one worker, and    *)
(* none is ever thrown away by schedule_with_priority() or by stop(); but  *)
(* what is queued when the flag goes up stays there.                       *)
Pool == INSTANCE TaskPool WITH
  Tasks    <- Funcs,
  Drains   <- FALSE,
  phase    <- IF stop THEN "closed" ELSE IF main = "new" THEN "new" ELSE "serving",
  pending  <- Queued,
  running  <- Running,
  lost     <- {},
  promised <- {}

PoolSafe == Pool!SafeSpec

(* A queue no worker has as its own, because ids went to other schedulers. *)
Ownerless(q) == \A w \in Workers : pc[w] \notin {"none", "boot"} /\ id[w] # q

(* A queued task is taken while the scheduler serves, whatever its         *)
(* priority, unless it is alone in a queue without a worker.               *)
QueuedRuns ==
  \A t \in Funcs :
    t \in Queued /\ main = "serving"
      ~> \/ t \notin Queued \/ main # "serving"
         \/ \E q \in Queues : Ownerless(q) /\ queue[q] = {t}
=============================================================================
