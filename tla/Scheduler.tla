----------------------------- MODULE Scheduler -----------------------------
(***************************************************************************)
(* modern_coro::Scheduler: a pool of workers, one task queue per worker,   *)
(* round-robin submission, and a stop() that waits, raises a flag, joins   *)
(* the workers and clears what is left.                                    *)
(*                                                                         *)
(* Threads are the workers, the thread that owns the scheduler (start,     *)
(* stop) and clients: application threads, the timer thread, I/O threads.  *)
(* A step is what happens under one lock or in one atomic access.          *)
(***************************************************************************)
EXTENDS Integers, Sequences, FiniteSets

CONSTANTS
  Workers,            (* the threads start() creates                       *)
  ThreadCount,        (* thread_count_: workers and queues                 *)
  Clients,            (* other threads that submit tasks                   *)
  RegisteredClients,  (* those that called register_thread()               *)
  Funcs,              (* tasks that are plain functions                    *)
  Coros,              (* tasks that are coroutines                         *)
  MaxQueueSize,       (* max_queue_size_                                   *)
  CounterAtStart,     (* thread_id_counter: what earlier schedulers left   *)
  ForeignStarts,      (* bound: workers of other schedulers starting while *)
                      (* this one starts                                   *)
  None                (* no task                                           *)

Tasks   == Funcs \cup Coros
Threads == Clients \cup Workers
Queues  == 0 .. ThreadCount - 1

ASSUME ThreadsAssumption ==
  /\ IsFiniteSet(Workers) /\ IsFiniteSet(Clients)
  /\ Workers \cap Clients = {}
  /\ RegisteredClients \subseteq Clients
  /\ ThreadCount \in Nat \ {0}
  /\ Cardinality(Workers) = ThreadCount

ASSUME TasksAssumption ==
  /\ IsFiniteSet(Funcs) /\ IsFiniteSet(Coros)
  /\ Funcs \cap Coros = {}
  /\ None \notin Tasks

ASSUME NumbersAssumption ==
  /\ MaxQueueSize \in Nat \ {0}
  /\ CounterAtStart \in Nat
  /\ ForeignStarts \in Nat

VARIABLES
  main,       (* where the owner is: start() and the steps of stop()       *)
  index,      (* the queue a loop of stop() is at                          *)
  stop,       (* stop_flag_                                                *)
  queue,      (* worker_queues_[q]->tasks                                  *)
  nextQueue,  (* next_queue_ % thread_count_                               *)
  counter,    (* thread_id_counter, static: shared by all schedulers       *)
  foreign,    (* how many workers of other schedulers have started         *)
  pc,         (* where each worker is in worker_thread()                   *)
  ticket,     (* the value each worker drew from thread_id_counter         *)
  cur,        (* the task each worker is executing                         *)
  call,       (* the schedule() call each thread is inside                 *)
  outside,    (* tasks the application holds: not submitted, or suspended  *)
  begun,      (* coroutines handed to schedule(Task) once                  *)
  counted,    (* coroutines whose promise has counted_ = true              *)
  active,     (* active_coroutines_                                        *)
  done,       (* tasks executed to their end                               *)
  lost,       (* tasks that schedule() dropped or stop() cleared           *)
  promised,   (* history: queued when the flag was raised, not yet popped  *)
  awaited,    (* history: coroutines submitted before stop() was called    *)
  gaveUp      (* history: stop() left its wait after ten seconds           *)

ownerVars   == <<main, index, stop, awaited, gaveUp>>
workerVars  == <<counter, foreign, pc, ticket, cur>>
countVars   == <<counted, active>>
vars == <<ownerVars, queue, nextQueue, workerVars, call, outside, begun,
          countVars, done, lost, promised>>

-----------------------------------------------------------------------------
(* Derived state                                                           *)

Elems(s)   == {s[i] : i \in DOMAIN s}
Queued     == UNION {Elems(queue[q]) : q \in Queues}
Running    == {cur[w] : w \in Workers} \ {None}
InCall     == {call[th].task : th \in Threads} \ {None}
Started    == \E w \in Workers : pc[w] # "none"
MyQueue(w) == ticket[w] % ThreadCount
Registered == RegisteredClients \cup Workers

(* Where a thread is in schedule(), with which task, for which queue.      *)
Idle  == [at |-> "idle", task |-> None, q |-> 0]
Calls == {Idle} \cup [at : {"admit", "size", "push"}, task : Tasks, q : Queues]

(* A thread can make a call: a client at any time, a worker from the body  *)
(* of the task it executes.                                                *)
CanCall(th) ==
  /\ call[th].at = "idle"
  /\ th \in Workers => pc[th] = "run" /\ cur[th] # None

-----------------------------------------------------------------------------
(* Faulty variants of actions below: each is a mistake this code could     *)
(* have made, and each breaks the property its comment names.              *)

(* TypeOK: next_queue_ used without the modulo.                            *)
AdmitNoModulo(th) ==
  /\ call[th].at = "admit"
  /\ ~stop
  /\ call' = [call EXCEPT ![th] =
               [at |-> "size", task |-> call[th].task, q |-> nextQueue]]
  /\ nextQueue' = nextQueue + 1
  /\ UNCHANGED <<ownerVars, queue, workerVars, outside, begun, countVars,
                 done, lost, promised>>

(* OwnedOnce: try_pop() moves the front out but leaves it queued.          *)
PopKeepsFront(w) ==
  /\ pc[w] = "pop"
  /\ queue[MyQueue(w)] # <<>>
  /\ cur' = [cur EXCEPT ![w] = Head(queue[MyQueue(w)])]
  /\ promised' = promised \ {Head(queue[MyQueue(w)])}
  /\ pc' = [pc EXCEPT ![w] = "run"]
  /\ UNCHANGED <<ownerVars, queue, nextQueue, counter, foreign, ticket, call,
                 outside, begun, countVars, done, lost>>

(* PrivateQueues: the counter is read but not advanced.                    *)
BootNoAdvance(w) ==
  /\ pc[w] = "boot"
  /\ ticket' = [ticket EXCEPT ![w] = counter]
  /\ pc' = [pc EXCEPT ![w] = "pop"]
  /\ UNCHANGED <<ownerVars, queue, nextQueue, counter, foreign, cur, call,
                 outside, begun, countVars, done, lost, promised>>

(* Drained, NothingLeftBehind: a worker leaves on the flag whatever its    *)
(* queue holds.                                                            *)
WakeLeavesTasks(w) ==
  /\ pc[w] = "wait"
  /\ pc' = [pc EXCEPT ![w] = IF stop THEN "exited" ELSE "pop"]
  /\ UNCHANGED <<ownerVars, queue, nextQueue, counter, foreign, ticket, cur,
                 call, outside, begun, countVars, done, lost, promised>>

(* StopTerminates: the exit test after the wait is missing.                *)
WakeNeverExits(w) ==
  /\ pc[w] = "wait"
  /\ pc' = [pc EXCEPT ![w] = "pop"]
  /\ UNCHANGED <<ownerVars, queue, nextQueue, counter, foreign, ticket, cur,
                 call, outside, begun, countVars, done, lost, promised>>

(* PoolLive: the wait only ends for the stop flag.                         *)
WakeOnlyForStop(w) ==
  /\ pc[w] = "wait"
  /\ stop
  /\ pc' = [pc EXCEPT ![w] = IF queue[MyQueue(w)] = <<>> THEN "exited" ELSE "pop"]
  /\ UNCHANGED <<ownerVars, queue, nextQueue, counter, foreign, ticket, cur,
                 call, outside, begun, countVars, done, lost, promised>>

(* ActiveExact: final_suspend() does not look at counted_.                 *)
FinalSuspendUnconditional(w) ==
  /\ pc[w] = "run" /\ call[w].at = "idle"
  /\ cur[w] \in Coros
  /\ counted' = counted \ {cur[w]}
  /\ IF active > 0
       THEN /\ pc' = [pc EXCEPT ![w] = "dec"]
            /\ UNCHANGED <<cur, done>>
       ELSE /\ pc' = [pc EXCEPT ![w] = "pop"]
            /\ cur' = [cur EXCEPT ![w] = None]
            /\ done' = done \cup {cur[w]}
  /\ UNCHANGED <<ownerVars, queue, nextQueue, counter, foreign, ticket, call,
                 outside, begun, active, lost, promised>>

(* WaitedForCounted: is_idle() only looks at the queues.                   *)
ScanActiveSkipped ==
  /\ main = "scan" /\ index = ThreadCount
  /\ main' = "flag" /\ index' = 0
  /\ UNCHANGED <<stop, awaited, gaveUp, queue, nextQueue, workerVars, call,
                 outside, begun, countVars, done, lost, promised>>

-----------------------------------------------------------------------------
Init ==
  /\ main = "new" /\ index = 0 /\ stop = FALSE
  /\ awaited = {} /\ gaveUp = FALSE
  /\ queue = [q \in Queues |-> <<>>]
  /\ nextQueue = 0
  /\ counter = CounterAtStart /\ foreign = 0
  /\ pc = [w \in Workers |-> "none"]
  /\ ticket = [w \in Workers |-> 0]
  /\ cur = [w \in Workers |-> None]
  /\ call = [th \in Threads |-> Idle]
  /\ outside = Tasks
  /\ begun = {} /\ counted = {} /\ active = 0
  /\ done = {} /\ lost = {} /\ promised = {}

-----------------------------------------------------------------------------
(* schedule(std::function): a function, or the continuation of a coroutine *)
(* that suspended, wrapped as one by whoever resumes it.                   *)

Submit(th, t) ==
  /\ CanCall(th)
  /\ t \in outside
  /\ t \in Funcs \cup begun
  /\ outside' = outside \ {t}
  /\ call' = [call EXCEPT ![th] = [at |-> "admit", task |-> t, q |-> 0]]
  /\ UNCHANGED <<ownerVars, queue, nextQueue, workerVars, begun, countVars,
                 done, lost, promised>>

(* The call finds stop_flag_ raised and returns: the task is dropped.      *)
Reject(th) ==
  /\ call[th].at = "admit"
  /\ stop
  /\ lost' = lost \cup {call[th].task}
  /\ call' = [call EXCEPT ![th] = Idle]
  /\ UNCHANGED <<ownerVars, queue, nextQueue, workerVars, outside, begun,
                 countVars, done, promised>>

(* The flag is read, then the round-robin queue is drawn.                  *)
Admit(th) ==
  /\ call[th].at = "admit"
  /\ ~stop
  /\ call' = [call EXCEPT ![th] =
               [at |-> "size", task |-> call[th].task, q |-> nextQueue]]
  /\ nextQueue' = (nextQueue + 1) % ThreadCount
  /\ UNCHANGED <<ownerVars, queue, workerVars, outside, begun, countVars,
                 done, lost, promised>>

(* get_size() against max_queue_size_, outside the queue's mutex.          *)
CheckSize(th) ==
  /\ call[th].at = "size"
  /\ IF Len(queue[call[th].q]) >= MaxQueueSize
       THEN /\ lost' = lost \cup {call[th].task}
            /\ call' = [call EXCEPT ![th] = Idle]
       ELSE /\ call' = [call EXCEPT ![th] =
                         [at |-> "push", task |-> call[th].task, q |-> call[th].q]]
            /\ lost' = lost
  /\ UNCHANGED <<ownerVars, queue, nextQueue, workerVars, outside, begun,
                 countVars, done, promised>>

Push(th) ==
  /\ call[th].at = "push"
  /\ queue' = [queue EXCEPT ![call[th].q] = Append(@, call[th].task)]
  /\ call' = [call EXCEPT ![th] = Idle]
  /\ UNCHANGED <<ownerVars, nextQueue, workerVars, outside, begun, countVars,
                 done, lost, promised>>

-----------------------------------------------------------------------------
(* schedule(Task&&): the coroutine is created on the calling thread, which *)
(* counts it if the thread is registered; neither the flag nor the size    *)
(* limit is looked at before the push.                                     *)

CountNew(th, c) ==
  /\ counted' = IF th \in Registered THEN counted \cup {c} ELSE counted
  /\ active' = IF th \in Registered THEN active + 1 ELSE active

SubmitCoro(th, c) ==
  /\ CanCall(th)
  /\ c \in outside \cap Coros
  /\ c \notin begun
  /\ outside' = outside \ {c}
  /\ begun' = begun \cup {c}
  /\ CountNew(th, c)
  /\ call' = [call EXCEPT ![th] = [at |-> "push", task |-> c, q |-> nextQueue]]
  /\ nextQueue' = (nextQueue + 1) % ThreadCount
  /\ UNCHANGED <<ownerVars, queue, workerVars, done, lost, promised>>

-----------------------------------------------------------------------------
(* worker_thread()                                                         *)

Boot(w) ==
  /\ pc[w] = "boot"
  /\ ticket' = [ticket EXCEPT ![w] = counter]
  /\ counter' = counter + 1
  /\ pc' = [pc EXCEPT ![w] = "pop"]
  /\ UNCHANGED <<ownerVars, queue, nextQueue, foreign, cur, call, outside,
                 begun, countVars, done, lost, promised>>

(* A worker of another scheduler draws from the same static counter.       *)
ForeignBoot ==
  /\ foreign < ForeignStarts
  /\ foreign' = foreign + 1
  /\ counter' = counter + 1
  /\ UNCHANGED <<ownerVars, queue, nextQueue, pc, ticket, cur, call, outside,
                 begun, countVars, done, lost, promised>>

Pop(w) ==
  /\ pc[w] = "pop"
  /\ LET q == MyQueue(w) IN
       /\ queue[q] # <<>>
       /\ cur' = [cur EXCEPT ![w] = Head(queue[q])]
       /\ queue' = [queue EXCEPT ![q] = Tail(@)]
       /\ promised' = promised \ {Head(queue[q])}
  /\ pc' = [pc EXCEPT ![w] = "run"]
  /\ UNCHANGED <<ownerVars, nextQueue, counter, foreign, ticket, call,
                 outside, begun, countVars, done, lost>>

PopNothing(w) ==
  /\ pc[w] = "pop"
  /\ queue[MyQueue(w)] = <<>>
  /\ pc' = [pc EXCEPT ![w] = "wait"]
  /\ UNCHANGED <<ownerVars, queue, nextQueue, counter, foreign, ticket, cur,
                 call, outside, begun, countVars, done, lost, promised>>

(* wait_for returns, on a notification or after 10 ms; under the queue's   *)
(* mutex the worker leaves the loop or goes round again.                   *)
Wake(w) ==
  /\ pc[w] = "wait"
  /\ pc' = [pc EXCEPT ![w] = IF stop /\ queue[MyQueue(w)] = <<>>
                               THEN "exited" ELSE "pop"]
  /\ UNCHANGED <<ownerVars, queue, nextQueue, counter, foreign, ticket, cur,
                 call, outside, begun, countVars, done, lost, promised>>

-----------------------------------------------------------------------------
(* The body of a task, as far as the scheduler sees it                     *)

InBody(w) == pc[w] = "run" /\ call[w].at = "idle"

FinishFunc(w) ==
  /\ InBody(w)
  /\ cur[w] \in Funcs
  /\ done' = done \cup {cur[w]}
  /\ cur' = [cur EXCEPT ![w] = None]
  /\ pc' = [pc EXCEPT ![w] = "pop"]
  /\ UNCHANGED <<ownerVars, queue, nextQueue, counter, foreign, ticket, call,
                 outside, begun, countVars, lost, promised>>

(* final_suspend(): counted_ is exchanged, and a counted coroutine goes on *)
(* to decrement_active_coroutines(), whose first access is a load.         *)
FinalSuspend(w) ==
  /\ InBody(w)
  /\ cur[w] \in Coros
  /\ counted' = counted \ {cur[w]}
  /\ IF cur[w] \in counted /\ active > 0
       THEN /\ pc' = [pc EXCEPT ![w] = "dec"]
            /\ UNCHANGED <<cur, done>>
       ELSE /\ pc' = [pc EXCEPT ![w] = "pop"]
            /\ cur' = [cur EXCEPT ![w] = None]
            /\ done' = done \cup {cur[w]}
  /\ UNCHANGED <<ownerVars, queue, nextQueue, counter, foreign, ticket, call,
                 outside, begun, active, lost, promised>>

(* The second access, fetch_sub.                                           *)
Decrement(w) ==
  /\ pc[w] = "dec"
  /\ active' = active - 1
  /\ done' = done \cup {cur[w]}
  /\ cur' = [cur EXCEPT ![w] = None]
  /\ pc' = [pc EXCEPT ![w] = "pop"]
  /\ UNCHANGED <<ownerVars, queue, nextQueue, counter, foreign, ticket, call,
                 outside, begun, counted, lost, promised>>

(* The coroutine awaits something else: resume() returns and the coroutine *)
(* is in the hands of a timer, a descriptor or another coroutine.          *)
Park(w) ==
  /\ InBody(w)
  /\ cur[w] \in Coros
  /\ outside' = outside \cup {cur[w]}
  /\ cur' = [cur EXCEPT ![w] = None]
  /\ pc' = [pc EXCEPT ![w] = "pop"]
  /\ UNCHANGED <<ownerVars, queue, nextQueue, counter, foreign, ticket, call,
                 begun, countVars, done, lost, promised>>

(* YieldAwaiter: the suspended coroutine is resubmitted by its own worker, *)
(* which is still inside await_suspend when another worker may resume it.  *)
Yield(w) ==
  /\ InBody(w)
  /\ cur[w] \in Coros
  /\ call' = [call EXCEPT ![w] = [at |-> "admit", task |-> cur[w], q |-> 0]]
  /\ cur' = [cur EXCEPT ![w] = None]
  /\ UNCHANGED <<ownerVars, queue, nextQueue, counter, foreign, pc, ticket,
                 outside, begun, countVars, done, lost, promised>>

ReturnFromYield(w) ==
  /\ InBody(w)
  /\ cur[w] = None
  /\ pc' = [pc EXCEPT ![w] = "pop"]
  /\ UNCHANGED <<ownerVars, queue, nextQueue, counter, foreign, ticket, cur,
                 call, outside, begun, countVars, done, lost, promised>>

-----------------------------------------------------------------------------
(* The owner: start(), stop().  stop() may be called again (the destructor *)
(* does); start() is called at most once, before any stop().               *)

Start ==
  /\ main = "new"
  /\ main' = "serving"
  /\ pc' = [w \in Workers |-> "boot"]
  /\ UNCHANGED <<index, stop, awaited, gaveUp, queue, nextQueue, counter,
                 foreign, ticket, cur, call, outside, begun, countVars, done,
                 lost, promised>>

BeginStop ==
  /\ main \in {"new", "serving", "stopped"}
  /\ main' = "scan" /\ index' = 0
  /\ awaited' = begun /\ gaveUp' = FALSE
  /\ UNCHANGED <<stop, queue, nextQueue, workerVars, call, outside, begun,
                 countVars, done, lost, promised>>

(* is_idle(): the queues one after the other, each under its own mutex,    *)
(* then active_coroutines_.                                                *)
ScanQueue ==
  /\ main = "scan" /\ index < ThreadCount
  /\ IF queue[index] = <<>>
       THEN index' = index + 1 /\ main' = main
       ELSE index' = 0 /\ main' = "nap"
  /\ UNCHANGED <<stop, awaited, gaveUp, queue, nextQueue, workerVars, call,
                 outside, begun, countVars, done, lost, promised>>

ScanActive ==
  /\ main = "scan" /\ index = ThreadCount
  /\ main' = IF active = 0 THEN "flag" ELSE "nap"
  /\ index' = 0
  /\ UNCHANGED <<stop, awaited, gaveUp, queue, nextQueue, workerVars, call,
                 outside, begun, countVars, done, lost, promised>>

Rescan ==
  /\ main = "nap"
  /\ main' = "scan"
  /\ UNCHANGED <<index, stop, awaited, gaveUp, queue, nextQueue, workerVars,
                 call, outside, begun, countVars, done, lost, promised>>

(* Ten seconds have passed.                                                *)
GiveUp ==
  /\ main = "nap"
  /\ main' = "flag"
  /\ gaveUp' = TRUE
  /\ UNCHANGED <<index, stop, awaited, queue, nextQueue, workerVars, call,
                 outside, begun, countVars, done, lost, promised>>

SetFlag ==
  /\ main = "flag"
  /\ main' = "join"
  /\ stop' = TRUE
  /\ promised' = IF ~stop /\ Started THEN Queued ELSE promised
  /\ UNCHANGED <<index, awaited, gaveUp, queue, nextQueue, workerVars, call,
                 outside, begun, countVars, done, lost>>

Join ==
  /\ main = "join"
  /\ \A w \in Workers : pc[w] \in {"none", "exited"}
  /\ main' = "clear"
  /\ UNCHANGED <<index, stop, awaited, gaveUp, queue, nextQueue, workerVars,
                 call, outside, begun, countVars, done, lost, promised>>

ClearQueue ==
  /\ main = "clear" /\ index < ThreadCount
  /\ lost' = lost \cup Elems(queue[index])
  /\ queue' = [queue EXCEPT ![index] = <<>>]
  /\ index' = index + 1
  /\ UNCHANGED <<main, stop, awaited, gaveUp, nextQueue, workerVars, call,
                 outside, begun, countVars, done, promised>>

EndStop ==
  /\ main = "clear" /\ index = ThreadCount
  /\ main' = "stopped" /\ index' = 0
  /\ UNCHANGED <<stop, awaited, gaveUp, queue, nextQueue, workerVars, call,
                 outside, begun, countVars, done, lost, promised>>

-----------------------------------------------------------------------------
StopStep   == ScanQueue \/ ScanActive \/ SetFlag \/ Join \/ ClearQueue \/ EndStop
CallStep(th) == Reject(th) \/ Admit(th) \/ CheckSize(th) \/ Push(th)
LoopStep(w)  == Boot(w) \/ Pop(w) \/ PopNothing(w) \/ Wake(w)
                  \/ Decrement(w) \/ ReturnFromYield(w)
BodyEnds(w)  == FinishFunc(w) \/ FinalSuspend(w) \/ Park(w) \/ Yield(w)

Next ==
  \/ Start \/ BeginStop \/ Rescan \/ GiveUp \/ StopStep \/ ForeignBoot
  \/ \E th \in Threads : CallStep(th)
  \/ \E th \in Threads, t \in Tasks : Submit(th, t) \/ SubmitCoro(th, t)
  \/ \E w \in Workers : LoopStep(w) \/ BodyEnds(w)

SafeSpec == Init /\ [][Next]_vars

(* Threads that can run do; the body of a task returns (strong: it may     *)
(* submit other tasks first); ten seconds pass.                            *)
Fairness ==
  /\ WF_vars(StopStep) /\ WF_vars(Rescan) /\ SF_vars(GiveUp)
  /\ \A th \in Threads : WF_vars(CallStep(th))
  /\ \A w \in Workers : WF_vars(LoopStep(w)) /\ SF_vars(BodyEnds(w))

Spec == SafeSpec /\ Fairness

-----------------------------------------------------------------------------
(* Properties                                                              *)

OwnerOK ==
  /\ main \in {"new", "serving", "scan", "nap", "flag", "join", "clear", "stopped"}
  /\ index \in 0 .. ThreadCount
  /\ stop \in BOOLEAN /\ gaveUp \in BOOLEAN
  /\ awaited \subseteq Coros

QueuesOK ==
  /\ queue \in [Queues -> Seq(Tasks)]
  /\ nextQueue \in Queues
  /\ promised \subseteq Tasks

WorkersOK ==
  /\ counter \in Nat /\ foreign \in 0 .. ForeignStarts
  /\ pc \in [Workers -> {"none", "boot", "pop", "run", "dec", "wait", "exited"}]
  /\ ticket \in [Workers -> Nat]
  /\ cur \in [Workers -> Tasks \cup {None}]
  /\ \A w \in Workers :
       /\ main = "new" => pc[w] = "none"
       /\ cur[w] # None => pc[w] \in {"run", "dec"}
       /\ pc[w] = "dec" => cur[w] \in Coros

CallsOK ==
  /\ call \in [Threads -> Calls]
  /\ \A w \in Workers : call[w] # Idle => pc[w] = "run"

TasksOK ==
  /\ outside \subseteq Tasks /\ done \subseteq Tasks /\ lost \subseteq Tasks
  /\ begun \subseteq Coros /\ counted \subseteq Coros
  /\ active \in Int

(* Every variable has its type, and a worker's position in its loop fits   *)
(* the task and the call it is in.  (active stays in Nat by ActiveExact.)  *)
TypeOK == OwnerOK /\ QueuesOK /\ WorkersOK /\ CallsOK /\ TasksOK

(* Two threads never hold the same task, no queue holds a task twice, and  *)
(* a task is in one place only: with the application, inside a schedule()  *)
(* call, queued, executing, done or dropped.  A coroutine that yields is   *)
(* resubmitted while its worker is still in await_suspend; executing it    *)
(* twice at once would be resuming a running coroutine.                    *)
SubmittedByOne ==
  \A a, b \in Threads : call[a].task = call[b].task /\ a # b => call[a].task = None

ExecutedByOne ==
  \A v, w \in Workers : cur[v] = cur[w] /\ v # w => cur[v] = None

QueuedOnce ==
  \A p, q \in Queues : \A i \in DOMAIN queue[p], j \in DOMAIN queue[q] :
    queue[p][i] = queue[q][j] => p = q /\ i = j

InOnePlace ==
  /\ outside \cap (InCall \cup Queued \cup Running \cup done \cup lost) = {}
  /\ InCall \cap (Queued \cup Running \cup done \cup lost) = {}
  /\ Queued \cap (Running \cup done \cup lost) = {}
  /\ Running \cap (done \cup lost) = {}
  /\ done \cap lost = {}

NothingForgotten ==
  Tasks = outside \cup InCall \cup Queued \cup Running \cup done \cup lost

OwnedOnce ==
  SubmittedByOne /\ ExecutedByOne /\ QueuedOnce /\ InOnePlace /\ NothingForgotten

(* Two workers never listen on the same queue ("each worker only listens   *)
(* on its own queue"), so that no queue is left without one.  The index    *)
(* comes from a counter all the schedulers of the process share.           *)
PrivateQueues ==
  \A v, w \in Workers :
    /\ v # w
    /\ pc[v] \notin {"none", "boot"} /\ pc[w] \notin {"none", "boot"}
    => MyQueue(v) # MyQueue(w)

(* When stop() has joined the workers, every task that was queued at the   *)
(* instant the flag went up has been picked up by a worker: clearing the   *)
(* queues only throws away what was pushed after that.                     *)
Drained == main \in {"clear", "stopped"} => promised = {}

(* Whatever the other schedulers of the process do, a worker that left has *)
(* left nothing of that behind in the queue it listened on: what clearing  *)
(* may throw away was in a queue no worker ever looked at.                 *)
NothingLeftBehind ==
  \A w \in Workers : pc[w] = "exited" => Elems(queue[MyQueue(w)]) \cap promised = {}

(* active_coroutines_ is the number of coroutines still to be uncounted:   *)
(* the load and the fetch_sub of the decrement, taken by several workers   *)
(* at once, never take it below zero nor leave it above.                   *)
ActiveExact ==
  active = Cardinality(counted) + Cardinality({w \in Workers : pc[w] = "dec"})

(* If stop() goes on before its ten seconds are over, no coroutine that    *)
(* was submitted before stop() was called is still counted as active,      *)
(* although the idle scan looks at one queue after the other and at the    *)
(* counter last, while workers and clients go on.                          *)
WaitedForCounted ==
  main \in {"flag", "join", "clear"} /\ ~gaveUp => awaited \cap counted = {}

(* The size check and the push are two steps: every thread may be between  *)
(* them, and schedule(Task&&) does not check.  This is how far a queue can *)
(* grow all the same.                                                      *)
BacklogBounded ==
  \A q \in Queues :
    Len(queue[q]) <= MaxQueueSize - 1 + Cardinality(Threads) + Cardinality(begun)

(* A call of stop() returns.                                               *)
StopTerminates == main = "scan" ~> main = "stopped"

(* The scheduler keeps the promises of a task pool: a task is executed at  *)
(* most once per submission, a queued task is eventually executed while    *)
(* the pool serves, and so is a task queued when the pool closes.          *)
Pool == INSTANCE TaskPool WITH
  Drains  <- TRUE,
  phase   <- IF stop THEN "closed" ELSE IF Started THEN "serving" ELSE "new",
  pending <- Queued,
  running <- Running

PoolSafe == Pool!SafeSpec
PoolLive == Pool!Spec

(* When another scheduler starts at the same time, what is left of it is a *)
(* pool that need not drain: a task is still executed once per submission, *)
(* by one worker, and none is thrown away before the flag is up.           *)
LoosePool == INSTANCE TaskPool WITH
  Drains   <- FALSE,
  phase    <- IF stop THEN "closed" ELSE IF Started THEN "serving" ELSE "new",
  pending  <- Queued,
  running  <- Running,
  promised <- {}

LooseSafe == LoosePool!SafeSpec

-----------------------------------------------------------------------------
(* What the documentation says and the code does not do                    *)

(* README.md:286, "graceful stop, ensures no dangling tasks": when stop()  *)
(* of a running scheduler has returned, no function that schedule(), which *)
(* looks at stop_flag_ first, took in is left in a queue.                  *)
NoDanglingTask == Started /\ main = "stopped" => Queued \cap Funcs = {}

(* scheduler.cpp:73, "wait for all coroutines to finish": unless the ten   *)
(* seconds ran out, every coroutine submitted before stop() was called is  *)
(* finished when stop() raises the flag.                                   *)
AllCoroutinesFinished ==
  Started /\ main = "flag" /\ ~gaveUp => awaited \subseteq done \cup lost

=============================================================================
