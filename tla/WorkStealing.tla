---------------------------- MODULE WorkStealing ----------------------------
(***************************************************************************)
(* modern_coro::WorkStealingScheduler.  It hides schedule() and the queues *)
(* of the Scheduler it derives from without overriding them: whoever holds *)
(* a Scheduler* (a timer, a coroutine being resumed, YieldAwaiter) submits *)
(* to the base queues, the workers only look at the deques, and stop() is  *)
(* the base's.                                                             *)
(***************************************************************************)
EXTENDS Integers, Sequences, SequencesExt

CONSTANTS
  Workers,        (* the threads start() creates                           *)
  ThreadCount,    (* thread_count                                          *)
  Clients,        (* other threads that submit                             *)
  Funcs,          (* tasks submitted through the WorkStealingScheduler     *)
  Conts,          (* continuations submitted through a Scheduler*          *)
  None            (* no task                                               *)

Tasks   == Funcs \cup Conts
Threads == Clients \cup Workers
Deques  == 0 .. ThreadCount - 1
NoIndex == ThreadCount          (* SIZE_MAX: the thread has no index       *)

ASSUME ThreadsAssumption ==
  /\ ThreadCount \in Nat \ {0}
  /\ IsFiniteSet(Workers) /\ Cardinality(Workers) = ThreadCount
  /\ Workers \cap Clients = {} /\ Funcs \cap Conts = {}
  /\ None \notin Tasks

VARIABLES
  main,       (* the owner: start() and the steps of the base's stop()     *)
  stop,       (* stop_flag_                                                *)
  deque,      (* worker_queues_[i]->tasks, of the derived class            *)
  base,       (* the tasks in the base class's queues                      *)
  mapped,     (* the workers with an entry in thread_id_to_index_          *)
  index,      (* the index each worker found for itself                    *)
  pc,         (* where each worker is                                      *)
  tries,      (* victims it has tried in this round                        *)
  cur,        (* the task it executes                                      *)
  call,       (* the push each thread is about to do, to deque q or, of a  *)
              (* continuation, to a base queue                             *)
  done,       (* executed tasks                                            *)
  lost        (* tasks the base class refused, dropped or cleared          *)

vars == <<main, stop, deque, base, mapped, index, pc, tries, cur, call, done, lost>>

loopVars == <<mapped, index, pc, tries, cur>>

Queued  == UNION {ToSet(deque[q]) : q \in Deques}
Running == {cur[w] : w \in Workers} \ {None}
InCall  == {call[th].task : th \in Threads} \ {None}
Started == \E w \in Workers : pc[w] # "none"
Outside == Tasks \ (Queued \cup base \cup Running \cup InCall \cup done \cup lost)

Idle  == [task |-> None, q |-> 0]

Init ==
  /\ main = "new" /\ stop = FALSE
  /\ deque = [q \in Deques |-> <<>>] /\ base = {}
  /\ mapped = {} /\ index = [w \in Workers |-> NoIndex]
  /\ pc = [w \in Workers |-> "none"]
  /\ tries = [w \in Workers |-> 0]
  /\ cur = [w \in Workers |-> None]
  /\ call = [th \in Threads |-> Idle]
  /\ done = {} /\ lost = {}

-----------------------------------------------------------------------------
(* Faulty variants of the actions below: each is a slip the properties are *)
(* meant to expose, and none of them is part of the specification.         *)

(* pop_local() reads the back of the deque and removes its front.          *)
PopLocalMixed(w) ==
  /\ pc[w] = "local"
  /\ LET s == deque[index[w]] IN
       IF s = <<>>
         THEN /\ pc' = [pc EXCEPT ![w] = IF ThreadCount = 1 THEN "wait" ELSE "steal"]
              /\ UNCHANGED <<deque, cur>>
         ELSE /\ cur' = [cur EXCEPT ![w] = Last(s)]
              /\ deque' = [deque EXCEPT ![index[w]] = Tail(s)]
              /\ pc' = [pc EXCEPT ![w] = "run"]
  /\ tries' = [tries EXCEPT ![w] = 0]
  /\ UNCHANGED <<main, stop, base, mapped, index, call, done, lost>>

(* A worker never turns to the deques of the others.                       *)
PopLocalOnly(w) ==
  /\ pc[w] = "local"
  /\ LET s == deque[index[w]] IN
       IF s = <<>>
         THEN /\ pc' = [pc EXCEPT ![w] = "wait"]
              /\ UNCHANGED <<deque, cur>>
         ELSE /\ cur' = [cur EXCEPT ![w] = Last(s)]
              /\ deque' = [deque EXCEPT ![index[w]] = Front(s)]
              /\ pc' = [pc EXCEPT ![w] = "run"]
  /\ tries' = [tries EXCEPT ![w] = 0]
  /\ UNCHANGED <<main, stop, base, mapped, index, call, done, lost>>

(* steal() without its pop_front().                                        *)
StealKeepsFront(w, v) ==
  /\ pc[w] = "steal"
  /\ v # index[w]
  /\ IF deque[v] = <<>>
       THEN /\ tries' = [tries EXCEPT ![w] = @ + 1]
            /\ pc' = [pc EXCEPT ![w] = IF tries[w] + 1 = ThreadCount - 1 THEN "wait" ELSE @]
            /\ cur' = cur
       ELSE /\ cur' = [cur EXCEPT ![w] = Head(deque[v])]
            /\ pc' = [pc EXCEPT ![w] = "run"]
            /\ tries' = tries
  /\ UNCHANGED <<main, stop, deque, base, mapped, index, call, done, lost>>

(* map[id] = map.size(), with the entry made before the size is read.      *)
FindIndexAfterEntry(w) ==
  /\ pc[w] = "boot"
  /\ index' = [index EXCEPT ![w] = Cardinality(mapped) + 1]
  /\ pc' = [pc EXCEPT ![w] = "insert"]
  /\ UNCHANGED <<main, stop, deque, base, mapped, tries, cur, call, done, lost>>

(* wait() in the place of wait_for(): nobody notifies for the flag.        *)
WaitUntilNotified(w) ==
  /\ pc[w] = "wait"
  /\ deque[index[w]] # <<>>
  /\ pc' = [pc EXCEPT ![w] = "loop"]
  /\ UNCHANGED <<main, stop, deque, base, mapped, index, tries, cur, call, done, lost>>

-----------------------------------------------------------------------------
(* Submission.  A worker submits from the body of a task.  There is no     *)
(* stop flag to look at and no size limit.                                 *)

CanCall(th) == call[th] = Idle /\ (th \in Workers => pc[th] = "run")

(* get_current_thread_index(), or the first of the least loaded deques.    *)
IndexOf(th) == IF th \in mapped THEN index[th] ELSE NoIndex

LeastLoaded(q) ==
  \A p \in Deques : /\ Len(deque[q]) <= Len(deque[p])
                    /\ p < q => Len(deque[q]) < Len(deque[p])

Target(th, q) == IF IndexOf(th) \in Deques THEN q = IndexOf(th) ELSE LeastLoaded(q)

Schedule(th, t, q) ==
  /\ CanCall(th)
  /\ t \in Outside \cap Funcs
  /\ Target(th, q)
  /\ call' = [call EXCEPT ![th] = [task |-> t, q |-> q]]
  /\ UNCHANGED <<main, stop, deque, base, loopVars, done, lost>>

(* schedule_with_affinity() with a valid index; schedule_batch() is a      *)
(* sequence of these.  The sizes schedule() compares are read one by one:  *)
(* what it chooses when they change meanwhile is a deque allowed here.     *)
ScheduleWithAffinity(th, t, q) ==
  /\ CanCall(th)
  /\ t \in Outside \cap Funcs
  /\ call' = [call EXCEPT ![th] = [task |-> t, q |-> q]]
  /\ UNCHANGED <<main, stop, deque, base, loopVars, done, lost>>

PushLocal(th) ==
  /\ call[th].task \in Funcs
  /\ deque' = [deque EXCEPT ![call[th].q] = Append(@, call[th].task)]
  /\ call' = [call EXCEPT ![th] = Idle]
  /\ UNCHANGED <<main, stop, base, loopVars, done, lost>>

(* Scheduler::schedule through a Scheduler*: it looks at the flag, ...     *)
ScheduleOnBase(th, t) ==
  /\ CanCall(th)
  /\ t \in Outside \cap Conts
  /\ IF stop
       THEN lost' = lost \cup {t} /\ UNCHANGED call
       ELSE /\ call' = [call EXCEPT ![th] = [Idle EXCEPT !.task = t]]
            /\ UNCHANGED lost
  /\ UNCHANGED <<main, stop, deque, base, loopVars, done>>

(* ... and then pushes to the base queue it drew, unless that is at its    *)
(* limit: other functions of the application may fill it at any time.      *)
PushOnBase(th) ==
  /\ call[th].task \in Conts
  /\ \/ base' = base \cup {call[th].task} /\ UNCHANGED lost
     \/ lost' = lost \cup {call[th].task} /\ UNCHANGED base
  /\ call' = [call EXCEPT ![th] = Idle]
  /\ UNCHANGED <<main, stop, deque, loopVars, done>>

-----------------------------------------------------------------------------
(* worker_thread().  thread_id_to_index_ is a plain map: two workers may   *)
(* read its size before either has inserted, and of two insertions at once *)
(* one may be lost.  (A data race; a crash of the process is left out.)    *)

FindIndex(w) ==
  /\ pc[w] = "boot"
  /\ index' = [index EXCEPT ![w] = Cardinality(mapped)]
  /\ pc' = [pc EXCEPT ![w] = "insert"]
  /\ UNCHANGED <<main, stop, deque, base, mapped, tries, cur, call, done, lost>>

InsertIndex(w) ==
  /\ pc[w] = "insert"
  /\ \/ mapped' = mapped \cup {w}
     \/ /\ \E v \in Workers \ {w} : pc[v] = "insert"
        /\ mapped' = mapped
  /\ pc' = [pc EXCEPT ![w] = IF index[w] \in Deques THEN "loop" ELSE "exited"]
  /\ UNCHANGED <<main, stop, deque, base, index, tries, cur, call, done, lost>>

Leave(w) ==
  /\ pc[w] = "loop"
  /\ stop
  /\ pc' = [pc EXCEPT ![w] = "exited"]
  /\ UNCHANGED <<main, stop, deque, base, mapped, index, tries, cur, call, done, lost>>

Stay(w) ==
  /\ pc[w] = "loop"
  /\ ~stop
  /\ pc' = [pc EXCEPT ![w] = "local"]
  /\ UNCHANGED <<main, stop, deque, base, mapped, index, tries, cur, call, done, lost>>

(* pop_local() takes the back, steal() the front.                          *)
PopLocal(w) ==
  /\ pc[w] = "local"
  /\ LET s == deque[index[w]] IN
       IF s = <<>>
         THEN /\ pc' = [pc EXCEPT ![w] = IF ThreadCount = 1 THEN "wait" ELSE "steal"]
              /\ UNCHANGED <<deque, cur>>
         ELSE /\ cur' = [cur EXCEPT ![w] = Last(s)]
              /\ deque' = [deque EXCEPT ![index[w]] = Front(s)]
              /\ pc' = [pc EXCEPT ![w] = "run"]
  /\ tries' = [tries EXCEPT ![w] = 0]
  /\ UNCHANGED <<main, stop, base, mapped, index, call, done, lost>>

Steal(w, v) ==
  /\ pc[w] = "steal"
  /\ v # index[w]
  /\ IF deque[v] = <<>>
       THEN /\ tries' = [tries EXCEPT ![w] = @ + 1]
            /\ pc' = [pc EXCEPT ![w] = IF tries[w] + 1 = ThreadCount - 1 THEN "wait" ELSE @]
            /\ UNCHANGED <<deque, cur>>
       ELSE /\ cur' = [cur EXCEPT ![w] = Head(deque[v])]
            /\ deque' = [deque EXCEPT ![v] = Tail(@)]
            /\ pc' = [pc EXCEPT ![w] = "run"]
            /\ tries' = tries
  /\ UNCHANGED <<main, stop, base, mapped, index, call, done, lost>>

(* The wait ends by a notification or after steal_backoff_time_.  Only a   *)
(* push notifies the deque's condition: the base's stop() notifies the     *)
(* conditions of the base queues, so the timeout is what ends this wait.   *)
WaitEnds(w) ==
  /\ pc[w] = "wait"
  /\ pc' = [pc EXCEPT ![w] = "loop"]
  /\ UNCHANGED <<main, stop, deque, base, mapped, index, tries, cur, call, done, lost>>

Finish(w) ==
  /\ pc[w] = "run"
  /\ call[w] = Idle
  /\ done' = done \cup {cur[w]}
  /\ cur' = [cur EXCEPT ![w] = None]
  /\ pc' = [pc EXCEPT ![w] = "loop"]
  /\ UNCHANGED <<main, stop, deque, base, mapped, index, tries, call, lost>>

-----------------------------------------------------------------------------
(* Scheduler::start() and Scheduler::stop() on this object                 *)

Start ==
  /\ main = "new"
  /\ main' = "serving"
  /\ pc' = [w \in Workers |-> "boot"]
  /\ UNCHANGED <<stop, deque, base, mapped, index, tries, cur, call, done, lost>>

BeginStop ==
  /\ main \in {"new", "serving", "stopped"}
  /\ main' = "wait"
  /\ UNCHANGED <<stop, deque, base, loopVars, call, done, lost>>

(* is_idle() looks at the base queues; ten seconds end the wait anyway.    *)
WaitOver ==
  /\ main = "wait"
  /\ main' = "flag"
  /\ UNCHANGED <<stop, deque, base, loopVars, call, done, lost>>

SetFlag ==
  /\ main = "flag"
  /\ stop' = TRUE
  /\ main' = "join"
  /\ UNCHANGED <<deque, base, loopVars, call, done, lost>>

Join ==
  /\ main = "join"
  /\ \A w \in Workers : pc[w] \in {"none", "exited"}
  /\ main' = "clear"
  /\ UNCHANGED <<stop, deque, base, loopVars, call, done, lost>>

(* The base queues are cleared one after the other, S in one or some of    *)
(* them: a late push is cleared or stays.  The deques keep what they have. *)
ClearBase ==
  /\ main = "clear"
  /\ \E S \in SUBSET base : base' = base \ S /\ lost' = lost \cup S
  /\ main' \in {"clear", "stopped"}
  /\ UNCHANGED <<stop, deque, loopVars, call, done>>

-----------------------------------------------------------------------------
StopStep  == WaitOver \/ SetFlag \/ Join \/ ClearBase
LoopStep(w) == FindIndex(w) \/ InsertIndex(w) \/ Leave(w) \/ Stay(w) \/ PopLocal(w)
                 \/ WaitEnds(w)

Next ==
  \/ Start \/ BeginStop \/ StopStep
  \/ \E w \in Workers : LoopStep(w) \/ Finish(w)
  \/ \E w \in Workers, v \in Deques : Steal(w, v)
  \/ \E th \in Threads : PushLocal(th) \/ PushOnBase(th)
  \/ \E th \in Threads, t \in Tasks : ScheduleOnBase(th, t)
  \/ \E th \in Threads, t \in Tasks, q \in Deques :
       Schedule(th, t, q) \/ ScheduleWithAffinity(th, t, q)

(* Threads that can run do, tasks return (they may submit others first),   *)
(* and a random victim is drawn again and again.                           *)
Spec ==
  /\ Init /\ [][Next]_vars
  /\ WF_vars(StopStep)
  /\ \A th \in Threads : WF_vars(PushLocal(th) \/ PushOnBase(th))
  /\ \A w \in Workers :
       /\ WF_vars(LoopStep(w)) /\ WF_vars(Finish(w))
       /\ \A v \in Deques : SF_vars(Steal(w, v))

-----------------------------------------------------------------------------
(* Properties                                                              *)

(* The variables have their types.                                         *)
TypeOK ==
  /\ main \in {"new", "serving", "wait", "flag", "join", "clear", "stopped"}
  /\ stop \in BOOLEAN
  /\ deque \in [Deques -> Seq(Funcs)] /\ base \subseteq Conts
  /\ mapped \subseteq Workers /\ index \in [Workers -> Deques \cup {NoIndex}]
  /\ pc \in [Workers -> {"none", "boot", "insert", "loop", "local", "steal",
                         "wait", "run", "exited"}]
  /\ tries \in [Workers -> Deques]
  /\ cur \in [Workers -> Tasks \cup {None}]
  /\ call \in [Threads -> [task : Tasks \cup {None}, q : Deques]]
  /\ done \subseteq Tasks /\ lost \subseteq Conts

(* Owners at the back and thieves at the front never take the same task,   *)
(* and no task is in two deques, even when two workers share an index.     *)
TakenOnce ==
  /\ \A v, w \in Workers : cur[v] = cur[w] /\ v # w => cur[v] = None
  /\ \A p, q \in Deques : \A i \in DOMAIN deque[p], j \in DOMAIN deque[q] :
       deque[p][i] = deque[q][j] => p = q /\ i = j
  /\ Queued \cap (Running \cup done) = {} /\ Running \cap done = {}

(* Although the map is read and written by all of them at once, no worker  *)
(* is turned away with an index out of range, and once they have all       *)
(* looked somebody owns the first deque.                                   *)
NobodyTurnedAway ==
  /\ \A w \in Workers : pc[w] \notin {"none", "boot"} => index[w] \in Deques
  /\ (\A w \in Workers : pc[w] \notin {"none", "boot"}) =>
       \E w \in Workers : index[w] = 0

(* A task in a deque is taken while the scheduler serves, also when its    *)
(* deque has no owner because two workers found the same index.            *)
QueuedIsTaken ==
  \A t \in Funcs : t \in Queued /\ main = "serving" ~> t \notin Queued \/ main # "serving"

(* stop() returns.                                                         *)
StopReturns == main = "wait" ~> main = "stopped"

(* What this class still promises: a task is started once, by one worker,  *)
(* none is thrown away before the flag is up, and of the deques' none even *)
(* then; but what is queued when the flag goes up stays there.             *)
Pool == INSTANCE TaskPool WITH
  Drains   <- FALSE,
  phase    <- IF stop THEN "closed" ELSE IF Started THEN "serving" ELSE "new",
  pending  <- Queued \cup base,
  running  <- Running,
  promised <- {}

PoolSafe == Pool!SafeSpec

(* README.md:271, "schedule hands the task to the right worker thread for  *)
(* execution": whatever was submitted runs while the scheduler serves.     *)
(* What was submitted through a Scheduler* does not.                       *)
SubmittedRuns ==
  \A t \in Tasks : t \in Queued \cup base /\ main = "serving"
                     ~> t \in done \/ main # "serving"

=============================================================================
