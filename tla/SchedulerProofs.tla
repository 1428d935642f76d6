-------------------------- MODULE SchedulerProofs --------------------------
(***************************************************************************)
(* What holds of Scheduler for any number of workers, clients and tasks:   *)
(* types; a task is in one place and in one pair of hands; the count of    *)
(* active coroutines, what stop() makes of it, and the length a queue can  *)
(* reach; which queue a worker listens on, what stop() drains, and the     *)
(* abstract pool.                                                          *)
(***************************************************************************)
EXTENDS Scheduler, FiniteSetTheorems, SequenceTheorems, TLAPS

-----------------------------------------------------------------------------
(* Types                                                                   *)

(* Reducing modulo thread_count_ yields the index of a queue.              *)
LEMMA ModuloIsQueue ==
  ASSUME NEW n \in Nat
  PROVE  n % ThreadCount \in Queues
BY ThreadsAssumption DEF Queues

(* What a thread inside schedule() holds, and what it may hold next.       *)
LEMMA CallFacts ==
  ASSUME CallsOK, NEW th \in Threads
  PROVE  /\ call[th].at # "idle" =>
              call[th] # Idle /\ call[th].task \in Tasks /\ call[th].q \in Queues
         /\ call[th].at = "idle" => call[th] = Idle
         /\ \A a \in {"admit", "size", "push"}, t \in Tasks, q \in Queues :
              [at |-> a, task |-> t, q |-> q] \in Calls \ {Idle}
         /\ 0 \in Queues
         /\ Idle \in Calls
BY ThreadsAssumption DEF CallsOK, Calls, Idle, Queues

(* What is queued is a task.                                               *)
LEMMA QueuedAreTasks ==
  ASSUME QueuesOK
  PROVE  /\ Queued \subseteq Tasks
         /\ \A q \in Queues : Elems(queue[q]) \subseteq Tasks
BY DEF QueuesOK, Queued, Elems

(* The initial state is well typed.                                        *)
LEMMA InitTypeOK == Init => TypeOK
<1> SUFFICES ASSUME Init PROVE TypeOK
  OBVIOUS
<1>1. OwnerOK
  <2>1. index \in 0 .. ThreadCount
    BY ThreadsAssumption DEF Init
  <2> QED
    BY <2>1, Zenon DEF Init, OwnerOK
<1>2. QueuesOK
  BY ThreadsAssumption DEF Init, QueuesOK, Queues
<1>3. WorkersOK
  BY NumbersAssumption DEF Init, WorkersOK
<1>4. CallsOK
  BY DEF Init, CallsOK, Calls, Threads
<1>5. TasksOK
  BY DEF Init, TasksOK
<1> QED
  BY <1>1, <1>2, <1>3, <1>4, <1>5 DEF TypeOK

(* Every step of a schedule() call keeps the types.                        *)
LEMMA CallTypeOK ==
  ASSUME TypeOK, NEW th \in Threads,
         CallStep(th) \/ \E t \in Tasks : Submit(th, t) \/ SubmitCoro(th, t)
  PROVE  TypeOK'
<1> USE DEF TypeOK
<1>a. /\ UNCHANGED <<ownerVars, workerVars>>
      /\ \A w \in Workers : w \in Threads
  BY DEF CallStep, Submit, SubmitCoro, Reject, Admit, CheckSize, Push, Threads
<1>b. OwnerOK' /\ WorkersOK'
  BY <1>a DEF OwnerOK, WorkersOK, ownerVars, workerVars
<1>c. nextQueue + 1 \in Nat
  BY ThreadsAssumption DEF QueuesOK, Queues
<1>d. (nextQueue + 1) % ThreadCount \in Queues
  BY <1>c, ModuloIsQueue
<1>e. pc' = pc
  BY <1>a DEF workerVars
<1>1. ASSUME NEW t \in Tasks, Submit(th, t) PROVE TypeOK'
  <2>1. QueuesOK' /\ TasksOK'
    BY <1>1 DEF Submit, QueuesOK, TasksOK, countVars
  <2>2. CallsOK'
    BY <1>1, <1>a, <1>e, CallFacts DEF Submit, CanCall, CallsOK
  <2> QED
    BY <1>b, <2>1, <2>2
<1>2. ASSUME NEW t \in Tasks, SubmitCoro(th, t) PROVE TypeOK'
  <2>1. QueuesOK' /\ TasksOK'
    BY <1>2, <1>d DEF SubmitCoro, CountNew, QueuesOK, TasksOK
  <2>2. CallsOK'
    BY <1>2, <1>a, <1>e, CallFacts DEF SubmitCoro, CanCall, CallsOK, QueuesOK
  <2> QED
    BY <1>b, <2>1, <2>2
<1>3. CASE Reject(th)
  <2>1. QueuesOK' /\ TasksOK'
    BY <1>3, CallFacts DEF Reject, QueuesOK, TasksOK, countVars
  <2>2. CallsOK'
    BY <1>3, <1>a, <1>e, CallFacts DEF Reject, CallsOK
  <2> QED
    BY <1>b, <2>1, <2>2
<1>4. CASE Admit(th)
  <2>1. QueuesOK' /\ TasksOK'
    BY <1>4, <1>d DEF Admit, QueuesOK, TasksOK, countVars
  <2>2. CallsOK'
    BY <1>4, <1>a, <1>e, CallFacts DEF Admit, CallsOK, QueuesOK
  <2> QED
    BY <1>b, <2>1, <2>2
<1>5. CASE CheckSize(th)
  <2>1. QueuesOK' /\ TasksOK'
    BY <1>5, CallFacts DEF CheckSize, QueuesOK, TasksOK, countVars
  <2>2. CallsOK'
    BY <1>5, <1>a, <1>e, CallFacts DEF CheckSize, CallsOK
  <2> QED
    BY <1>b, <2>1, <2>2
<1>6. CASE Push(th)
  <2>1. Append(queue[call[th].q], call[th].task) \in Seq(Tasks)
    BY <1>6, CallFacts DEF Push, QueuesOK
  <2>2. QueuesOK' /\ TasksOK'
    BY <1>6, <2>1 DEF Push, QueuesOK, TasksOK, countVars
  <2>3. CallsOK'
    BY <1>6, <1>a, <1>e, CallFacts DEF Push, CallsOK
  <2> QED
    BY <1>b, <2>2, <2>3
<1> QED
  BY <1>1, <1>2, <1>3, <1>4, <1>5, <1>6 DEF CallStep

(* Every step of a worker keeps the types.                                 *)
LEMMA WorkerTypeOK ==
  ASSUME TypeOK, NEW w \in Workers, LoopStep(w) \/ BodyEnds(w)
  PROVE  TypeOK'
<1> USE DEF TypeOK
<1>a. UNCHANGED <<ownerVars, nextQueue, begun, lost, foreign>>
  BY DEF LoopStep, BodyEnds, Boot, Pop, PopNothing, Wake, Decrement,
         ReturnFromYield, FinishFunc, FinalSuspend, Park, Yield
<1>b. OwnerOK' /\ main' = main
  BY <1>a DEF OwnerOK, ownerVars
<1>c. w \in Threads /\ call[w] \in Calls /\ (call[w].at = "idle" => call[w] = Idle)
  BY CallFacts DEF Threads, CallsOK
<1>d. cur[w] # None => cur[w] \in Tasks
  BY DEF WorkersOK
<1>1. CASE Boot(w)
  <2>1a. QueuesOK' /\ TasksOK'
    BY <1>1, NumbersAssumption, <1>a DEF Boot, QueuesOK, TasksOK, countVars
  <2>1b. WorkersOK'
    BY <1>1, NumbersAssumption, <1>a, <1>b DEF Boot, WorkersOK
  <2>2. CallsOK'
    BY <1>1 DEF Boot, CallsOK
  <2> QED
    BY <1>b, <2>1a, <2>1b, <2>2
<1>2. CASE Pop(w)
  <2> DEFINE q == MyQueue(w)
  <2>1. q \in Queues
    BY ModuloIsQueue DEF MyQueue, WorkersOK
  <2>2. queue[q] \in Seq(Tasks) /\ queue[q] # <<>>
    BY <1>2, <2>1 DEF Pop, QueuesOK
  <2>3. Head(queue[q]) \in Tasks /\ Tail(queue[q]) \in Seq(Tasks)
    BY <2>2
  <2>4a. QueuesOK' /\ TasksOK'
    BY <1>2, <2>3, <1>a DEF Pop, QueuesOK, TasksOK, countVars
  <2>4b. WorkersOK'
    BY <1>2, <2>3, <1>a, <1>b DEF Pop, WorkersOK
  <2>5. CallsOK'
    BY <1>2 DEF Pop, CallsOK
  <2> QED
    BY <1>b, <2>4a, <2>4b, <2>5
<1>3. CASE PopNothing(w) \/ Wake(w) \/ ReturnFromYield(w)
  <2>1a. QueuesOK' /\ TasksOK'
    BY <1>3, <1>a DEF PopNothing, Wake, ReturnFromYield, InBody, QueuesOK, TasksOK, countVars
  <2>1b. WorkersOK'
    BY <1>3, <1>a, <1>b DEF PopNothing, Wake, ReturnFromYield, InBody, WorkersOK
  <2>2. CallsOK'
    BY <1>c, <1>3 DEF PopNothing, Wake, ReturnFromYield, InBody, CallsOK, WorkersOK
  <2> QED
    BY <1>b, <2>1a, <2>1b, <2>2
<1>4. CASE Decrement(w)
  <2>1a. QueuesOK' /\ TasksOK'
    BY <1>4, <1>a DEF Decrement, QueuesOK, TasksOK, WorkersOK, Tasks
  <2>1b. WorkersOK'
    BY <1>4, <1>a, <1>b DEF Decrement, WorkersOK, Tasks
  <2>2. CallsOK'
    BY <1>4 DEF Decrement, CallsOK
  <2> QED
    BY <1>b, <2>1a, <2>1b, <2>2
<1>5. CASE FinishFunc(w)
  <2>1a. QueuesOK' /\ TasksOK'
    BY <1>5, <1>a DEF FinishFunc, InBody, QueuesOK, TasksOK, Tasks, countVars
  <2>1b. WorkersOK'
    BY <1>5, <1>a, <1>b DEF FinishFunc, InBody, WorkersOK, Tasks
  <2>2. CallsOK'
    BY <1>c, <1>5 DEF FinishFunc, InBody, CallsOK
  <2> QED
    BY <1>b, <2>1a, <2>1b, <2>2
<1>6. CASE FinalSuspend(w)
  <2>1. QueuesOK' /\ TasksOK'
    BY <1>6, <1>a DEF FinalSuspend, InBody, QueuesOK, TasksOK, Tasks
  <2>2. WorkersOK'
    BY <1>6, <1>a, <1>b DEF FinalSuspend, InBody, WorkersOK, Tasks
  <2>3. CallsOK'
    BY <1>c, <1>6 DEF FinalSuspend, InBody, CallsOK, WorkersOK
  <2> QED
    BY <1>b, <2>1, <2>2, <2>3
<1>7. CASE Park(w)
  <2>1a. QueuesOK' /\ TasksOK'
    BY <1>7, <1>a DEF Park, InBody, QueuesOK, TasksOK, Tasks, countVars
  <2>1b. WorkersOK'
    BY <1>7, <1>a, <1>b DEF Park, InBody, WorkersOK, Tasks
  <2>2. CallsOK'
    BY <1>c, <1>7 DEF Park, InBody, CallsOK
  <2> QED
    BY <1>b, <2>1a, <2>1b, <2>2
<1>8. CASE Yield(w)
  <2>1a. QueuesOK' /\ TasksOK'
    BY <1>8, <1>a DEF Yield, InBody, QueuesOK, TasksOK, countVars
  <2>1b. WorkersOK'
    BY <1>8, <1>a, <1>b DEF Yield, InBody, WorkersOK
  <2>2. [at |-> "admit", task |-> cur[w], q |-> 0] \in Calls
    BY <1>8, <1>c, CallFacts DEF Yield, Tasks
  <2>3. CallsOK'
    BY <1>8, <1>c, <2>2 DEF Yield, InBody, CallsOK
  <2> QED
    BY <1>b, <2>1a, <2>1b, <2>3
<1> QED
  BY <1>1, <1>2, <1>3, <1>4, <1>5, <1>6, <1>7, <1>8 DEF LoopStep, BodyEnds

(* Every step of the owner, and of another scheduler, keeps the types.     *)
LEMMA OwnerTypeOK ==
  ASSUME TypeOK,
         Start \/ BeginStop \/ Rescan \/ GiveUp \/ StopStep \/ ForeignBoot
  PROVE  TypeOK'
<1> USE DEF TypeOK
<1>1. CASE Start
  <2>1. OwnerOK' /\ QueuesOK' /\ TasksOK'
    BY <1>1 DEF Start, OwnerOK, QueuesOK, TasksOK, countVars
  <2>2. \A w \in Workers : pc[w] = "none"
    BY <1>1 DEF Start, WorkersOK
  <2>3. \A w \in Workers : cur[w] = None /\ call[w] = Idle
    BY <2>2 DEF WorkersOK, CallsOK
  <2>4. WorkersOK' /\ CallsOK'
    BY <1>1, <2>3 DEF Start, WorkersOK, CallsOK
  <2> QED
    BY <2>1, <2>4
<1>2. CASE BeginStop \/ Rescan \/ GiveUp
  <2>0. index' \in 0 .. ThreadCount
    BY <1>2, ThreadsAssumption DEF BeginStop, Rescan, GiveUp, OwnerOK
  <2>1. OwnerOK'
    BY <1>2, <2>0, Zenon DEF BeginStop, Rescan, GiveUp, OwnerOK, TasksOK
  <2>2. main' # "new" /\ UNCHANGED <<queue, nextQueue, promised, workerVars, call, outside,
                                    begun, countVars, done, lost>>
    BY <1>2 DEF BeginStop, Rescan, GiveUp
  <2>3. QueuesOK' /\ TasksOK' /\ WorkersOK' /\ CallsOK'
    BY <2>2 DEF QueuesOK, TasksOK, WorkersOK, CallsOK, workerVars, countVars
  <2> QED
    BY <2>1, <2>3
<1>3. CASE ScanQueue \/ ScanActive \/ Join \/ EndStop
  <2>1. OwnerOK' /\ QueuesOK' /\ TasksOK'
    BY <1>3, ThreadsAssumption DEF ScanQueue, ScanActive, Join, EndStop, OwnerOK, QueuesOK, TasksOK, countVars
  <2>2. WorkersOK' /\ CallsOK'
    BY <1>3 DEF ScanQueue, ScanActive, Join, EndStop, WorkersOK, CallsOK, workerVars
  <2> QED
    BY <2>1, <2>2
<1>4. CASE SetFlag
  <2>1. Queued \subseteq Tasks
    BY QueuedAreTasks
  <2>2. OwnerOK' /\ QueuesOK' /\ TasksOK'
    BY <1>4, <2>1 DEF SetFlag, OwnerOK, QueuesOK, TasksOK, countVars
  <2>3. WorkersOK' /\ CallsOK'
    BY <1>4 DEF SetFlag, WorkersOK, CallsOK, workerVars
  <2> QED
    BY <2>2, <2>3
<1>5. CASE ClearQueue
  <2>1. index \in Queues
    BY <1>5, ThreadsAssumption DEF ClearQueue, OwnerOK, Queues
  <2>2. Elems(queue[index]) \subseteq Tasks
    BY <2>1, QueuedAreTasks DEF Queued
  <2>3. OwnerOK'
    BY <1>5, ThreadsAssumption DEF ClearQueue, OwnerOK
  <2>4. QueuesOK' /\ TasksOK'
    BY <1>5, <2>1, <2>2 DEF ClearQueue, QueuesOK, TasksOK, countVars
  <2>5. WorkersOK' /\ CallsOK'
    BY <1>5 DEF ClearQueue, WorkersOK, CallsOK, workerVars
  <2> QED
    BY <2>3, <2>4, <2>5
<1>6. CASE ForeignBoot
  <2>1. OwnerOK' /\ QueuesOK' /\ TasksOK'
    BY <1>6 DEF ForeignBoot, OwnerOK, QueuesOK, TasksOK, ownerVars, countVars
  <2>2. WorkersOK' /\ CallsOK'
    BY <1>6, NumbersAssumption DEF ForeignBoot, WorkersOK, CallsOK, ownerVars
  <2> QED
    BY <2>1, <2>2
<1> QED
  BY <1>1, <1>2, <1>3, <1>4, <1>5, <1>6 DEF StopStep

(* The types are an invariant of the scheduler.                            *)
LEMMA NextTypeOK == TypeOK /\ [Next]_vars => TypeOK'
<1> SUFFICES ASSUME TypeOK, [Next]_vars PROVE TypeOK'
  OBVIOUS
<1>1. CASE Start \/ BeginStop \/ Rescan \/ GiveUp \/ StopStep \/ ForeignBoot
  BY <1>1, OwnerTypeOK
<1>2. CASE \E th \in Threads : \/ CallStep(th)
                               \/ \E t \in Tasks : Submit(th, t) \/ SubmitCoro(th, t)
  BY <1>2, CallTypeOK
<1>3. CASE \E w \in Workers : LoopStep(w) \/ BodyEnds(w)
  BY <1>3, WorkerTypeOK
<1>4. CASE UNCHANGED vars
  BY <1>4 DEF vars, ownerVars, workerVars, countVars, TypeOK, OwnerOK,
              QueuesOK, WorkersOK, CallsOK, TasksOK
<1> QED
  BY <1>1, <1>2, <1>3, <1>4 DEF Next

(* Every reachable state is well typed, and every worker holds a task only *)
(* where worker_thread() has one in hand.                                  *)
THEOREM Typing == SafeSpec => []TypeOK
BY InitTypeOK, NextTypeOK, PTL DEF SafeSpec

-----------------------------------------------------------------------------
(* How the three collections change                                        *)

(* A push adds its task to what is queued.                                 *)
LEMMA QueuedAfterPush ==
  ASSUME QueuesOK, QueuedOnce, NEW q \in Queues, NEW t \in Tasks, t \notin Queued,
         queue' = [queue EXCEPT ![q] = Append(@, t)]
  PROVE  Queued' = Queued \cup {t} /\ QueuedOnce'
<1> DEFINE s == queue[q]
<1>1. /\ s \in Seq(Tasks)
      /\ queue' \in [Queues -> Seq(Tasks)]
      /\ queue'[q] = Append(s, t)
      /\ \A p \in Queues \ {q} : queue'[p] = queue[p]
  BY DEF QueuesOK
<1>2. /\ DOMAIN queue'[q] = DOMAIN s \cup {Len(s) + 1}
      /\ Len(s) + 1 \notin DOMAIN s
      /\ queue'[q][Len(s) + 1] = t
      /\ \A i \in DOMAIN s : queue'[q][i] = s[i]
  BY <1>1
<1>3. \A p \in Queues : \A i \in DOMAIN queue[p] : queue[p][i] # t
  BY DEF Queued, Elems
<1>4. Elems(queue[q])' = Elems(s) \cup {t}
  BY <1>2 DEF Elems
<1>5. \A p \in Queues \ {q} : Elems(queue'[p]) = Elems(queue[p])
  BY <1>1
<1>6. Queued' = Queued \cup {t}
  BY <1>4, <1>5 DEF Queued
<1>7. QueuedOnce'
  <2> SUFFICES ASSUME NEW p1 \in Queues, NEW p2 \in Queues,
                      NEW i \in DOMAIN queue'[p1], NEW j \in DOMAIN queue'[p2],
                      queue'[p1][i] = queue'[p2][j]
               PROVE  p1 = p2 /\ i = j
    BY DEF QueuedOnce
  <2>1. CASE p1 = q /\ i = Len(s) + 1
    BY <2>1, <1>1, <1>2, <1>3
  <2>2. CASE p2 = q /\ j = Len(s) + 1
    BY <2>2, <1>1, <1>2, <1>3
  <2>3. CASE ~(p1 = q /\ i = Len(s) + 1) /\ ~(p2 = q /\ j = Len(s) + 1)
    <3>1. i \in DOMAIN queue[p1] /\ queue'[p1][i] = queue[p1][i]
      BY <2>3, <1>1, <1>2
    <3>2. j \in DOMAIN queue[p2] /\ queue'[p2][j] = queue[p2][j]
      BY <2>3, <1>1, <1>2
    <3> QED
      BY <3>1, <3>2 DEF QueuedOnce
  <2> QED
    BY <2>1, <2>2, <2>3
<1> QED
  BY <1>6, <1>7

(* A pop takes the front, and only it, out of what is queued.              *)
LEMMA QueuedAfterPop ==
  ASSUME QueuesOK, QueuedOnce, NEW q \in Queues, queue[q] # <<>>,
         queue' = [queue EXCEPT ![q] = Tail(@)]
  PROVE  /\ Head(queue[q]) \in Queued
         /\ Queued' = Queued \ {Head(queue[q])}
         /\ QueuedOnce'
<1> DEFINE s == queue[q]
<1>1. /\ s \in Seq(Tasks) /\ Len(s) \in Nat \ {0}
      /\ DOMAIN s = 1 .. Len(s)
      /\ Head(s) = s[1]
  BY DEF QueuesOK
<1>2. /\ queue'[q] = Tail(s)
      /\ \A p \in Queues \ {q} : queue'[p] = queue[p]
  BY DEF QueuesOK
<1>3. /\ DOMAIN queue'[q] = 1 .. Len(s) - 1
      /\ \A i \in 1 .. Len(s) - 1 : queue'[q][i] = s[i + 1]
  <2>1. /\ Tail(s) \in Seq(Tasks)
        /\ Len(Tail(s)) = Len(s) - 1
        /\ \A i \in 1 .. Len(s) - 1 : Tail(s)[i] = s[i + 1]
    BY <1>1
  <2>2. DOMAIN Tail(s) = 1 .. Len(s) - 1
    BY <2>1
  <2> QED
    BY <1>2, <2>1, <2>2
<1>4. Elems(queue'[q]) = Elems(s) \ {s[1]}
  <2>1. \A i \in DOMAIN queue'[q] : i + 1 \in DOMAIN s /\ s[i + 1] # s[1]
    BY <1>1, <1>3 DEF QueuedOnce
  <2>2. \A i \in DOMAIN s : s[i] # s[1] => i - 1 \in DOMAIN queue'[q] /\ (i - 1) + 1 = i
    BY <1>1, <1>3
  <2>3. Elems(queue'[q]) \subseteq Elems(s) \ {s[1]}
    BY <1>3, <2>1 DEF Elems
  <2>4. ASSUME NEW x \in Elems(s) \ {s[1]} PROVE x \in Elems(queue'[q])
    <3>1. PICK i \in DOMAIN s : x = s[i]
      BY <2>4 DEF Elems
    <3>2. i - 1 \in DOMAIN queue'[q] /\ (i - 1) + 1 = i
      BY <2>2, <3>1, <2>4
    <3>3. queue'[q][i - 1] = x
      BY <1>3, <3>1, <3>2
    <3> QED
      BY <3>2, <3>3 DEF Elems
  <2> QED
    BY <2>3, <2>4
<1>5. \A p \in Queues \ {q} : Elems(queue'[p]) = Elems(queue[p]) /\ s[1] \notin Elems(queue[p])
  BY <1>1, <1>2 DEF Elems, QueuedOnce
<1>6. Queued' = Queued \ {s[1]}
  BY <1>4, <1>5 DEF Queued
<1>7. s[1] \in Queued
  BY <1>1 DEF Queued, Elems
<1>8. QueuedOnce'
  <2> SUFFICES ASSUME NEW p1 \in Queues, NEW p2 \in Queues,
                      NEW i \in DOMAIN queue'[p1], NEW j \in DOMAIN queue'[p2],
                      queue'[p1][i] = queue'[p2][j]
               PROVE  p1 = p2 /\ i = j
    BY DEF QueuedOnce
  <2>1. \A p \in Queues : \A k \in DOMAIN queue'[p] :
          IF p = q THEN k + 1 \in DOMAIN queue[p] /\ queue'[p][k] = queue[p][k + 1] /\ k \in Nat
                   ELSE k \in DOMAIN queue[p] /\ queue'[p][k] = queue[p][k]
    BY <1>1, <1>2, <1>3
  <2>2. p1 = p2
    BY <2>1 DEF QueuedOnce
  <2>3. CASE p1 = q
    <3>1. i + 1 \in DOMAIN s /\ j + 1 \in DOMAIN s /\ s[i + 1] = s[j + 1] /\ i \in Nat /\ j \in Nat
      BY <2>1, <2>2, <2>3
    <3>2. i + 1 = j + 1
      BY <3>1 DEF QueuedOnce
    <3> QED
      BY <2>2, <3>1, <3>2
  <2>4. CASE p1 # q
    BY <2>1, <2>2, <2>4 DEF QueuedOnce
  <2> QED
    BY <2>2, <2>3, <2>4
<1> QED
  BY <1>1, <1>6, <1>7, <1>8

(* Clearing a queue takes its tasks, and only them, out of what is queued. *)
LEMMA QueuedAfterClear ==
  ASSUME QueuesOK, QueuedOnce, NEW q \in Queues,
         queue' = [queue EXCEPT ![q] = <<>>]
  PROVE  Queued' = Queued \ Elems(queue[q]) /\ QueuedOnce'
<1>1. /\ queue'[q] = <<>>
      /\ \A p \in Queues \ {q} : queue'[p] = queue[p]
  BY DEF QueuesOK
<1>2. Elems(queue'[q]) = {}
  BY <1>1 DEF Elems
<1>3. \A p \in Queues \ {q} : Elems(queue'[p]) = Elems(queue[p])
                                /\ Elems(queue[p]) \cap Elems(queue[q]) = {}
  BY <1>1 DEF Elems, QueuedOnce
<1>4. Queued' = Queued \ Elems(queue[q])
  BY <1>2, <1>3 DEF Queued
<1>5. QueuedOnce'
  BY <1>1 DEF QueuedOnce
<1> QED
  BY <1>4, <1>5

(* A thread that enters schedule() brings its task along.                  *)
LEMMA CallsAfterEntry ==
  ASSUME CallsOK, SubmittedByOne, NEW th \in Threads, call[th] = Idle,
         NEW c, c.task \in Tasks, c.task \notin InCall,
         call' = [call EXCEPT ![th] = c]
  PROVE  InCall' = InCall \cup {c.task} /\ SubmittedByOne'
<1>1. /\ call'[th] = c
      /\ \A a \in Threads \ {th} : call'[a] = call[a]
      /\ call[th].task = None
  BY DEF CallsOK, Idle
<1>2. \A a \in Threads : call[a].task # c.task
  BY TasksAssumption DEF InCall
<1>3. InCall' = InCall \cup {c.task}
  BY <1>1, TasksAssumption DEF InCall
<1>4. SubmittedByOne'
  BY <1>1, <1>2 DEF SubmittedByOne
<1> QED
  BY <1>3, <1>4

(* Inside schedule() it keeps it.                                          *)
LEMMA CallsAfterStep ==
  ASSUME CallsOK, SubmittedByOne, NEW th \in Threads,
         NEW c, c.task = call[th].task,
         call' = [call EXCEPT ![th] = c]
  PROVE  InCall' = InCall /\ SubmittedByOne'
<1>1. \A a \in Threads : call'[a].task = call[a].task
  BY DEF CallsOK
<1> QED
  BY <1>1 DEF InCall, SubmittedByOne

(* When it returns, it has let go of it, and nobody else has it.           *)
LEMMA CallsAfterReturn ==
  ASSUME CallsOK, SubmittedByOne, NEW th \in Threads, call[th].task \in Tasks,
         call' = [call EXCEPT ![th] = Idle]
  PROVE  /\ call[th].task \in InCall
         /\ InCall' = InCall \ {call[th].task}
         /\ SubmittedByOne'
<1>1. /\ call'[th].task = None
      /\ \A a \in Threads \ {th} : call'[a] = call[a]
  BY DEF CallsOK, Idle
<1>2. \A a \in Threads \ {th} : call[a].task # call[th].task
  BY TasksAssumption DEF SubmittedByOne
<1>3. call[th].task \in InCall
  BY TasksAssumption DEF InCall
<1>4. InCall' = InCall \ {call[th].task}
  BY <1>1, <1>2, <1>3 DEF InCall
<1>5. SubmittedByOne'
  BY <1>1 DEF SubmittedByOne
<1> QED
  BY <1>3, <1>4, <1>5

(* A worker that takes up a task executes it in addition to the others.    *)
LEMMA RunningAfterBegin ==
  ASSUME WorkersOK, ExecutedByOne, NEW w \in Workers, cur[w] = None,
         NEW t \in Tasks, t \notin Running,
         cur' = [cur EXCEPT ![w] = t]
  PROVE  Running' = Running \cup {t} /\ ExecutedByOne'
<1>1. /\ cur'[w] = t
      /\ \A v \in Workers \ {w} : cur'[v] = cur[v]
  BY DEF WorkersOK
<1>2. \A v \in Workers : cur[v] # t
  BY TasksAssumption DEF Running
<1>3. Running' = Running \cup {t}
  BY <1>1, TasksAssumption DEF Running
<1>4. ExecutedByOne'
  BY <1>1, <1>2 DEF ExecutedByOne
<1> QED
  BY <1>3, <1>4

(* A worker that puts its task down was the only one to execute it.        *)
LEMMA RunningAfterEnd ==
  ASSUME WorkersOK, ExecutedByOne, NEW w \in Workers, cur[w] \in Tasks,
         cur' = [cur EXCEPT ![w] = None]
  PROVE  /\ cur[w] \in Running
         /\ Running' = Running \ {cur[w]}
         /\ ExecutedByOne'
<1>1. /\ cur'[w] = None
      /\ \A v \in Workers \ {w} : cur'[v] = cur[v]
  BY DEF WorkersOK
<1>2. \A v \in Workers \ {w} : cur[v] # cur[w]
  BY TasksAssumption DEF ExecutedByOne
<1>3. cur[w] \in Running
  BY TasksAssumption DEF Running
<1>4. Running' = Running \ {cur[w]}
  BY <1>1, <1>2, <1>3 DEF Running
<1>5. ExecutedByOne'
  BY <1>1 DEF ExecutedByOne
<1> QED
  BY <1>3, <1>4, <1>5

-----------------------------------------------------------------------------
(* The invariant                                                           *)

(* At the start the application holds every task.                          *)
LEMMA InitOwnedOnce == Init => OwnedOnce
<1> SUFFICES ASSUME Init PROVE OwnedOnce
  OBVIOUS
<1>1. InCall = {} /\ Running = {}
  BY DEF Init, InCall, Running, Idle
<1>2. Queued = {} /\ QueuedOnce
  BY DEF Init, Queued, Elems, QueuedOnce
<1>3. SubmittedByOne /\ ExecutedByOne
  BY DEF Init, SubmittedByOne, ExecutedByOne, Idle
<1> QED
  BY <1>1, <1>2, <1>3 DEF Init, OwnedOnce, InOnePlace, NothingForgotten

(* A step of a schedule() call moves its task from one place to the next.  *)
LEMMA CallOwnedOnce ==
  ASSUME TypeOK, OwnedOnce, NEW th \in Threads,
         CallStep(th) \/ \E t \in Tasks : Submit(th, t) \/ SubmitCoro(th, t)
  PROVE  OwnedOnce'
<1> USE DEF TypeOK, OwnedOnce, InOnePlace, NothingForgotten
<1>a. UNCHANGED <<cur, done>>
  BY DEF CallStep, Submit, SubmitCoro, Reject, Admit, CheckSize, Push, workerVars
<1>b. ExecutedByOne' /\ Running' = Running
  BY <1>a DEF ExecutedByOne, Running
<1>c. queue' = queue => Queued' = Queued /\ QueuedOnce'
  BY DEF Queued, QueuedOnce
<1>1. ASSUME NEW t \in Tasks, Submit(th, t) \/ SubmitCoro(th, t) PROVE OwnedOnce'
  <2>1. PICK c : c.task = t /\ call' = [call EXCEPT ![th] = c]
    <3>1. CASE Submit(th, t)
      BY <3>1 DEF Submit
    <3>2. CASE SubmitCoro(th, t)
      BY <3>2 DEF SubmitCoro
    <3> QED
      BY <1>1, <3>1, <3>2
  <2>2. /\ t \in outside /\ outside' = outside \ {t}
        /\ call[th].at = "idle" /\ UNCHANGED <<queue, lost>>
    BY <1>1 DEF Submit, SubmitCoro, CanCall
  <2>3. InCall' = InCall \cup {t} /\ SubmittedByOne'
    BY <2>1, <2>2, CallFacts, CallsAfterEntry
  <2> QED
    BY <1>a, <1>b, <1>c, <2>2, <2>3
<1>2. CASE \/ Reject(th)
           \/ CheckSize(th) /\ Len(queue[call[th].q]) >= MaxQueueSize
  <2>1. /\ call[th].at # "idle" /\ lost' = lost \cup {call[th].task}
        /\ call' = [call EXCEPT ![th] = Idle] /\ UNCHANGED <<queue, outside>>
    BY <1>2 DEF Reject, CheckSize
  <2>2. InCall' = InCall \ {call[th].task} /\ call[th].task \in InCall /\ SubmittedByOne'
    BY <2>1, CallFacts, CallsAfterReturn
  <2> QED
    BY <1>a, <1>b, <1>c, <2>1, <2>2
<1>3. CASE \/ Admit(th)
           \/ CheckSize(th) /\ ~(Len(queue[call[th].q]) >= MaxQueueSize)
  <2>1. PICK c : c.task = call[th].task /\ call' = [call EXCEPT ![th] = c]
    <3>1. CASE Admit(th)
      BY <3>1 DEF Admit
    <3>2. CASE CheckSize(th) /\ ~(Len(queue[call[th].q]) >= MaxQueueSize)
      BY <3>2 DEF CheckSize
    <3> QED
      BY <1>3, <3>1, <3>2
  <2>2. UNCHANGED <<queue, outside, lost>>
    BY <1>3 DEF Admit, CheckSize
  <2>3. InCall' = InCall /\ SubmittedByOne'
    BY <2>1, CallsAfterStep
  <2> QED
    BY <1>a, <1>b, <1>c, <2>2, <2>3
<1>4. CASE Push(th)
  <2>1. /\ call[th].task \in Tasks /\ call[th].q \in Queues
        /\ call' = [call EXCEPT ![th] = Idle] /\ UNCHANGED <<outside, lost>>
        /\ queue' = [queue EXCEPT ![call[th].q] = Append(@, call[th].task)]
    BY <1>4, CallFacts DEF Push
  <2>2. InCall' = InCall \ {call[th].task} /\ call[th].task \in InCall /\ SubmittedByOne'
    BY <2>1, CallsAfterReturn
  <2>3. Queued' = Queued \cup {call[th].task} /\ QueuedOnce'
    BY <2>1, <2>2, QueuedAfterPush
  <2> QED
    BY <1>a, <1>b, <2>1, <2>2, <2>3
<1> QED
  BY <1>1, <1>2, <1>3, <1>4 DEF CallStep

(* A step of a worker moves its task from one place to the next.           *)
LEMMA WorkerOwnedOnce ==
  ASSUME TypeOK, OwnedOnce, NEW w \in Workers, LoopStep(w) \/ BodyEnds(w)
  PROVE  OwnedOnce'
<1> USE DEF TypeOK, OwnedOnce, InOnePlace, NothingForgotten
<1>a. lost' = lost
  BY DEF LoopStep, BodyEnds, Boot, Pop, PopNothing, Wake, Decrement,
         ReturnFromYield, FinishFunc, FinalSuspend, Park, Yield
<1>b. queue' = queue => Queued' = Queued /\ QueuedOnce'
  BY DEF Queued, QueuedOnce
<1>c. call' = call => InCall' = InCall /\ SubmittedByOne'
  BY DEF InCall, SubmittedByOne
<1>d. cur' = cur => Running' = Running /\ ExecutedByOne'
  BY DEF Running, ExecutedByOne
<1>e. w \in Threads /\ (cur[w] # None => cur[w] \in Tasks)
  BY DEF Threads, WorkersOK
<1>1. CASE Boot(w) \/ PopNothing(w) \/ Wake(w) \/ ReturnFromYield(w)
  <2>1. UNCHANGED <<queue, call, cur, outside, done>>
    BY <1>1 DEF Boot, PopNothing, Wake, ReturnFromYield
  <2> QED
    BY <2>1, <1>a, <1>b, <1>c, <1>d
<1>2. CASE Pop(w)
  <2> DEFINE q == MyQueue(w)
             t == Head(queue[q])
  <2>1. q \in Queues
    BY ModuloIsQueue DEF MyQueue, WorkersOK
  <2>2. /\ queue[q] # <<>> /\ cur[w] = None
        /\ queue' = [queue EXCEPT ![q] = Tail(@)]
        /\ cur' = [cur EXCEPT ![w] = t]
        /\ UNCHANGED <<call, outside, done>>
    BY <1>2 DEF Pop, WorkersOK
  <2>3. t \in Queued /\ Queued' = Queued \ {t} /\ QueuedOnce'
    BY <2>1, <2>2, QueuedAfterPop
  <2>4. t \in Tasks /\ t \notin Running
    BY <2>3, QueuedAreTasks
  <2>5. Running' = Running \cup {t} /\ ExecutedByOne'
    BY <2>2, <2>4, RunningAfterBegin
  <2> QED
    BY <2>2, <2>3, <2>5, <1>a, <1>c
<1>3. ASSUME cur[w] # None, cur' = [cur EXCEPT ![w] = None],
             UNCHANGED <<queue, call>>,
             \/ done' = done \cup {cur[w]} /\ outside' = outside
             \/ done' = done /\ outside' = outside \cup {cur[w]}
      PROVE  OwnedOnce'
  <2>1. cur[w] \in Running /\ Running' = Running \ {cur[w]} /\ ExecutedByOne'
    BY <1>3, <1>e, RunningAfterEnd
  <2> QED
    BY <1>3, <2>1, <1>a, <1>b, <1>c
<1>4. CASE Decrement(w) \/ FinishFunc(w) \/ Park(w)
  <2>1. cur[w] # None
    BY <1>4, TasksAssumption DEF Decrement, FinishFunc, Park, WorkersOK, Tasks
  <2> QED
    BY <1>3, <1>4, <2>1 DEF Decrement, FinishFunc, Park
<1>5. CASE FinalSuspend(w)
  <2>1. cur[w] # None
    BY <1>5, TasksAssumption DEF FinalSuspend, Tasks
  <2>2. CASE cur[w] \in counted /\ active > 0
    <3>1. UNCHANGED <<queue, call, cur, outside, done>>
      BY <1>5, <2>2 DEF FinalSuspend
    <3> QED
      BY <3>1, <1>a, <1>b, <1>c, <1>d
  <2>3. CASE ~(cur[w] \in counted /\ active > 0)
    BY <1>3, <1>5, <2>1, <2>3 DEF FinalSuspend
  <2> QED
    BY <2>2, <2>3
<1>6. CASE Yield(w)
  <2>1. /\ cur[w] \in Tasks /\ call[w].at = "idle"
        /\ cur' = [cur EXCEPT ![w] = None]
        /\ call' = [call EXCEPT ![w] = [at |-> "admit", task |-> cur[w], q |-> 0]]
        /\ UNCHANGED <<queue, outside, done>>
    BY <1>6 DEF Yield, InBody, Tasks
  <2>2. cur[w] \in Running /\ Running' = Running \ {cur[w]} /\ ExecutedByOne'
    BY <2>1, RunningAfterEnd
  <2>3. PICK c : c.task = cur[w] /\ call' = [call EXCEPT ![w] = c]
    BY <2>1
  <2>4. InCall' = InCall \cup {cur[w]} /\ SubmittedByOne'
    BY <2>1, <2>2, <2>3, <1>e, CallFacts, CallsAfterEntry
  <2> QED
    BY <2>1, <2>2, <2>4, <1>a, <1>b
<1> QED
  BY <1>1, <1>2, <1>4, <1>5, <1>6 DEF LoopStep, BodyEnds

(* stop() moves tasks only where it clears a queue.                        *)
LEMMA OwnerOwnedOnce ==
  ASSUME TypeOK, OwnedOnce,
         Start \/ BeginStop \/ Rescan \/ GiveUp \/ StopStep \/ ForeignBoot
  PROVE  OwnedOnce'
<1> USE DEF TypeOK, OwnedOnce, InOnePlace, NothingForgotten
<1>1. /\ UNCHANGED <<call, cur, outside, done>>
      /\ UNCHANGED <<queue, lost>> \/ ClearQueue
  BY DEF Start, BeginStop, Rescan, GiveUp, StopStep, ForeignBoot, ScanQueue,
         ScanActive, SetFlag, Join, ClearQueue, EndStop, workerVars
<1>2. /\ InCall' = InCall /\ SubmittedByOne'
      /\ Running' = Running /\ ExecutedByOne'
  BY <1>1 DEF InCall, SubmittedByOne, Running, ExecutedByOne
<1>3. CASE UNCHANGED <<queue, lost>>
  <2>1. Queued' = Queued /\ QueuedOnce'
    BY <1>3 DEF Queued, QueuedOnce
  <2> QED
    BY <1>1, <1>2, <1>3, <2>1
<1>4. CASE ClearQueue
  <2>1. index \in Queues
    BY <1>4, ThreadsAssumption DEF ClearQueue, OwnerOK, Queues
  <2>2. Queued' = Queued \ Elems(queue[index]) /\ QueuedOnce'
    BY <1>4, <2>1, QueuedAfterClear DEF ClearQueue
  <2>3. Elems(queue[index]) \subseteq Queued
    BY <2>1 DEF Queued
  <2>4. lost' = lost \cup Elems(queue[index])
    BY <1>4 DEF ClearQueue
  <2> QED
    BY <1>1, <1>2, <2>2, <2>3, <2>4
<1> QED
  BY <1>1, <1>3, <1>4

(* Every step preserves it.                                                *)
LEMMA NextOwnedOnce == TypeOK /\ OwnedOnce /\ [Next]_vars => OwnedOnce'
<1> SUFFICES ASSUME TypeOK, OwnedOnce, [Next]_vars PROVE OwnedOnce'
  OBVIOUS
<1>1. CASE Start \/ BeginStop \/ Rescan \/ GiveUp \/ StopStep \/ ForeignBoot
  BY <1>1, OwnerOwnedOnce
<1>2. CASE \E th \in Threads : \/ CallStep(th)
                               \/ \E t \in Tasks : Submit(th, t) \/ SubmitCoro(th, t)
  BY <1>2, CallOwnedOnce
<1>3. CASE \E w \in Workers : LoopStep(w) \/ BodyEnds(w)
  BY <1>3, WorkerOwnedOnce
<1>4. CASE UNCHANGED vars
  <2>1. UNCHANGED <<queue, call, cur, outside, done, lost>>
    BY <1>4 DEF vars, workerVars
  <2>2. InCall' = InCall /\ Queued' = Queued /\ Running' = Running
    BY <2>1 DEF InCall, Queued, Running
  <2>3. SubmittedByOne' /\ ExecutedByOne' /\ QueuedOnce'
    BY <2>1 DEF OwnedOnce, SubmittedByOne, ExecutedByOne, QueuedOnce
  <2> QED
    BY <2>1, <2>2, <2>3 DEF OwnedOnce, InOnePlace, NothingForgotten
<1> QED
  BY <1>1, <1>2, <1>3, <1>4 DEF Next

(* Whatever the interleaving of submissions, workers and stop(), a task is *)
(* in one place and in one pair of hands: never queued twice, never        *)
(* executed by two workers at once, never forgotten.                       *)
THEOREM Ownership == SafeSpec => []OwnedOnce
<1>1. TypeOK /\ OwnedOnce /\ [Next]_vars => TypeOK' /\ OwnedOnce'
  BY NextTypeOK, NextOwnedOnce
<1>2. Init => TypeOK /\ OwnedOnce
  BY InitTypeOK, InitOwnedOnce
<1> QED
  BY <1>1, <1>2, PTL DEF SafeSpec

-----------------------------------------------------------------------------
(* active_coroutines_                                                      *)

(* Workers between the load and the fetch_sub of the decrement.            *)
Decrementing == {w \in Workers : pc[w] = "dec"}

(* Only a coroutine that was submitted is counted.                         *)
CountInv == ActiveExact /\ counted \subseteq begun

(* Both parts of the count are numbers.                                    *)
LEMMA CountsAreNumbers ==
  ASSUME TypeOK
  PROVE  /\ IsFiniteSet(counted) /\ Cardinality(counted) \in Nat
         /\ IsFiniteSet(Decrementing) /\ Cardinality(Decrementing) \in Nat
<1>1. IsFiniteSet(Coros) /\ counted \subseteq Coros
  BY TasksAssumption DEF TypeOK, TasksOK
<1>2. IsFiniteSet(Workers) /\ Decrementing \subseteq Workers
  BY ThreadsAssumption DEF Decrementing
<1> QED
  BY <1>1, <1>2, FS_Subset, FS_CardinalityType

(* Whoever neither counts nor decrements leaves the sum as it is.          *)
LEMMA SumUnchanged ==
  ASSUME CountInv, UNCHANGED <<counted, active>>, begun \subseteq begun',
         Decrementing' = Decrementing
  PROVE  CountInv'
BY DEF CountInv, ActiveExact, Decrementing

(* Steps of schedule() calls keep the count exact.                         *)
LEMMA CallCountInv ==
  ASSUME TypeOK, CountInv, NEW th \in Threads,
         CallStep(th) \/ \E t \in Tasks : Submit(th, t) \/ SubmitCoro(th, t)
  PROVE  CountInv'
<1>1. Decrementing' = Decrementing
  BY DEF Decrementing, CallStep, Submit, SubmitCoro, Reject, Admit, CheckSize,
         Push, workerVars
<1>2. ASSUME NEW c \in Tasks, SubmitCoro(th, c), th \in Registered PROVE CountInv'
  <2>1. /\ c \notin counted /\ counted' = counted \cup {c}
        /\ active' = active + 1 /\ begun' = begun \cup {c}
    BY <1>2 DEF SubmitCoro, CountNew, CountInv
  <2>2. Cardinality(counted') = Cardinality(counted) + 1
    BY <2>1, CountsAreNumbers, FS_AddElement
  <2> QED
    BY <1>1, <2>1, <2>2, CountsAreNumbers DEF CountInv, ActiveExact, Decrementing
<1>3. CASE ~\E c \in Tasks : SubmitCoro(th, c) /\ th \in Registered
  <2>1. UNCHANGED <<counted, active>> /\ begun \subseteq begun'
    BY <1>3 DEF CallStep, Submit, SubmitCoro, CountNew, Reject, Admit, CheckSize,
                Push, countVars
  <2> QED
    BY <1>1, <2>1, SumUnchanged
<1> QED
  BY <1>2, <1>3

(* So do the workers: the load finds the counter above zero whenever the   *)
(* coroutine was counted, and the fetch_sub takes off what it stood for.   *)
LEMMA WorkerCountInv ==
  ASSUME TypeOK, CountInv, NEW w \in Workers, LoopStep(w) \/ BodyEnds(w)
  PROVE  CountInv'
<1>a. /\ begun' = begun
      /\ pc \in [Workers -> {"none", "boot", "pop", "run", "dec", "wait", "exited"}]
  BY DEF LoopStep, BodyEnds, Boot, Pop, PopNothing, Wake, Decrement,
         ReturnFromYield, FinishFunc, FinalSuspend, Park, Yield, TypeOK, WorkersOK
<1>1. CASE Decrement(w)
  <2>1. pc[w] = "dec" /\ pc' = [pc EXCEPT ![w] = "pop"] /\ active' = active - 1 /\ counted' = counted
    BY <1>1 DEF Decrement
  <2>2. w \in Decrementing /\ Decrementing' = Decrementing \ {w}
    BY <1>a, <2>1 DEF Decrementing
  <2>3. Cardinality(Decrementing') = Cardinality(Decrementing) - 1
    BY <2>2, CountsAreNumbers, FS_RemoveElement
  <2> QED
    BY <1>a, <2>1, <2>3, CountsAreNumbers DEF CountInv, ActiveExact, Decrementing
<1>2. CASE FinalSuspend(w) /\ cur[w] \in counted
  <2>1. Cardinality(counted \ {cur[w]}) = Cardinality(counted) - 1
    BY <1>2, CountsAreNumbers, FS_RemoveElement
  <2>2. Cardinality(counted \ {cur[w]}) \in Nat
    BY CountsAreNumbers, FS_RemoveElement, FS_CardinalityType
  <2>3. active > 0
    BY <2>1, <2>2, CountsAreNumbers DEF CountInv, ActiveExact, Decrementing
  <2>4. /\ pc[w] = "run" /\ pc' = [pc EXCEPT ![w] = "dec"]
        /\ active' = active /\ counted' = counted \ {cur[w]}
    BY <1>2, <2>3 DEF FinalSuspend, InBody
  <2>5. w \notin Decrementing /\ Decrementing' = Decrementing \cup {w}
    BY <1>a, <2>4 DEF Decrementing
  <2>6. Cardinality(Decrementing') = Cardinality(Decrementing) + 1
    BY <2>5, CountsAreNumbers, FS_AddElement
  <2> QED
    BY <1>a, <2>1, <2>4, <2>6, CountsAreNumbers DEF CountInv, ActiveExact, Decrementing
<1>3. CASE ~Decrement(w) /\ ~(FinalSuspend(w) /\ cur[w] \in counted)
  <2>1. UNCHANGED <<counted, active>>
    BY <1>3 DEF LoopStep, BodyEnds, Boot, Pop, PopNothing, Wake,
         ReturnFromYield, FinishFunc, FinalSuspend, Park, Yield, countVars
  <2>2. /\ pc[w] # "dec" /\ pc'[w] # "dec"
        /\ \A v \in Workers \ {w} : pc'[v] = pc[v]
    BY <1>3, <1>a DEF LoopStep, BodyEnds, Boot, Pop, PopNothing, Wake, InBody,
         ReturnFromYield, FinishFunc, FinalSuspend, Park, Yield
  <2>3. Decrementing' = Decrementing
    BY <1>a, <2>2 DEF Decrementing
  <2> QED
    BY <1>a, <2>1, <2>3, SumUnchanged
<1> QED
  BY <1>1, <1>2, <1>3

(* The owner leaves the count alone.                                       *)
LEMMA OwnerCountInv ==
  ASSUME TypeOK, CountInv,
         Start \/ BeginStop \/ Rescan \/ GiveUp \/ StopStep \/ ForeignBoot
  PROVE  CountInv'
<1>1. UNCHANGED <<counted, active, begun>>
  BY DEF Start, BeginStop, Rescan, GiveUp, StopStep, ForeignBoot, ScanQueue,
         ScanActive, SetFlag, Join, ClearQueue, EndStop, countVars
<1>2. Decrementing' = Decrementing
  <2>1. CASE Start
    BY <2>1 DEF Start, Decrementing, TypeOK, WorkersOK
  <2>2. CASE ~Start
    BY <2>2 DEF BeginStop, Rescan, GiveUp, StopStep, ForeignBoot, ScanQueue,
         ScanActive, SetFlag, Join, ClearQueue, EndStop, workerVars, Decrementing
  <2> QED
    BY <2>1, <2>2
<1> QED
  BY <1>1, <1>2, SumUnchanged

(* Nothing is counted at the start, and every step keeps the count exact.  *)
LEMMA InitCountInv == Init => CountInv
<1> SUFFICES ASSUME Init PROVE CountInv
  OBVIOUS
<1>1. counted = {} /\ active = 0 /\ Decrementing = {}
  BY DEF Init, Decrementing
<1> QED
  BY <1>1, FS_EmptySet DEF CountInv, ActiveExact, Decrementing

LEMMA NextCountInv == TypeOK /\ CountInv /\ [Next]_vars => CountInv'
<1> SUFFICES ASSUME TypeOK, CountInv, [Next]_vars PROVE CountInv'
  OBVIOUS
<1>1. CASE Start \/ BeginStop \/ Rescan \/ GiveUp \/ StopStep \/ ForeignBoot
  BY <1>1, OwnerCountInv
<1>2. CASE \E th \in Threads : \/ CallStep(th)
                               \/ \E t \in Tasks : Submit(th, t) \/ SubmitCoro(th, t)
  BY <1>2, CallCountInv
<1>3. CASE \E w \in Workers : LoopStep(w) \/ BodyEnds(w)
  BY <1>3, WorkerCountInv
<1>4. CASE UNCHANGED vars
  <2>1. UNCHANGED <<counted, active, begun, pc>>
    BY <1>4 DEF vars, workerVars, countVars
  <2> QED
    BY <2>1, SumUnchanged DEF Decrementing
<1> QED
  BY <1>1, <1>2, <1>3, <1>4 DEF Next

(* However many workers load and decrement at once, active_coroutines_ is  *)
(* the number of coroutines still to be uncounted.                         *)
THEOREM Counting == SafeSpec => []ActiveExact
<1>1. TypeOK /\ CountInv /\ [Next]_vars => TypeOK' /\ CountInv'
  BY NextTypeOK, NextCountInv
<1>2. Init => TypeOK /\ CountInv
  BY InitTypeOK, InitCountInv
<1>3. CountInv => ActiveExact
  BY DEF CountInv
<1> QED
  BY <1>1, <1>2, <1>3, PTL DEF SafeSpec

-----------------------------------------------------------------------------
(* What stop() waits for                                                   *)

(* What the wait of stop() goes by is submitted already.                   *)
WaitInv == WaitedForCounted /\ awaited \subseteq begun

(* The wait ends on a count of zero or on the time limit, and what is      *)
(* counted afterwards is newer than the call of stop().                    *)
LEMMA NextWaitInv == TypeOK /\ CountInv /\ WaitInv /\ [Next]_vars => WaitInv'
<1> SUFFICES ASSUME TypeOK, CountInv, WaitInv, [Next]_vars PROVE WaitInv'
  OBVIOUS
<1> USE DEF WaitInv, WaitedForCounted
<1>1. CASE BeginStop
  BY <1>1 DEF BeginStop, countVars
<1>2. CASE Start \/ Rescan \/ GiveUp \/ ScanQueue \/ SetFlag \/ Join \/ ClearQueue
           \/ EndStop \/ ForeignBoot
  BY <1>2 DEF Start, Rescan, GiveUp, ScanQueue, SetFlag, Join, ClearQueue, EndStop,
              ForeignBoot, countVars, ownerVars
<1>3. CASE ScanActive
  <2>1. CASE active = 0
    <3>1. Cardinality(counted) = 0
      BY <2>1, CountsAreNumbers DEF CountInv, ActiveExact, Decrementing
    <3>2. counted = {}
      BY <3>1, CountsAreNumbers, FS_EmptySet
    <3> QED
      BY <1>3, <3>2 DEF ScanActive, countVars
  <2>2. CASE active # 0
    BY <1>3, <2>2 DEF ScanActive, countVars
  <2> QED
    BY <2>1, <2>2
<1>4. CASE \E th \in Threads : \/ CallStep(th)
                               \/ \E t \in Tasks : Submit(th, t) \/ SubmitCoro(th, t)
  <2>1. UNCHANGED <<main, gaveUp, awaited>> /\ begun \subseteq begun'
    BY <1>4 DEF CallStep, Submit, SubmitCoro, Reject, Admit, CheckSize, Push, ownerVars
  <2>2. counted' \subseteq counted \/ \E c : c \notin begun /\ counted' = counted \cup {c}
    BY <1>4 DEF CallStep, Submit, SubmitCoro, CountNew, Reject, Admit, CheckSize,
                Push, countVars
  <2> QED
    BY <2>1, <2>2
<1>5. CASE \E w \in Workers : LoopStep(w) \/ BodyEnds(w)
  <2>1. UNCHANGED <<main, gaveUp, awaited, begun>> /\ counted' \subseteq counted
    BY <1>5 DEF LoopStep, BodyEnds, Boot, Pop, PopNothing, Wake, Decrement, ownerVars,
         ReturnFromYield, FinishFunc, FinalSuspend, Park, Yield, countVars
  <2> QED
    BY <2>1
<1>6. CASE UNCHANGED vars
  BY <1>6 DEF vars, ownerVars, countVars
<1> QED
  BY <1>1, <1>2, <1>3, <1>4, <1>5, <1>6 DEF Next, StopStep

(* If stop() did not run into its time limit, no coroutine that was        *)
(* submitted before the call is still counted when the flag goes up.       *)
THEOREM Waiting == SafeSpec => []WaitedForCounted
<1>1. TypeOK /\ CountInv /\ WaitInv /\ [Next]_vars => TypeOK' /\ CountInv' /\ WaitInv'
  BY NextTypeOK, NextCountInv, NextWaitInv
<1>2. Init => TypeOK /\ CountInv /\ WaitInv
  BY InitTypeOK, InitCountInv DEF Init, WaitInv, WaitedForCounted
<1>3. WaitInv => WaitedForCounted
  BY DEF WaitInv
<1> QED
  BY <1>1, <1>2, <1>3, PTL DEF SafeSpec

-----------------------------------------------------------------------------
(* How long a queue can get                                                *)

(* Threads past the size check, or not subject to it, on their way to q.   *)
Pushing ==
  [q \in Queues |-> {th \in Threads : call[th].at = "push" /\ call[th].q = q}]

(* The bound holds for what is queued and what is about to be.             *)
BacklogInv ==
  \A q \in Queues :
    Len(queue[q]) + Cardinality(Pushing[q])
      <= MaxQueueSize - 1 + Cardinality(Threads) + Cardinality(begun)

(* Lengths and counts are numbers, and no more threads push than there are.*)
LEMMA BacklogNumbers ==
  ASSUME TypeOK
  PROVE  /\ IsFiniteSet(begun) /\ Cardinality(begun) \in Nat
         /\ Cardinality(Threads) \in Nat
         /\ \A q \in Queues : /\ Len(queue[q]) \in Nat
                               /\ IsFiniteSet(Pushing[q])
                               /\ Cardinality(Pushing[q]) \in Nat
                               /\ Cardinality(Pushing[q]) <= Cardinality(Threads)
<1>1. IsFiniteSet(Threads)
  BY ThreadsAssumption, FS_Union DEF Threads
<1>2. IsFiniteSet(begun)
  BY TasksAssumption, FS_Subset DEF TypeOK, TasksOK
<1>3. \A q \in Queues : Len(queue[q]) \in Nat
  BY DEF TypeOK, QueuesOK
<1>4. \A q \in Queues : Pushing[q] \in SUBSET Threads
  BY DEF Pushing
<1> QED
  BY <1>1, <1>2, <1>3, <1>4, FS_Subset, FS_CardinalityType

(* A step of one call adds that thread to those pushing or takes it out.   *)
LEMMA PushingAfterStep ==
  ASSUME TypeOK, NEW th \in Threads, NEW c, call' = [call EXCEPT ![th] = c],
         NEW q \in Queues
  PROVE  LET was == call[th].at = "push" /\ call[th].q = q
             is  == c.at = "push" /\ c.q = q
         IN  /\ (was <=> is) => Pushing'[q] = Pushing[q]
             /\ Cardinality(Pushing'[q]) \in Nat
             /\ was /\ ~is => Cardinality(Pushing'[q]) = Cardinality(Pushing[q]) - 1
             /\ ~was /\ is => Cardinality(Pushing'[q]) = Cardinality(Pushing[q]) + 1
<1> DEFINE was == call[th].at = "push" /\ call[th].q = q
           is  == c.at = "push" /\ c.q = q
           S   == Pushing[q]
           T   == Pushing'[q]
<1>1. /\ call'[th] = c
      /\ \A a \in Threads \ {th} : call'[a] = call[a]
  BY DEF TypeOK, CallsOK
<1>2. /\ S = {a \in Threads : call[a].at = "push" /\ call[a].q = q}
      /\ T = {a \in Threads : call'[a].at = "push" /\ call'[a].q = q}
  BY DEF Pushing
<1>3. (th \in S <=> was) /\ (is => T = S \cup {th}) /\ (~is => T = S \ {th})
  BY <1>1, <1>2
<1>4. IsFiniteSet(S) /\ Cardinality(S) \in Nat
  BY BacklogNumbers
<1>5. /\ IsFiniteSet(S \cup {th}) /\ IsFiniteSet(S \ {th})
      /\ Cardinality(S \cup {th}) = IF th \in S THEN Cardinality(S) ELSE Cardinality(S) + 1
      /\ Cardinality(S \ {th}) = IF th \in S THEN Cardinality(S) - 1 ELSE Cardinality(S)
  BY <1>4, FS_AddElement, FS_RemoveElement
<1>6. IsFiniteSet(T) /\ Cardinality(T) \in Nat
  <2>1. IsFiniteSet(T)
    BY <1>3, <1>5
  <2> QED
    BY <2>1, FS_CardinalityType
<1>7. (was <=> is) => T = S
  BY <1>3
<1>8. (was /\ ~is => Cardinality(T) = Cardinality(S) - 1)
        /\ (~was /\ is => Cardinality(T) = Cardinality(S) + 1)
  <2>1. CASE was /\ ~is
    BY <2>1, <1>3, <1>5
  <2>2. CASE ~was /\ is
    BY <2>2, <1>3, <1>5
  <2> QED
    BY <2>1, <2>2
<1> QED
  BY <1>6, <1>7, <1>8

(* While nobody checks a size, pushes or submits a coroutine, the sum does *)
(* not grow.                                                               *)
LEMMA BacklogShrinks ==
  ASSUME TypeOK, BacklogInv, begun' = begun,
         \A q \in Queues : /\ Len(queue'[q]) \in Nat /\ Len(queue'[q]) <= Len(queue[q])
                           /\ Pushing'[q] = Pushing[q]
  PROVE  BacklogInv'
BY BacklogNumbers, NumbersAssumption DEF BacklogInv

(* A step of a schedule() call keeps the bound.                            *)
LEMMA CallBacklogInv ==
  ASSUME TypeOK, BacklogInv, NEW th \in Threads,
         CallStep(th) \/ \E t \in Tasks : Submit(th, t) \/ SubmitCoro(th, t)
  PROVE  BacklogInv'
<1>a. (call[th].at # "idle" => call[th].q \in Queues) /\ MaxQueueSize \in Nat
  BY CallFacts, NumbersAssumption DEF TypeOK
<1>1. CASE \/ Reject(th) \/ Admit(th) \/ \E t \in Tasks : Submit(th, t)
           \/ CheckSize(th) /\ Len(queue[call[th].q]) >= MaxQueueSize
  <2>1. UNCHANGED <<queue, begun>> /\ call[th].at # "push"
    BY <1>1 DEF Reject, Admit, Submit, CheckSize, CanCall
  <2>2. PICK c : c.at # "push" /\ call' = [call EXCEPT ![th] = c]
    BY <1>1 DEF Reject, Admit, Submit, CheckSize, Idle
  <2>3. \A q \in Queues : Pushing'[q] = Pushing[q]
    BY <2>1, <2>2, PushingAfterStep
  <2>4. \A q \in Queues : Len(queue'[q]) \in Nat /\ Len(queue'[q]) <= Len(queue[q])
    BY <2>1, BacklogNumbers
  <2> QED
    BY <2>1, <2>3, <2>4, BacklogShrinks
<1>2. CASE CheckSize(th) /\ ~(Len(queue[call[th].q]) >= MaxQueueSize)
  <2> DEFINE p == call[th].q
  <2>1. /\ p \in Queues /\ Len(queue[p]) <= MaxQueueSize - 1
        /\ UNCHANGED <<queue, begun>> /\ call[th].at = "size"
    BY <1>a, <1>2, BacklogNumbers DEF CheckSize
  <2>2. PICK c : c.at = "push" /\ c.q = p /\ call' = [call EXCEPT ![th] = c]
    BY <1>2 DEF CheckSize
  <2>3. \A q \in Queues \ {p} : Pushing'[q] = Pushing[q]
    BY <2>1, <2>2, PushingAfterStep
  <2>4. Pushing'[p] \in SUBSET Threads /\ IsFiniteSet(Threads)
    BY <2>1, ThreadsAssumption, FS_Union DEF Pushing, Threads
  <2>5. Cardinality(Pushing'[p]) \in Nat /\ Cardinality(Pushing'[p]) <= Cardinality(Threads)
    BY <2>4, FS_Subset, FS_CardinalityType
  <2>6. ASSUME NEW q \in Queues
        PROVE  Len(queue'[q]) + Cardinality(Pushing'[q])
                 <= MaxQueueSize - 1 + Cardinality(Threads) + Cardinality(begun')
    <3>1. CASE q = p
      BY <1>a, <2>1, <2>5, <3>1, BacklogNumbers
    <3>2. CASE q # p
      BY <2>1, <2>3, <3>2 DEF BacklogInv
    <3> QED
      BY <3>1, <3>2
  <2> QED
    BY <2>6 DEF BacklogInv
<1>3. CASE Push(th)
  <2> DEFINE p == call[th].q
  <2>1. /\ p \in Queues /\ begun' = begun /\ call[th].at = "push"
        /\ queue' = [queue EXCEPT ![p] = Append(@, call[th].task)]
    BY <1>a, <1>3 DEF Push
  <2>2. PICK c : c.at # "push" /\ call' = [call EXCEPT ![th] = c]
    BY <1>3 DEF Push, Idle
  <2>3. /\ \A q \in Queues \ {p} : Pushing'[q] = Pushing[q]
        /\ Cardinality(Pushing'[p]) = Cardinality(Pushing[p]) - 1
    BY <2>1, <2>2, PushingAfterStep
  <2>4. /\ \A q \in Queues \ {p} : queue'[q] = queue[q]
        /\ Len(queue'[p]) = Len(queue[p]) + 1
    BY <2>1, CallFacts DEF TypeOK, QueuesOK
  <2>5. ASSUME NEW q \in Queues
        PROVE  Len(queue'[q]) + Cardinality(Pushing'[q])
                 <= MaxQueueSize - 1 + Cardinality(Threads) + Cardinality(begun')
    <3>1. Len(queue'[q]) + Cardinality(Pushing'[q]) = Len(queue[q]) + Cardinality(Pushing[q])
      <4>1. CASE q = p
        <5>1. /\ Len(queue[p]) \in Nat /\ Cardinality(Pushing[p]) \in Nat
              /\ Len(queue'[p]) = Len(queue[p]) + 1
              /\ Cardinality(Pushing'[p]) = Cardinality(Pushing[p]) - 1
          BY <2>1, <2>3, <2>4, BacklogNumbers
        <5>2. Len(queue'[p]) + Cardinality(Pushing'[p]) = Len(queue[p]) + Cardinality(Pushing[p])
          BY <5>1
        <5> QED
          BY <4>1, <5>2
      <4>2. CASE q # p
        BY <2>3, <2>4, <4>2
      <4> QED
        BY <4>1, <4>2
    <3> QED
      BY <2>1, <3>1 DEF BacklogInv
  <2> QED
    BY <2>5 DEF BacklogInv
<1>4. ASSUME NEW t \in Tasks, SubmitCoro(th, t) PROVE BacklogInv'
  <2>1. PICK c : call' = [call EXCEPT ![th] = c]
    BY <1>4 DEF SubmitCoro
  <2>2. /\ call[th].at = "idle" /\ queue' = queue
        /\ begun' = begun \cup {t} /\ t \notin begun
    BY <1>4 DEF SubmitCoro, CanCall
  <2>3. Cardinality(begun') = Cardinality(begun) + 1
    BY <2>2, BacklogNumbers, FS_AddElement
  <2>4. ASSUME NEW q \in Queues
        PROVE  Len(queue'[q]) + Cardinality(Pushing'[q])
                 <= MaxQueueSize - 1 + Cardinality(Threads) + Cardinality(begun')
    <3>1. \/ Pushing'[q] = Pushing[q]
          \/ Cardinality(Pushing'[q]) = Cardinality(Pushing[q]) + 1
      BY <2>1, <2>2, PushingAfterStep
    <3>2. Len(queue[q]) + Cardinality(Pushing[q])
            <= MaxQueueSize - 1 + Cardinality(Threads) + Cardinality(begun)
      BY DEF BacklogInv
    <3> QED
      BY <1>a, <2>2, <2>3, <3>1, <3>2, BacklogNumbers
  <2> QED
    BY <2>4 DEF BacklogInv
<1> QED
  BY <1>1, <1>2, <1>3, <1>4 DEF CallStep

(* Workers and the owner only make queues shorter.                         *)
LEMMA OtherBacklogInv ==
  ASSUME TypeOK, BacklogInv,
         \/ Start \/ BeginStop \/ Rescan \/ GiveUp \/ StopStep \/ ForeignBoot
         \/ \E w \in Workers : LoopStep(w) \/ BodyEnds(w)
  PROVE  BacklogInv'
<1>1. begun' = begun
  BY DEF Start, BeginStop, Rescan, GiveUp, StopStep, ForeignBoot, ScanQueue,
         ScanActive, SetFlag, Join, ClearQueue, EndStop, LoopStep, BodyEnds, Boot,
         Pop, PopNothing, Wake, Decrement, ReturnFromYield, FinishFunc,
         FinalSuspend, Park, Yield
<1>2. \A q \in Queues : Pushing'[q] = Pushing[q]
  <2>1. CASE call' = call
    BY <2>1 DEF Pushing
  <2>2. ASSUME NEW w \in Workers, Yield(w) PROVE \A q \in Queues : Pushing'[q] = Pushing[q]
    <3>1. PICK c : c.at # "push" /\ call' = [call EXCEPT ![w] = c]
      BY <2>2 DEF Yield
    <3>2. w \in Threads /\ call[w].at # "push"
      BY <2>2 DEF Yield, InBody, Threads
    <3> QED
      BY <3>1, <3>2, PushingAfterStep
  <2> QED
    BY <2>1, <2>2 DEF Start, BeginStop, Rescan, GiveUp, StopStep, ForeignBoot,
         ScanQueue, ScanActive, SetFlag, Join, ClearQueue, EndStop, LoopStep,
         BodyEnds, Boot, Pop, PopNothing, Wake, Decrement, ReturnFromYield,
         FinishFunc, FinalSuspend, Park
<1>3. \A q \in Queues : Len(queue'[q]) \in Nat /\ Len(queue'[q]) <= Len(queue[q])
  <2>1. CASE queue' = queue
    BY <2>1, BacklogNumbers
  <2>2. CASE ClearQueue
    BY <2>2, BacklogNumbers DEF ClearQueue, TypeOK, QueuesOK
  <2>3. ASSUME NEW w \in Workers, Pop(w)
        PROVE  \A q \in Queues : Len(queue'[q]) \in Nat /\ Len(queue'[q]) <= Len(queue[q])
    <3> DEFINE p == MyQueue(w)
    <3>1. p \in Queues
      BY ModuloIsQueue DEF MyQueue, TypeOK, WorkersOK
    <3>2. queue[p] \in Seq(Tasks) /\ queue[p] # <<>> /\ queue' = [queue EXCEPT ![p] = Tail(@)]
      BY <2>3, <3>1 DEF Pop, TypeOK, QueuesOK
    <3>3. Len(Tail(queue[p])) = Len(queue[p]) - 1
      BY <3>2
    <3>4. /\ queue'[p] = Tail(queue[p])
          /\ \A q \in Queues \ {p} : queue'[q] = queue[q]
      BY <3>1, <3>2 DEF TypeOK, QueuesOK
    <3>5. Len(queue'[p]) \in Nat /\ Len(queue'[p]) <= Len(queue[p])
      BY <3>2, <3>3, <3>4
    <3>6. ASSUME NEW q \in Queues
          PROVE  Len(queue'[q]) \in Nat /\ Len(queue'[q]) <= Len(queue[q])
      <4>1. CASE q = p
        BY <3>5, <4>1
      <4>2. CASE q # p
        BY <3>4, <4>2, BacklogNumbers
      <4> QED
        BY <4>1, <4>2
    <3> QED
      BY <3>6
  <2> QED
    BY <2>1, <2>2, <2>3 DEF Start, BeginStop, Rescan, GiveUp, StopStep, ForeignBoot,
         ScanQueue, ScanActive, SetFlag, Join, EndStop, LoopStep, BodyEnds, Boot,
         PopNothing, Wake, Decrement, ReturnFromYield, FinishFunc, FinalSuspend,
         Park, Yield
<1> QED
  BY <1>1, <1>2, <1>3, BacklogShrinks

(* The size check and the push are two steps, and schedule(Task&&) checks  *)
(* nothing: a queue can pass max_queue_size_, but by no more than one task *)
(* per thread and one per coroutine that was submitted.                    *)
THEOREM Backlog == SafeSpec => []BacklogBounded
<1>1. TypeOK /\ BacklogInv /\ [Next]_vars => TypeOK' /\ BacklogInv'
  <2> SUFFICES ASSUME TypeOK, BacklogInv, [Next]_vars PROVE BacklogInv'
    BY NextTypeOK
  <2>1. CASE UNCHANGED vars
    <3>1. UNCHANGED <<queue, call, begun>>
      BY <2>1 DEF vars
    <3> QED
      BY <3>1, BacklogNumbers, BacklogShrinks DEF Pushing
  <2> QED
    BY <2>1, CallBacklogInv, OtherBacklogInv DEF Next
<1>2. Init => TypeOK /\ BacklogInv
  <2> SUFFICES ASSUME Init PROVE BacklogInv
    BY InitTypeOK
  <2>1. \A q \in Queues : Len(queue[q]) = 0 /\ Pushing[q] = {}
    BY DEF Init, Pushing, Idle
  <2>2. Cardinality(Threads) \in Nat /\ Cardinality(begun) = 0
    BY InitTypeOK, BacklogNumbers, FS_EmptySet DEF Init
  <2>3. Cardinality({}) = 0 /\ MaxQueueSize - 1 \in Nat
    BY FS_EmptySet, NumbersAssumption
  <2>4. \A q \in Queues : Len(queue[q]) + Cardinality(Pushing[q]) = 0
    <3>1. \A q \in Queues : Len(queue[q]) = 0 /\ Cardinality(Pushing[q]) = 0
      BY <2>1, <2>3, Zenon
    <3> QED
      BY <3>1
  <2>5. 0 <= MaxQueueSize - 1 + Cardinality(Threads) + Cardinality(begun)
    BY <2>2, <2>3
  <2> QED
    BY <2>4, <2>5 DEF BacklogInv
<1>3. TypeOK /\ BacklogInv => BacklogBounded
  BY BacklogNumbers, NumbersAssumption DEF BacklogInv, BacklogBounded
<1> QED
  BY <1>1, <1>2, <1>3, PTL DEF SafeSpec

-----------------------------------------------------------------------------
(* What follows is about a scheduler that starts alone: while workers of   *)
(* another one start at the same time, two workers may share a queue.      *)

(* Numbers drawn from thread_id_counter                                    *)

(* Two numbers less than n apart differ modulo n.                          *)
LEMMA ModDistinct ==
  ASSUME NEW n \in Nat \ {0}, NEW a \in Nat, NEW b \in Nat, a < b, b - a < n
  PROVE  a % n # b % n
<1> DEFINE p == a \div n
           q == b \div n
           r == a % n
<1> SUFFICES ASSUME a % n = b % n PROVE FALSE
  OBVIOUS
<1>1. p \in Int /\ q \in Int /\ r \in 0 .. n - 1
  OBVIOUS
<1>2. a = n * p + r
  OBVIOUS
<1>3. b = n * q + r
  OBVIOUS
<1> HIDE DEF p, q, r
<1>4. b - a = n * (q - p)
  BY <1>1, <1>2, <1>3
<1>5. q - p \in Int
  BY <1>1
<1>6. CASE q - p <= 0
  BY <1>4, <1>5, <1>6
<1>7. CASE q - p >= 1
  <2>1. n * (q - p) >= n
    BY <1>5, <1>7
  <2> QED
    BY <2>1, <1>4
<1> QED
  BY <1>5, <1>6, <1>7

(* Workers that have drawn their number.                                   *)
Booted == {w \in Workers : pc[w] \notin {"none", "boot"}}

(* They have drawn consecutive numbers, each another one.                  *)
TicketInv ==
  /\ counter = CounterAtStart + Cardinality(Booted)
  /\ \A w \in Booted : ticket[w] \in CounterAtStart .. counter - 1
  /\ \A v, w \in Booted : v # w => ticket[v] # ticket[w]

(* There are as many numbers drawn as workers, at most.                    *)
LEMMA BootedNumbers ==
  /\ IsFiniteSet(Booted) /\ Cardinality(Booted) \in Nat
  /\ Cardinality(Booted) <= ThreadCount
<1>1. Booted \in SUBSET Workers
  BY DEF Booted
<1> QED
  BY <1>1, ThreadsAssumption, FS_Subset, FS_CardinalityType

(* Only Boot draws a number.                                               *)
LEMMA NextTicketInv ==
  ASSUME ForeignStarts = 0, TypeOK, TicketInv, [Next]_vars
  PROVE  TicketInv'
<1>1. ASSUME NEW w \in Workers, Boot(w) PROVE TicketInv'
  <2>1. /\ pc[w] = "boot" /\ pc' = [pc EXCEPT ![w] = "pop"]
        /\ ticket' = [ticket EXCEPT ![w] = counter] /\ counter' = counter + 1
    BY <1>1 DEF Boot
  <2>2. w \notin Booted /\ Booted' = Booted \cup {w}
    BY <2>1 DEF Booted, TypeOK, WorkersOK
  <2>3. Cardinality(Booted') = Cardinality(Booted) + 1
    BY <2>2, BootedNumbers, FS_AddElement
  <2>4. /\ ticket'[w] = counter
        /\ \A v \in Booted : ticket'[v] = ticket[v]
    BY <2>1, <2>2 DEF Booted, TypeOK, WorkersOK
  <2>5. counter \in Nat /\ CounterAtStart \in Nat /\ CounterAtStart <= counter
    BY BootedNumbers, NumbersAssumption DEF TypeOK, WorkersOK, TicketInv
  <2>6. counter' = CounterAtStart + Cardinality(Booted')
    BY <2>1, <2>3, <2>5, BootedNumbers DEF TicketInv
  <2>7. \A v \in Booted' : ticket'[v] \in CounterAtStart .. counter' - 1
    BY <2>1, <2>2, <2>4, <2>5 DEF TicketInv
  <2>8. \A u, v \in Booted' : u # v => ticket'[u] # ticket'[v]
    BY <2>2, <2>4, <2>5 DEF TicketInv
  <2> QED
    BY <2>6, <2>7, <2>8 DEF TicketInv
<1>2. CASE UNCHANGED <<counter, ticket>> /\ Booted' = Booted
  BY <1>2 DEF TicketInv
<1>3. CASE Start
  <2>1. UNCHANGED <<counter, ticket>> /\ Booted' = Booted
    BY <1>3 DEF Start, Booted, TypeOK, WorkersOK
  <2> QED
    BY <1>2, <2>1
<1>4. CASE ForeignBoot
  BY <1>4 DEF ForeignBoot, TypeOK, WorkersOK
<1>5. CASE UNCHANGED <<counter, ticket, pc>>
  BY <1>2, <1>5 DEF Booted
<1>6. CASE \/ BeginStop \/ Rescan \/ GiveUp \/ StopStep \/ UNCHANGED vars
           \/ \E th \in Threads : CallStep(th)
           \/ \E th \in Threads, t \in Tasks : Submit(th, t) \/ SubmitCoro(th, t)
  BY <1>5, <1>6 DEF BeginStop, Rescan, GiveUp, StopStep, ScanQueue, ScanActive,
       SetFlag, Join, ClearQueue, EndStop, CallStep, Reject, Admit, CheckSize,
       Push, Submit, SubmitCoro, workerVars, vars
<1>7. ASSUME NEW w \in Workers, LoopStep(w) \/ BodyEnds(w), ~Boot(w)
      PROVE  TicketInv'
  <2>1. /\ UNCHANGED <<counter, ticket>>
        /\ pc[w] \notin {"none", "boot"} /\ pc'[w] \notin {"none", "boot"}
        /\ \A v \in Workers \ {w} : pc'[v] = pc[v]
    BY <1>7 DEF LoopStep, BodyEnds, Pop, PopNothing, Wake, Decrement, InBody,
         ReturnFromYield, FinishFunc, FinalSuspend, Park, Yield, TypeOK, WorkersOK
  <2> QED
    BY <1>2, <2>1 DEF Booted
<1> QED
  BY <1>1, <1>3, <1>4, <1>6, <1>7 DEF Next

(* Consecutive numbers reduced modulo thread_count_ differ.                *)
LEMMA TicketsArePrivate ==
  ASSUME TypeOK, TicketInv
  PROVE  PrivateQueues
<1> SUFFICES ASSUME NEW v \in Workers, NEW w \in Workers, v # w,
                    v \in Booted, w \in Booted
             PROVE  MyQueue(v) # MyQueue(w)
  BY DEF PrivateQueues, Booted
<1> DEFINE a == ticket[v]
           b == ticket[w]
<1>1. /\ a \in Nat /\ b \in Nat /\ a # b
      /\ a \in CounterAtStart .. counter - 1 /\ b \in CounterAtStart .. counter - 1
  BY DEF TicketInv, TypeOK, WorkersOK
<1>2. counter - CounterAtStart <= ThreadCount /\ counter \in Nat /\ CounterAtStart \in Nat
  BY BootedNumbers, NumbersAssumption, ThreadsAssumption DEF TicketInv, TypeOK, WorkersOK
<1>3. ThreadCount \in Nat \ {0}
  BY ThreadsAssumption
<1>4. CASE a < b
  <2>1. b - a < ThreadCount
    BY <1>1, <1>2, <1>3
  <2> QED
    BY <1>1, <1>3, <1>4, <2>1, ModDistinct DEF MyQueue
<1>5. CASE b < a
  <2>1. a - b < ThreadCount
    BY <1>1, <1>2, <1>3
  <2> QED
    BY <1>1, <1>3, <1>5, <2>1, ModDistinct DEF MyQueue
<1> QED
  BY <1>1, <1>4, <1>5

(* When all the workers run, every queue has one.                          *)
LEMMA EveryQueueServed ==
  ASSUME TypeOK, TicketInv, Booted = Workers
  PROVE  \A q \in Queues : \E w \in Workers : MyQueue(w) = q
<1> DEFINE f == [w \in Workers |-> MyQueue(w)]
<1>1. f \in Injection(Workers, Queues)
  <2>1. f \in [Workers -> Queues]
    BY ModuloIsQueue DEF MyQueue, TypeOK, WorkersOK
  <2>2. \A v, w \in Workers : f[v] = f[w] => v = w
    BY TicketsArePrivate DEF PrivateQueues, Booted
  <2> QED
    BY <2>1, <2>2 DEF Injection, IsInjective
<1>2. IsFiniteSet(Queues) /\ Cardinality(Queues) = ThreadCount
  BY FS_Interval, ThreadsAssumption DEF Queues
<1>3. f \in Surjection(Workers, Queues)
  BY <1>1, <1>2, FS_Injection, ThreadsAssumption
<1> QED
  BY <1>3 DEF Surjection

(* A scheduler that starts alone gives every worker a queue of its own,    *)
(* whatever earlier schedulers left in the counter.                        *)
THEOREM Privacy == ForeignStarts = 0 => (SafeSpec => []PrivateQueues)
<1> SUFFICES ASSUME ForeignStarts = 0 PROVE SafeSpec => []PrivateQueues
  OBVIOUS
<1>1. Init => TypeOK /\ TicketInv
  <2> SUFFICES ASSUME Init PROVE TicketInv
    BY InitTypeOK
  <2>1. Booted = {} /\ counter = CounterAtStart
    BY DEF Init, Booted
  <2> QED
    BY <2>1, FS_EmptySet, NumbersAssumption DEF TicketInv
<1>2. TypeOK /\ TicketInv /\ [Next]_vars => TypeOK' /\ TicketInv'
  BY NextTypeOK, NextTicketInv
<1>3. TypeOK /\ TicketInv => PrivateQueues
  BY TicketsArePrivate
<1> QED
  BY <1>1, <1>2, <1>3, PTL DEF SafeSpec

-----------------------------------------------------------------------------
(* What stop() drains                                                      *)

(* The phases of the owner against the flag and the workers.               *)
PhaseInv ==
  /\ main = "new" => ~stop
  /\ main \in {"join", "clear"} => stop
  /\ Started => \A w \in Workers : pc[w] # "none"
  /\ \A w \in Workers : pc[w] = "exited" => stop

(* What is promised has been accepted and not been begun, and a worker     *)
(* that left has left nothing of it behind.                                *)
PromiseInv ==
  /\ promised # {} => stop /\ Started
  /\ promised \subseteq Queued \cup lost
  /\ NothingLeftBehind

(* What holds whatever other schedulers do.                                *)
StopInv == TypeOK /\ OwnedOnce /\ PhaseInv /\ PromiseInv

(* Calls of schedule() leave the owner and the workers where they are.     *)
LEMMA CallPromiseInv ==
  ASSUME StopInv, NEW th \in Threads,
         CallStep(th) \/ \E t \in Tasks : Submit(th, t) \/ SubmitCoro(th, t)
  PROVE  PhaseInv' /\ PromiseInv'
<1> USE DEF StopInv, NothingLeftBehind
<1>1. UNCHANGED <<main, stop, pc, ticket, promised>> /\ lost \subseteq lost'
  BY DEF CallStep, Reject, Admit, CheckSize, Push, Submit, SubmitCoro, ownerVars, workerVars
<1>2. PhaseInv' /\ Started' = Started /\ \A w \in Workers : MyQueue(w)' = MyQueue(w)
  BY <1>1 DEF PhaseInv, Started, MyQueue
<1>3. CASE queue' = queue
  BY <1>1, <1>2, <1>3 DEF PromiseInv, Queued
<1>4. CASE Push(th)
  <2> DEFINE p == call[th].q
             t == call[th].task
  <2>1. /\ p \in Queues /\ t \in Tasks
        /\ queue' = [queue EXCEPT ![p] = Append(@, t)]
    BY <1>4, CallFacts DEF Push, TypeOK
  <2>2. t \in InCall
    BY <2>1, TasksAssumption DEF InCall
  <2>3. t \notin Queued /\ t \notin lost
    BY <2>2 DEF OwnedOnce, InOnePlace
  <2>4. Queued' = Queued \cup {t}
    BY <2>1, <2>3, QueuedAfterPush DEF TypeOK, OwnedOnce
  <2>5. t \notin promised
    BY <2>3 DEF PromiseInv
  <2>6. \A q \in Queues : Elems(queue'[q]) \subseteq Elems(queue[q]) \cup {t}
    BY <2>1 DEF TypeOK, QueuesOK, Elems
  <2>7. \A w \in Workers : MyQueue(w) \in Queues
    BY ModuloIsQueue DEF MyQueue, TypeOK, WorkersOK
  <2>8. \A w \in Workers : pc'[w] = "exited" =>
           Elems(queue'[MyQueue(w)]) \cap promised = {}
    BY <1>1, <2>5, <2>6, <2>7 DEF PromiseInv
  <2> QED
    BY <1>1, <1>2, <2>4, <2>8 DEF PromiseInv
<1> QED
  BY <1>2, <1>3, <1>4 DEF CallStep, Reject, Admit, CheckSize, Submit, SubmitCoro

(* A worker takes its task out of what is promised, and leaves when the    *)
(* flag is up and its queue empty.                                         *)
LEMMA WorkerPromiseInv ==
  ASSUME StopInv, NEW w \in Workers, LoopStep(w) \/ BodyEnds(w)
  PROVE  PhaseInv' /\ PromiseInv'
<1> USE DEF StopInv, NothingLeftBehind
<1>1. /\ UNCHANGED <<main, stop, lost>>
      /\ pc[w] # "none" /\ pc[w] # "exited" /\ pc'[w] # "none"
      /\ \A v \in Workers \ {w} : pc'[v] = pc[v] /\ ticket'[v] = ticket[v]
      /\ pc'[w] = "exited" => stop /\ queue[MyQueue(w)] = <<>> /\ Wake(w)
  BY DEF LoopStep, BodyEnds, Boot, Pop, PopNothing, Wake, Decrement, InBody, ownerVars,
         ReturnFromYield, FinishFunc, FinalSuspend, Park, Yield, TypeOK, WorkersOK
<1>2. Started /\ Started'
  BY <1>1 DEF Started
<1>3. PhaseInv'
  BY <1>1, <1>2 DEF PhaseInv
<1>4. \A v \in Workers \ {w} : MyQueue(v)' = MyQueue(v) /\ MyQueue(v) \in Queues
  BY <1>1, ModuloIsQueue DEF MyQueue, TypeOK, WorkersOK
<1>5. CASE Pop(w)
  <2> DEFINE q == MyQueue(w)
  <2>1. q \in Queues
    BY ModuloIsQueue DEF MyQueue, TypeOK, WorkersOK
  <2>2. /\ queue[q] # <<>> /\ queue' = [queue EXCEPT ![q] = Tail(@)]
        /\ promised' = promised \ {Head(queue[q])}
        /\ pc' = [pc EXCEPT ![w] = "run"]
    BY <1>5 DEF Pop
  <2>3. Queued' = Queued \ {Head(queue[q])}
    BY <2>1, <2>2, QueuedAfterPop DEF TypeOK, OwnedOnce
  <2>4. \A p \in Queues : Elems(queue'[p]) \subseteq Elems(queue[p])
    <3>1. queue[q] \in Seq(Tasks) /\ queue[q] # <<>>
      BY <2>1, <2>2 DEF TypeOK, QueuesOK
    <3>2. \A i \in DOMAIN Tail(queue[q]) :
             i + 1 \in DOMAIN queue[q] /\ Tail(queue[q])[i] = queue[q][i + 1]
      BY <3>1
    <3>3. \A p \in Queues : queue'[p] = IF p = q THEN Tail(queue[q]) ELSE queue[p]
      BY <2>1, <2>2 DEF TypeOK, QueuesOK
    <3>4. \A i \in DOMAIN Tail(queue[q]) : Tail(queue[q])[i] \in Elems(queue[q])
      BY <3>2 DEF Elems
    <3>5. Elems(Tail(queue[q])) \subseteq Elems(queue[q])
      BY <3>4 DEF Elems
    <3> QED
      BY <3>3, <3>5
  <2>5. pc'[w] # "exited"
    BY <2>2 DEF TypeOK, WorkersOK
  <2>6. ASSUME NEW v \in Workers, pc'[v] = "exited"
        PROVE  Elems(queue'[MyQueue(v)']) \cap promised' = {}
    <3>1. v # w /\ pc[v] = "exited" /\ MyQueue(v)' = MyQueue(v) /\ MyQueue(v) \in Queues
      BY <1>1, <1>4, <2>5, <2>6
    <3> QED
      BY <2>2, <2>4, <3>1 DEF PromiseInv
  <2>7. promised' \subseteq Queued' \cup lost'
    BY <1>1, <2>2, <2>3 DEF PromiseInv
  <2>8. promised' # {} => stop' /\ Started'
    BY <1>1, <1>2, <2>2 DEF PromiseInv
  <2> QED
    BY <1>3, <2>6, <2>7, <2>8 DEF PromiseInv
<1>6. CASE UNCHANGED <<queue, promised>>
  <2>1. Queued' = Queued
    BY <1>6 DEF Queued
  <2>2. ASSUME NEW v \in Workers, pc'[v] = "exited"
        PROVE  Elems(queue'[MyQueue(v)']) \cap promised' = {}
    <3>1. CASE v = w
      <4>1. Wake(w) /\ queue[MyQueue(w)] = <<>>
        BY <1>1, <2>2, <3>1
      <4>2. MyQueue(w)' = MyQueue(w)
        BY <4>1 DEF Wake, MyQueue
      <4>3. Elems(queue'[MyQueue(w)']) = {}
        BY <1>6, <4>1, <4>2 DEF Elems
      <4> QED
        BY <3>1, <4>3
    <3>2. CASE v # w
      BY <1>1, <1>4, <1>6, <2>2, <3>2 DEF PromiseInv
    <3> QED
      BY <3>1, <3>2
  <2> QED
    BY <1>1, <1>2, <1>3, <1>6, <2>1, <2>2 DEF PromiseInv
<1> QED
  BY <1>3, <1>5, <1>6 DEF LoopStep, BodyEnds, Boot, PopNothing, Wake, Decrement,
     ReturnFromYield, FinishFunc, FinalSuspend, Park, Yield

(* The owner promises what is queued when it raises the flag, and moves    *)
(* what is left in a queue to what is lost when it clears it.              *)
LEMMA OwnerPromiseInv ==
  ASSUME StopInv,
         Start \/ BeginStop \/ Rescan \/ GiveUp \/ StopStep \/ ForeignBoot
  PROVE  PhaseInv' /\ PromiseInv'
<1> USE DEF StopInv, NothingLeftBehind
<1>1. CASE Start
  <2>1. /\ main = "new" /\ main' = "serving" /\ UNCHANGED <<stop, queue, promised, ticket>>
        /\ pc' = [w \in Workers |-> "boot"]
    BY <1>1 DEF Start
  <2>2. promised = {}
    BY <2>1 DEF PromiseInv, PhaseInv
  <2> QED
    BY <2>1, <2>2 DEF PhaseInv, PromiseInv
<1>2. CASE BeginStop \/ Rescan \/ GiveUp \/ ScanQueue \/ ScanActive \/ EndStop \/ ForeignBoot
           \/ Join
  <2>1. /\ main' = main \/ main' \notin {"new", "join", "clear"}
           \/ (main = "join" /\ main' = "clear")
        /\ UNCHANGED <<stop, queue, promised, pc, ticket, lost>>
    BY <1>2 DEF BeginStop, Rescan, GiveUp, ScanQueue, ScanActive, EndStop, ForeignBoot, Join,
       ownerVars, workerVars, TypeOK, OwnerOK
  <2>2. /\ Started' = Started /\ Queued' = Queued
        /\ \A w \in Workers : MyQueue(w)' = MyQueue(w)
    BY <2>1 DEF Started, Queued, MyQueue
  <2> QED
    BY <2>1, <2>2 DEF PhaseInv, PromiseInv
<1>3. CASE SetFlag
  <2>1. /\ main = "flag" /\ main' = "join" /\ stop' /\ UNCHANGED <<queue, pc, ticket, lost>>
        /\ promised' = IF ~stop /\ Started THEN Queued ELSE promised
    BY <1>3 DEF SetFlag, workerVars
  <2>2. /\ Started' = Started /\ Queued' = Queued
        /\ \A w \in Workers : MyQueue(w)' = MyQueue(w)
    BY <2>1 DEF Started, Queued, MyQueue
  <2>3. PhaseInv'
    BY <2>1, <2>2 DEF PhaseInv
  <2>4. CASE ~stop /\ Started
    <3>1. \A w \in Workers : pc[w] # "exited"
      BY <2>4 DEF PhaseInv
    <3> QED
      BY <2>1, <2>2, <2>3, <2>4, <3>1 DEF PromiseInv
  <2>5. CASE ~(~stop /\ Started)
    BY <2>1, <2>2, <2>3, <2>5 DEF PromiseInv
  <2> QED
    BY <2>4, <2>5
<1>4. CASE ClearQueue
  <2> DEFINE S == Elems(queue[index])
  <2>1. /\ main = "clear" /\ index \in Queues
        /\ queue' = [queue EXCEPT ![index] = <<>>] /\ lost' = lost \cup S
        /\ UNCHANGED <<main, stop, promised, pc, ticket>>
    BY <1>4, ThreadsAssumption DEF ClearQueue, workerVars, TypeOK, OwnerOK, Queues
  <2>2. Queued' = Queued \ S
    BY <2>1, QueuedAfterClear DEF TypeOK, OwnedOnce
  <2>3. /\ Started' = Started
        /\ \A w \in Workers : MyQueue(w)' = MyQueue(w) /\ MyQueue(w) \in Queues
    BY <2>1, ModuloIsQueue DEF Started, MyQueue, TypeOK, WorkersOK
  <2>4. \A q \in Queues : Elems(queue'[q]) \subseteq Elems(queue[q])
    BY <2>1 DEF TypeOK, QueuesOK, Elems
  <2> QED
    BY <2>1, <2>2, <2>3, <2>4 DEF PhaseInv, PromiseInv
<1> QED
  BY <1>1, <1>2, <1>3, <1>4 DEF StopStep

(* The invariant holds at the start and every step preserves it.           *)
LEMMA InitStopInv == Init => StopInv
<1> SUFFICES ASSUME Init PROVE StopInv
  OBVIOUS
<1>1. PhaseInv /\ PromiseInv
  BY DEF Init, PhaseInv, PromiseInv, NothingLeftBehind, Started
<1> QED
  BY <1>1, InitTypeOK, InitOwnedOnce DEF StopInv

LEMMA NextStopInv == StopInv /\ [Next]_vars => StopInv'
<1> SUFFICES ASSUME StopInv, [Next]_vars PROVE StopInv'
  OBVIOUS
<1>1. TypeOK' /\ OwnedOnce'
  BY NextTypeOK, NextOwnedOnce DEF StopInv
<1>2. PhaseInv' /\ PromiseInv'
  <2>1. CASE UNCHANGED vars
    <3>1. UNCHANGED <<main, stop, queue, promised, pc, ticket, lost>>
      BY <2>1 DEF vars, ownerVars, workerVars
    <3>2. /\ Started' = Started /\ Queued' = Queued
          /\ \A w \in Workers : MyQueue(w)' = MyQueue(w)
      BY <3>1 DEF Started, Queued, MyQueue
    <3> QED
      BY <3>1, <3>2 DEF StopInv, PhaseInv, PromiseInv, NothingLeftBehind
  <2> QED
    BY <2>1, OwnerPromiseInv, CallPromiseInv, WorkerPromiseInv DEF Next
<1> QED
  BY <1>1, <1>2 DEF StopInv

(* Whatever other schedulers do meanwhile, a worker leaves nothing in its  *)
(* queue that stop() owes: what is thrown away lay where nobody listens.   *)
THEOREM Leaving == SafeSpec => []NothingLeftBehind
<1>1. StopInv => NothingLeftBehind
  BY DEF StopInv, PromiseInv
<1> QED
  BY <1>1, InitStopInv, NextStopInv, PTL DEF SafeSpec

-----------------------------------------------------------------------------
(* What stop() drains when every queue has a worker of its own             *)

(* What is promised is queued, and stop() waits for the workers.           *)
JoinInv == promised # {} => main = "join" /\ promised \subseteq Queued

(* All a proof of the next theorems needs to know of a state.              *)
DrainInv == StopInv /\ TicketInv /\ JoinInv

(* stop() passes the join only when every worker, and so every queue, is   *)
(* through.                                                                *)
LEMMA JoinedOwesNothing ==
  ASSUME DrainInv, \A w \in Workers : pc[w] \in {"none", "exited"}
  PROVE  promised = {}
<1> USE DEF DrainInv, StopInv
<1> SUFFICES ASSUME promised # {} PROVE FALSE
  OBVIOUS
<1>1. \A w \in Workers : pc[w] = "exited"
  BY DEF PromiseInv, PhaseInv
<1>2. \A q \in Queues : \E w \in Workers : MyQueue(w) = q
  BY <1>1, EveryQueueServed DEF Booted
<1>3. \A q \in Queues : Elems(queue[q]) \cap promised = {}
  BY <1>1, <1>2 DEF PromiseInv, NothingLeftBehind
<1> QED
  BY <1>3 DEF JoinInv, Queued

LEMMA NextJoinInv ==
  ASSUME DrainInv, [Next]_vars PROVE JoinInv'
<1> USE DEF DrainInv, StopInv
<1>1. CASE \E th \in Threads :
             CallStep(th) \/ \E t \in Tasks : Submit(th, t) \/ SubmitCoro(th, t)
  <2> PICK th \in Threads :
             CallStep(th) \/ \E t \in Tasks : Submit(th, t) \/ SubmitCoro(th, t)
    BY <1>1
  <2>1. UNCHANGED <<main, promised>>
    BY DEF CallStep, Reject, Admit, CheckSize, Push, Submit, SubmitCoro, ownerVars
  <2>2. CASE queue' = queue
    BY <2>1, <2>2 DEF JoinInv, Queued
  <2>3. CASE Push(th)
    <3>1. /\ call[th].q \in Queues /\ call[th].task \in Tasks
          /\ queue' = [queue EXCEPT ![call[th].q] = Append(@, call[th].task)]
      BY <2>3, CallFacts DEF Push, TypeOK
    <3>2. call[th].task \notin Queued
      BY <3>1, TasksAssumption DEF OwnedOnce, InOnePlace, InCall
    <3>3. Queued' = Queued \cup {call[th].task}
      BY <3>1, <3>2, QueuedAfterPush DEF TypeOK, OwnedOnce
    <3> QED
      BY <2>1, <3>3 DEF JoinInv
  <2> QED
    BY <2>2, <2>3 DEF CallStep, Reject, Admit, CheckSize, Submit, SubmitCoro
<1>2. CASE \E w \in Workers : LoopStep(w) \/ BodyEnds(w)
  <2> PICK w \in Workers : LoopStep(w) \/ BodyEnds(w)
    BY <1>2
  <2>1. main' = main
    BY DEF LoopStep, BodyEnds, Boot, Pop, PopNothing, Wake, Decrement, InBody, ownerVars,
       ReturnFromYield, FinishFunc, FinalSuspend, Park, Yield
  <2>2. CASE Pop(w)
    <3>1. MyQueue(w) \in Queues
      BY ModuloIsQueue DEF MyQueue, TypeOK, WorkersOK
    <3>2. Queued' = Queued \ {Head(queue[MyQueue(w)])}
      BY <2>2, <3>1, QueuedAfterPop DEF Pop, TypeOK, OwnedOnce
    <3> QED
      BY <2>1, <2>2, <3>2 DEF Pop, JoinInv
  <2>3. CASE UNCHANGED <<queue, promised>>
    BY <2>1, <2>3 DEF JoinInv, Queued
  <2> QED
    BY <2>2, <2>3 DEF LoopStep, BodyEnds, Boot, PopNothing, Wake, Decrement,
       ReturnFromYield, FinishFunc, FinalSuspend, Park, Yield
<1>3. CASE SetFlag
  <2>1. /\ main = "flag" /\ main' = "join" /\ UNCHANGED queue
        /\ promised' = IF ~stop /\ Started THEN Queued ELSE promised
    BY <1>3 DEF SetFlag
  <2>2. Queued' = Queued /\ promised = {}
    BY <2>1 DEF Queued, JoinInv
  <2> QED
    BY <2>1, <2>2 DEF JoinInv
<1>4. CASE Join
  <2>1. promised' = promised /\ \A w \in Workers : pc[w] \in {"none", "exited"}
    BY <1>4 DEF Join
  <2> QED
    BY <2>1, JoinedOwesNothing DEF JoinInv
<1>5. CASE \/ Start \/ BeginStop \/ Rescan \/ GiveUp
           \/ ScanQueue \/ ScanActive \/ ClearQueue \/ EndStop
  <2>1. promised' = promised /\ main # "join"
    BY <1>5 DEF Start, BeginStop, Rescan, GiveUp, ScanQueue, ScanActive, ClearQueue, EndStop
  <2> QED
    BY <2>1 DEF JoinInv
<1>6. CASE ForeignBoot \/ UNCHANGED vars
  <2>1. UNCHANGED <<main, promised, queue>>
    BY <1>6 DEF ForeignBoot, vars, ownerVars
  <2> QED
    BY <2>1 DEF JoinInv, Queued
<1> QED
  BY <1>1, <1>2, <1>3, <1>4, <1>5, <1>6 DEF Next, StopStep

LEMMA InitDrainInv == Init => DrainInv
<1> SUFFICES ASSUME Init PROVE DrainInv
  OBVIOUS
<1>1. TicketInv
  <2>1. Booted = {} /\ counter = CounterAtStart
    BY DEF Init, Booted
  <2> QED
    BY <2>1, FS_EmptySet, NumbersAssumption DEF TicketInv
<1>2. JoinInv
  BY DEF Init, JoinInv
<1> QED
  BY <1>1, <1>2, InitStopInv DEF DrainInv

LEMMA NextDrainInv ==
  ASSUME ForeignStarts = 0, DrainInv, [Next]_vars
  PROVE  DrainInv'
BY NextStopInv, NextTicketInv, NextJoinInv DEF DrainInv, StopInv

(* When stop() clears the queues, everything that was queued at the moment *)
(* the flag went up has been picked up by a worker.                        *)
THEOREM Draining == ForeignStarts = 0 => (SafeSpec => []Drained)
<1> SUFFICES ASSUME ForeignStarts = 0 PROVE SafeSpec => []Drained
  OBVIOUS
<1>1. DrainInv /\ [Next]_vars => DrainInv'
  BY NextDrainInv
<1>2. DrainInv => Drained
  BY DEF DrainInv, JoinInv, Drained
<1> QED
  BY <1>1, <1>2, InitDrainInv, PTL DEF SafeSpec

-----------------------------------------------------------------------------
(* The scheduler implements the pool of tasks                              *)

(* What the mapping reads is unchanged: the pool does not move.            *)
LEMMA PoolStutters ==
  ASSUME UNCHANGED <<stop, done, lost, promised>>,
         Started' = Started, Queued' = Queued, Running' = Running
  PROVE  UNCHANGED Pool!poolVars
BY DEF Pool!poolVars

(* Submitting, queueing and dropping: a call of schedule() accepts its     *)
(* task when it pushes, and refuses it when it returns before that.        *)
LEMMA CallImplements ==
  ASSUME StopInv, NEW th \in Threads,
         CallStep(th) \/ \E t \in Tasks : Submit(th, t) \/ SubmitCoro(th, t)
  PROVE  [Pool!Next]_(Pool!poolVars)
<1> DEFINE t == call[th].task
<1> USE DEF StopInv
<1>1. /\ UNCHANGED <<stop, done, promised>>
      /\ Started' = Started /\ Running' = Running
  BY DEF CallStep, Reject, Admit, CheckSize, Push, Submit, SubmitCoro, ownerVars, workerVars,
     Started, Running
<1>2. call[th].at # "idle" =>
         /\ t \in Tasks /\ t \in InCall
         /\ t \notin Pool!Known
  <2> SUFFICES ASSUME call[th].at # "idle"
               PROVE  t \in Tasks /\ t \in InCall /\ t \notin Pool!Known
    OBVIOUS
  <2>1. t \in Tasks /\ t \in InCall
    BY CallFacts, TasksAssumption DEF TypeOK, InCall
  <2> QED
    BY <2>1 DEF OwnedOnce, InOnePlace, Pool!Known
<1>3. ASSUME queue' = queue, lost' = lost \cup {t}, call[th].at # "idle"
      PROVE  Pool!Next
  <2>1. Queued' = Queued
    BY <1>3 DEF Queued
  <2>2. Pool!Refuse(t)
    BY <1>1, <1>2, <1>3, <2>1 DEF Pool!Refuse
  <2> QED
    BY <1>2, <1>3, <2>2 DEF Pool!Next
<1>4. ASSUME queue' = queue, lost' = lost
      PROVE  UNCHANGED Pool!poolVars
  <2>1. Queued' = Queued
    BY <1>4 DEF Queued
  <2> QED
    BY <1>1, <1>4, <2>1, PoolStutters
<1>5. CASE Push(th)
  <2>1. /\ call[th].at # "idle" /\ call[th].q \in Queues
        /\ queue' = [queue EXCEPT ![call[th].q] = Append(@, t)]
        /\ lost' = lost
    BY <1>5, CallFacts DEF Push, TypeOK
  <2>2. Queued' = Queued \cup {t}
    BY <1>2, <2>1, QueuedAfterPush DEF Pool!Known, TypeOK, OwnedOnce
  <2>3. Pool!Accept(t)
    BY <1>1, <1>2, <2>1, <2>2 DEF Pool!Accept
  <2> QED
    BY <1>2, <2>1, <2>3 DEF Pool!Next
<1>6. CASE Reject(th)
  BY <1>3, <1>6 DEF Reject
<1>7. CASE CheckSize(th)
  BY <1>3, <1>4, <1>7 DEF CheckSize
<1>8. CASE Admit(th) \/ \E u \in Tasks : Submit(th, u) \/ SubmitCoro(th, u)
  BY <1>4, <1>8 DEF Admit, Submit, SubmitCoro
<1> QED
  BY <1>5, <1>6, <1>7, <1>8 DEF CallStep

(* A worker begins what it pops, and finishes or suspends what it runs.    *)
LEMMA WorkerImplements ==
  ASSUME StopInv, NEW w \in Workers, LoopStep(w) \/ BodyEnds(w)
  PROVE  [Pool!Next]_(Pool!poolVars)
<1> DEFINE t == cur[w]
<1> USE DEF StopInv
<1>1. /\ UNCHANGED <<stop, lost>> /\ Started /\ Started' = Started
  <2>1. /\ UNCHANGED <<stop, lost>> /\ pc[w] # "none" /\ pc'[w] # "none"
    BY DEF LoopStep, BodyEnds, Boot, Pop, PopNothing, Wake, Decrement, InBody, ownerVars,
           ReturnFromYield, FinishFunc, FinalSuspend, Park, Yield, TypeOK, WorkersOK
  <2> QED
    BY <2>1 DEF Started
<1>2. ASSUME UNCHANGED <<queue, promised>>, cur' = [cur EXCEPT ![w] = None], t \in Tasks
      PROVE  /\ t \in Running /\ Running' = Running \ {t} /\ Queued' = Queued
  BY <1>2, RunningAfterEnd DEF TypeOK, OwnedOnce, Queued
<1>3. ASSUME UNCHANGED <<queue, promised, cur, done>>
      PROVE  UNCHANGED Pool!poolVars
  <2>1. Queued' = Queued /\ Running' = Running
    BY <1>3 DEF Queued, Running
  <2> QED
    BY <1>1, <1>3, <2>1, PoolStutters
<1>4. ASSUME UNCHANGED <<queue, promised>>, cur' = [cur EXCEPT ![w] = None], t \in Tasks,
             done' = done \cup {t}
      PROVE  Pool!Next
  <2>1. Pool!Finish(t)
    BY <1>1, <1>2, <1>4 DEF Pool!Finish
  <2> QED
    BY <1>4, <2>1 DEF Pool!Next
<1>5. ASSUME UNCHANGED <<queue, promised, done>>, cur' = [cur EXCEPT ![w] = None], t \in Tasks
      PROVE  Pool!Next
  <2>1. Pool!Suspend(t)
    BY <1>1, <1>2, <1>5 DEF Pool!Suspend
  <2> QED
    BY <1>5, <2>1 DEF Pool!Next
<1>6. CASE Pop(w)
  <2> DEFINE q == MyQueue(w)
             u == Head(queue[q])
  <2>1. q \in Queues
    BY ModuloIsQueue DEF MyQueue, TypeOK, WorkersOK
  <2>2. /\ queue[q] # <<>> /\ queue' = [queue EXCEPT ![q] = Tail(@)]
        /\ cur' = [cur EXCEPT ![w] = u] /\ promised' = promised \ {u}
        /\ pc[w] = "pop" /\ done' = done
    BY <1>6 DEF Pop
  <2>3. u \in Queued /\ Queued' = Queued \ {u}
    BY <2>1, <2>2, QueuedAfterPop DEF TypeOK, OwnedOnce
  <2>4. u \in Tasks /\ u \notin Running
    BY <2>3, QueuedAreTasks DEF TypeOK, OwnedOnce, InOnePlace
  <2>5. cur[w] = None
    BY <2>2 DEF TypeOK, WorkersOK
  <2>6. Running' = Running \cup {u}
    BY <2>2, <2>4, <2>5, RunningAfterBegin DEF TypeOK, OwnedOnce
  <2>7. Pool!Begin(u)
    BY <1>1, <2>2, <2>3, <2>6 DEF Pool!Begin
  <2> QED
    BY <2>4, <2>7 DEF Pool!Next
<1>7. CASE Boot(w) \/ PopNothing(w) \/ Wake(w) \/ ReturnFromYield(w)
  BY <1>3, <1>7 DEF Boot, PopNothing, Wake, ReturnFromYield
<1>8. CASE Decrement(w)
  <2>1. t \in Tasks
    BY <1>8 DEF Decrement, TypeOK, WorkersOK, Tasks
  <2> QED
    BY <1>4, <1>8, <2>1 DEF Decrement
<1>9. CASE FinishFunc(w)
  BY <1>4, <1>9 DEF FinishFunc, Tasks
<1>10. CASE FinalSuspend(w)
  BY <1>3, <1>4, <1>10 DEF FinalSuspend, Tasks
<1>11. CASE Park(w) \/ Yield(w)
  BY <1>5, <1>11 DEF Park, Yield, Tasks
<1> QED
  BY <1>6, <1>7, <1>8, <1>9, <1>10, <1>11 DEF LoopStep, BodyEnds

(* start() launches the pool and the flag closes it.                       *)
LEMMA OwnerImplements ==
  ASSUME StopInv,
         \/ Start \/ BeginStop \/ Rescan \/ GiveUp \/ ForeignBoot
         \/ ScanQueue \/ ScanActive \/ SetFlag \/ Join \/ EndStop
  PROVE  [Pool!Next]_(Pool!poolVars)
<1> USE DEF StopInv
<1>1. UNCHANGED <<cur, done>> /\ Running' = Running
  BY DEF Start, BeginStop, Rescan, GiveUp, ForeignBoot, ScanQueue,
     ScanActive, SetFlag, Join, EndStop, workerVars, Running
<1>2. CASE Start
  <2>1. /\ main = "new" /\ pc' = [w \in Workers |-> "boot"]
        /\ UNCHANGED <<stop, queue, promised, lost>>
    BY <1>2 DEF Start
  <2>2. ~stop /\ ~Started /\ Queued' = Queued
    BY <2>1 DEF PhaseInv, Started, TypeOK, WorkersOK, Queued
  <2>3. Workers # {}
    BY ThreadsAssumption, FS_EmptySet
  <2>4. Started'
    BY <2>1, <2>3 DEF Started
  <2>5. Pool!Launch
    BY <1>1, <2>1, <2>2, <2>4 DEF Pool!Launch
  <2> QED
    BY <2>5 DEF Pool!Next
<1>3. CASE SetFlag
  <2>1. /\ stop' /\ UNCHANGED <<queue, pc, lost>>
        /\ promised' = IF ~stop /\ Started THEN Queued ELSE promised
    BY <1>3 DEF SetFlag, workerVars
  <2>2. Started' = Started /\ Queued' = Queued
    BY <2>1 DEF Started, Queued
  <2>3. CASE stop
    <3>1. stop' = stop
      BY <2>1, <2>3 DEF TypeOK, OwnerOK
    <3> QED
      BY <1>1, <2>1, <2>2, <2>3, <3>1, PoolStutters
  <2>4. CASE ~stop
    <3>1. promised = {}
      BY <2>4 DEF PromiseInv
    <3>2. Pool!Close
      BY <1>1, <2>1, <2>2, <2>4, <3>1 DEF Pool!Close
    <3> QED
      BY <3>2 DEF Pool!Next
  <2> QED
    BY <2>3, <2>4
<1>4. CASE \/ BeginStop \/ Rescan \/ GiveUp \/ ForeignBoot
           \/ ScanQueue \/ ScanActive \/ Join \/ EndStop
  <2>1. UNCHANGED <<stop, queue, promised, lost, pc>>
    BY <1>4 DEF BeginStop, Rescan, GiveUp, ForeignBoot, ScanQueue, ScanActive, Join,
       EndStop, workerVars, ownerVars
  <2>2. Started' = Started /\ Queued' = Queued
    BY <2>1 DEF Started, Queued
  <2> QED
    BY <1>1, <2>1, <2>2, PoolStutters
<1> QED
  BY <1>2, <1>3, <1>4

(* Clearing a queue takes what is left in it out of what is queued.        *)
LEMMA ClearFacts ==
  ASSUME StopInv, ClearQueue
  PROVE  /\ stop /\ Started' = Started /\ Running' = Running
         /\ UNCHANGED <<stop, promised, done>>
         /\ \E S \in SUBSET Tasks :
              S \subseteq Queued /\ Queued' = Queued \ S /\ lost' = lost \cup S
<1> DEFINE S == Elems(queue[index])
<1> USE DEF StopInv
<1>1. /\ main = "clear" /\ index \in Queues
      /\ queue' = [queue EXCEPT ![index] = <<>>] /\ lost' = lost \cup S
      /\ UNCHANGED <<stop, promised, pc, cur, done>>
  BY ThreadsAssumption DEF ClearQueue, workerVars, TypeOK, OwnerOK, Queues
<1>2. stop /\ Started' = Started /\ Running' = Running
  BY <1>1 DEF PhaseInv, Started, Running
<1>3. /\ Queued' = Queued \ S /\ S \subseteq Queued /\ S \subseteq Tasks
  BY <1>1, QueuedAfterClear, QueuedAreTasks DEF TypeOK, OwnedOnce, Queued
<1> HIDE DEF S
<1> QED
  BY <1>1, <1>2, <1>3

(* Clearing a queue discards what is left in it: when every queue had a    *)
(* worker, nothing that was promised.                                      *)
LEMMA ClearImplements ==
  ASSUME DrainInv, ClearQueue
  PROVE  [Pool!Next]_(Pool!poolVars)
<1>1. promised = {}
  BY DEF DrainInv, JoinInv, ClearQueue
<1>2. PICK S \in SUBSET Tasks :
        S \subseteq Queued /\ Queued' = Queued \ S /\ lost' = lost \cup S
  BY ClearFacts DEF DrainInv
<1>3. CASE S = {}
  <2>1. Queued' = Queued /\ lost' = lost
    BY <1>2, <1>3
  <2> QED
    BY <2>1, ClearFacts, PoolStutters DEF DrainInv
<1>4. CASE S # {}
  <2>1. Pool!Discard(S)
    BY <1>1, <1>2, <1>4, ClearFacts DEF Pool!Discard, DrainInv
  <2> QED
    BY <2>1 DEF Pool!Next
<1> QED
  BY <1>3, <1>4

LEMMA PoolInit == Init => Pool!Init
<1> SUFFICES ASSUME Init PROVE Pool!Init
  OBVIOUS
<1>1. Queued = {} /\ Running = {} /\ ~Started
  BY DEF Init, Queued, Elems, Running, Started
<1> QED
  BY <1>1 DEF Init, Pool!Init

(* Every step but that one is a step of the pool whatever the other        *)
(* schedulers do.                                                          *)
LEMMA StepImplements ==
  ASSUME StopInv, [Next]_vars, ~ClearQueue
  PROVE  [Pool!Next]_(Pool!poolVars)
<1>1. CASE UNCHANGED vars
  <2>1. UNCHANGED <<stop, done, lost, promised, pc, queue, cur>>
    BY <1>1 DEF vars, ownerVars, workerVars
  <2>2. Started' = Started /\ Queued' = Queued /\ Running' = Running
    BY <2>1 DEF Started, Queued, Running
  <2> QED
    BY <2>1, <2>2, PoolStutters
<1> QED
  BY <1>1, CallImplements, WorkerImplements, OwnerImplements DEF Next, StopStep

(* The scheduler keeps the pool's promises: a queued task is begun once,   *)
(* by one worker, and stop() throws nothing away that it owes.             *)
THEOREM Refinement == ForeignStarts = 0 => (SafeSpec => PoolSafe)
<1> SUFFICES ASSUME ForeignStarts = 0 PROVE SafeSpec => PoolSafe
  OBVIOUS
<1>1. DrainInv /\ [Next]_vars => DrainInv'
  BY NextDrainInv
<1>2. Init => Pool!Init
  BY PoolInit
<1>3. DrainInv /\ [Next]_vars => [Pool!Next]_(Pool!poolVars)
  <2> SUFFICES ASSUME DrainInv, [Next]_vars, ~ClearQueue PROVE [Pool!Next]_(Pool!poolVars)
    BY ClearImplements
  <2> QED
    BY StepImplements DEF DrainInv
<1> QED
  BY <1>1, <1>2, <1>3, InitDrainInv, PTL DEF SafeSpec, PoolSafe, Pool!SafeSpec

(* Forgetting what is promised turns a pool that drains into one that need *)
(* not.                                                                    *)
LEMMA Loosens ==
  ASSUME [Pool!Next]_(Pool!poolVars)
  PROVE  [LoosePool!Next]_(LoosePool!poolVars)
<1>1. CASE UNCHANGED Pool!poolVars
  BY <1>1 DEF Pool!poolVars, LoosePool!poolVars
<1>2. CASE Pool!Launch
  BY <1>2 DEF Pool!Launch, LoosePool!Launch, LoosePool!Next
<1>3. CASE Pool!Close
  BY <1>3 DEF Pool!Close, LoosePool!Close, LoosePool!Next
<1>4. ASSUME NEW t \in Tasks,
             Pool!Accept(t) \/ Pool!Refuse(t) \/ Pool!Begin(t) \/ Pool!Suspend(t) \/ Pool!Finish(t)
      PROVE  LoosePool!Next
  <2>1. LoosePool!Accept(t) \/ LoosePool!Refuse(t) \/ LoosePool!Begin(t)
          \/ LoosePool!Suspend(t) \/ LoosePool!Finish(t)
    BY <1>4 DEF Pool!Accept, Pool!Refuse, Pool!Begin, Pool!Suspend, Pool!Finish, Pool!Known,
       LoosePool!Accept, LoosePool!Refuse, LoosePool!Begin, LoosePool!Suspend,
       LoosePool!Finish, LoosePool!Known
  <2> QED
    BY <2>1 DEF LoosePool!Next
<1>5. ASSUME NEW S \in SUBSET Tasks, Pool!Discard(S)
      PROVE  LoosePool!Next
  <2>1. LoosePool!Discard(S)
    BY <1>5 DEF Pool!Discard, LoosePool!Discard
  <2> QED
    BY <2>1 DEF LoosePool!Next
<1> QED
  BY <1>1, <1>2, <1>3, <1>4, <1>5 DEF Pool!Next

(* Whatever other schedulers do meanwhile, the scheduler is still a pool,  *)
(* although not one that drains: a task is begun once for each submission, *)
(* by one worker, and discarded only when the flag is up.                  *)
THEOREM LooseRefinement == SafeSpec => LooseSafe
<1>1. Init => LoosePool!Init
  BY PoolInit DEF Pool!Init, LoosePool!Init
<1>2. StopInv /\ [Next]_vars => [LoosePool!Next]_(LoosePool!poolVars)
  <2> SUFFICES ASSUME StopInv, [Next]_vars PROVE [LoosePool!Next]_(LoosePool!poolVars)
    OBVIOUS
  <2>1. CASE ClearQueue
    <3>1. PICK S \in SUBSET Tasks :
            S \subseteq Queued /\ Queued' = Queued \ S /\ lost' = lost \cup S
      BY <2>1, ClearFacts
    <3>2. CASE S = {}
      <4>1. Queued' = Queued /\ lost' = lost
        BY <3>1, <3>2
      <4> QED
        BY <2>1, <4>1, ClearFacts DEF LoosePool!poolVars
    <3>3. CASE S # {}
      <4>1. LoosePool!Discard(S)
        BY <2>1, <3>1, <3>3, ClearFacts DEF LoosePool!Discard
      <4> QED
        BY <4>1 DEF LoosePool!Next
    <3> QED
      BY <3>2, <3>3
  <2>2. CASE ~ClearQueue
    BY <2>2, StepImplements, Loosens
  <2> QED
    BY <2>1, <2>2
<1> QED
  BY <1>1, <1>2, InitStopInv, NextStopInv, PTL DEF SafeSpec, LooseSafe, LoosePool!SafeSpec

=============================================================================
