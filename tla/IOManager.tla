----------------------------- MODULE IOManager -----------------------------
(***************************************************************************)
(* modern_coro::IOManager in its epoll mode: I/O threads with an epoll     *)
(* instance and a table of descriptor contexts each, coroutines whose      *)
(* async_read, async_write, async_accept or async_connect would block, and *)
(* the resumption of these by the I/O threads.  Also the constructor,      *)
(* which may fall back to the synchronous mode, and the destructor.        *)
(*                                                                         *)
(* A coroutine stands for a Task that awaits one operation after another,  *)
(* with the frame of the operation it is in.  "read" is EPOLLIN (read and  *)
(* accept), "write" EPOLLOUT (write and connect).  epoll and the           *)
(* descriptors are the kernel's: edge triggered, a registration goes with  *)
(* the descriptor it is for.                                               *)
(***************************************************************************)
EXTENDS Naturals, FiniteSets

CONSTANTS
  IOThreadCount,  (* io_thread_count_                                      *)
  Fds,            (* descriptor numbers                                    *)
  Coros,          (* coroutines that do I/O                                *)
  MaxOps,         (* bound on the operations begun                        *)
  MaxCloses,      (* bound on the calls of close()                         *)
  MaxDeletes,     (* bound on the calls of del_event()                     *)
  Owned,          (* coroutines created on a thread of a scheduler         *)
  None            (* no coroutine, no thread, no descriptor                *)

ASSUME IOAssumption ==
  /\ IOThreadCount \in Nat \ {0} /\ MaxOps \in Nat /\ MaxCloses \in Nat
  /\ MaxDeletes \in Nat /\ Owned \subseteq Coros
  /\ None \notin Coros /\ None \notin Fds /\ None \notin Nat

Threads == 0 .. IOThreadCount - 1
Events  == {"read", "write"}

VARIABLES
  mode,          (* of the constructor, the epoll or sync mode, the end    *)
  built,         (* io_thread_contexts_.size()                             *)
  worker,        (* where each I/O thread is                               *)
  batch,         (* what epoll_wait gave each and is still to be handled   *)
  current,       (* the descriptor each handles, with its fd_mutex locked  *)
  onScheduler,   (* I/O threads that called register_thread()              *)
  stop,          (* the stop_flag of the contexts                          *)
  known,         (* the keys of each fd_contexts                           *)
  handle,        (* their read_handle and write_handle                     *)
  fdToThread,    (* fd_to_thread_                                          *)
  pc, op, on,    (* each coroutine: where, for what, in which I/O thread   *)
  deleter,       (* what a call of del_event looked up                     *)
  open, ready,   (* kernel: open descriptors and what is ready on each     *)
  interest,      (* kernel: the events registered per epoll and descriptor *)
  queued,        (* kernel: the ready list of each epoll                   *)
  ops, closes, deletes,      (* bounds                                     *)
  lost,          (* coroutines whose handle was overwritten or deleted     *)
  muted,         (* those whose interest a later registration replaced     *)
  dead           (* contexts of a descriptor that was closed since         *)

threadVars == <<mode, built, worker, batch, current, onScheduler, stop>>
tableVars  == <<known, handle, fdToThread>>
coroVars   == <<pc, op, on, ops>>
deleteVars == <<deleter, deletes>>
kernelVars == <<open, ready, interest, queued, closes>>
historyVars == <<lost, muted, dead>>
vars == <<threadVars, tableVars, coroVars, deleteVars, kernelVars,
          historyVars>>

NoOp == [fd |-> None, ev |-> None, at |-> None]

(* c waits and the context of its I/O thread holds its handle.             *)
Held(c) == pc[c] = "wait" /\ handle[op[c].at][op[c].fd][op[c].ev] = c

(* ... and epoll was told of the event c waits for.                        *)
Armed(c) == Held(c) /\ op[c].ev \in interest[op[c].at][op[c].fd]

(* A system call that does not block takes all there is, or leaves some.   *)
Consume(f, e) == ready' \in {ready, [ready EXCEPT ![f] = @ \ {e}]}

(* The events epoll_wait reports for f.                                    *)
Reported(t, f) == ready[f] \cap interest[t][f]

-----------------------------------------------------------------------------
(* Faulty variants: each breaks the property its comment names.            *)

(* WaitersRegistered: the entry is created before the test for it, so that *)
(* every registration is an EPOLL_CTL_MOD.                                 *)
RegistersAlwaysModify(t, f) == interest[t][f] # {}

(* ReadyIsServed: nothing is done for a descriptor the context knows.      *)
RegistersFirstOnly(t, f) == f \notin known[t] /\ f \in open

(* RegistersUnlocked: the I/O thread resumes without registering itself.   *)
RegisterThreadNot(t) == onScheduler

(* ResumesTheWaiting: the coroutine is resumed, its handle stays.          *)
DeliverKeepsHandle(t, e) ==
  LET f == current[t]  c == handle[t][f][e]
  IN /\ worker[t] = "batch" /\ f # None /\ <<f, e>> \in batch[t] /\ c # None
     /\ batch' = [batch EXCEPT ![t] = @ \ {<<f, e>>}]
     /\ pc' = [pc EXCEPT ![c] = "idle"]
     /\ op' = [op EXCEPT ![c] = NoOp]
     /\ UNCHANGED <<mode, built, worker, current, onScheduler, stop,
                    tableVars, on, ops, deleteVars, kernelVars, historyVars>>

-----------------------------------------------------------------------------
(* EPOLL_CTL_ADD succeeds for a descriptor new to the context that is      *)
(* open, EPOLL_CTL_MOD for one that epoll knows.                           *)
Registers(t, f) ==
  IF f \in known[t] THEN interest[t][f] # {} ELSE f \in open

(* register_thread() in io_worker, ahead of each resume().                 *)
RegisterThread(t) == onScheduler \cup {t}

Init ==
  /\ mode = "init" /\ built = 0 /\ stop = FALSE
  /\ worker = [t \in Threads |-> "none"]
  /\ batch = [t \in Threads |-> {}]
  /\ current = [t \in Threads |-> None]
  /\ onScheduler = {}
  /\ known = [t \in Threads |-> {}]
  /\ handle = [t \in Threads |-> [f \in Fds |-> [e \in Events |-> None]]]
  /\ fdToThread = [f \in Fds |-> None]
  /\ pc = [c \in Coros |-> "idle"] /\ op = [c \in Coros |-> NoOp]
  /\ on = [c \in Coros |-> None]
  /\ ops = 0
  /\ deleter = None /\ deletes = 0
  /\ open = Fds /\ ready = [f \in Fds |-> {}]
  /\ interest = [t \in Threads |-> [f \in Fds |-> {}]]
  /\ queued = [t \in Threads |-> {}]
  /\ closes = 0
  /\ lost = {} /\ muted = {} /\ dead = {}

-----------------------------------------------------------------------------
(* The constructor                                                         *)

(* The thread of the next context starts before the context is in the      *)
(* vector ...                                                              *)
StartThread ==
  /\ mode = "init" /\ built < IOThreadCount /\ worker[built] = "none"
  /\ worker' = [worker EXCEPT ![built] = "boot"]
  /\ UNCHANGED <<mode, built, batch, current, onScheduler, stop, tableVars,
                 coroVars, deleteVars, kernelVars, historyVars>>

PushContext ==
  /\ mode = "init" /\ built < IOThreadCount /\ worker[built] # "none"
  /\ built' = built + 1
  /\ mode' = IF built' = IOThreadCount THEN "epoll" ELSE mode
  /\ UNCHANGED <<worker, batch, current, onScheduler, stop, tableVars,
                 coroVars, deleteVars, kernelVars, historyVars>>

(* ... epoll_create1, pipe or epoll_ctl failed: the synchronous mode.      *)
InitFails ==
  /\ mode = "init" /\ built < IOThreadCount /\ worker[built] = "none"
  /\ mode' = "sync"
  /\ UNCHANGED <<built, worker, batch, current, onScheduler, stop, tableVars,
                 coroVars, deleteVars, kernelVars, historyVars>>

-----------------------------------------------------------------------------
(* A coroutine: async_read, async_write, async_accept, async_connect       *)

(* In the synchronous mode a thread makes the blocking call.               *)
SyncCall(c, f, e) ==
  /\ mode = "sync" /\ pc[c] = "idle" /\ ops < MaxOps
  /\ f \in open /\ e \in ready[f]
  /\ Consume(f, e)
  /\ ops' = ops + 1
  /\ UNCHANGED <<threadVars, tableVars, pc, op, on, deleteVars, open,
                 interest, queued, closes, historyVars>>

(* The call that was made first did not block ...                          *)
CallAtOnce(c, f, e) ==
  /\ mode = "epoll" /\ pc[c] = "idle" /\ ops < MaxOps
  /\ f \in open /\ e \in ready[f]
  /\ Consume(f, e)
  /\ ops' = ops + 1
  /\ UNCHANGED <<threadVars, tableVars, pc, op, on, deleteVars, open,
                 interest, queued, closes, historyVars>>

(* ... or it would have: the awaiter suspends and calls add_event.  The    *)
(* counter that gave t advances with the operations of everybody.          *)
WouldBlock(c, f, e, t) ==
  /\ mode = "epoll" /\ pc[c] = "idle" /\ ops < MaxOps
  /\ f \in open /\ e \notin ready[f]
  /\ pc' = [pc EXCEPT ![c] = "suspend"]
  /\ op' = [op EXCEPT ![c] = [fd |-> f, ev |-> e, at |-> t]]
  /\ ops' = ops + 1
  /\ UNCHANGED <<threadVars, tableVars, on, deleteVars, kernelVars,
                 historyVars>>

(* A failure of epoll_ctl is only logged.                                  *)
AddEvent(c) ==
  LET f == op[c].fd  e == op[c].ev  t == op[c].at
      other == {handle[t][f][d] : d \in Events \ {e}} \ {None}
  IN /\ pc[c] = "suspend" /\ current[t] = None
     /\ known' = [known EXCEPT ![t] = @ \cup {f}]
     /\ handle' = [handle EXCEPT ![t][f][e] = c]
     /\ fdToThread' = [fdToThread EXCEPT ![f] = t]
     /\ IF Registers(t, f)
          THEN /\ interest' = [interest EXCEPT ![t][f] = {e}]
               /\ queued' = [queued EXCEPT ![t] =
                               IF e \in ready[f] THEN @ \cup {f} ELSE @]
               /\ muted' = muted \cup other
          ELSE UNCHANGED <<interest, queued, muted>>
     /\ lost' = lost \cup ({handle[t][f][e]} \ {None})
     /\ dead' = IF f \in open THEN dead ELSE dead \cup {<<t, f>>}
     /\ pc' = [pc EXCEPT ![c] = "wait"]
     /\ on' = [on EXCEPT ![c] = None]
     /\ UNCHANGED <<threadVars, op, ops, deleteVars, open, ready, closes>>

-----------------------------------------------------------------------------
(* del_event, from any thread: the I/O thread is looked up first ...       *)
LookUp(f) ==
  /\ deleter = None /\ deletes < MaxDeletes /\ mode = "epoll"
  /\ fdToThread[f] # None
  /\ deleter' = <<fdToThread[f], f>>
  /\ deletes' = deletes + 1
  /\ UNCHANGED <<threadVars, tableVars, coroVars, kernelVars, historyVars>>

(* ... and the handle for e is cleared under its lock.                     *)
DelEvent(e) ==
  LET t == deleter[1]  f == deleter[2]
      last == \A d \in Events \ {e} : handle[t][f][d] = None
  IN /\ deleter # None /\ current[t] = None
     /\ IF f \in known[t]
          THEN /\ handle' = [handle EXCEPT ![t][f][e] = None]
               /\ lost' = lost \cup ({handle[t][f][e]} \ {None})
               /\ IF last
                    THEN /\ known' = [known EXCEPT ![t] = @ \ {f}]
                         /\ fdToThread' = [fdToThread EXCEPT ![f] = None]
                         /\ interest' = [interest EXCEPT ![t][f] = {}]
                         /\ queued' = [queued EXCEPT ![t] = @ \ {f}]
                         /\ dead' = dead \ {<<t, f>>}
                    ELSE UNCHANGED <<known, fdToThread, interest, queued,
                                     dead>>
          ELSE UNCHANGED <<tableVars, interest, queued, lost, dead>>
     /\ deleter' = None
     /\ UNCHANGED <<threadVars, coroVars, deletes, open, ready, closes,
                    muted>>
-----------------------------------------------------------------------------
(* io_worker                                                               *)

(* The thread looks for its context, which may not be in the vector yet.   *)
Boot(t) ==
  /\ worker[t] = "boot"
  /\ worker' = [worker EXCEPT ![t] = IF t < built THEN "loop" ELSE "gone"]
  /\ UNCHANGED <<mode, built, batch, current, onScheduler, stop, tableVars,
                 coroVars, deleteVars, kernelVars, historyVars>>

(* The flag is tested before each wait, ...                                *)
TestFlag(t) ==
  /\ worker[t] = "loop"
  /\ worker' = [worker EXCEPT ![t] = IF stop THEN "gone" ELSE "polling"]
  /\ UNCHANGED <<mode, built, batch, current, onScheduler, stop, tableVars,
                 coroVars, deleteVars, kernelVars, historyVars>>

(* ... which ends with what is ready, the flag being up or not, or with    *)
(* nothing: the pipe, a signal, or the timeout of a second.                *)
EpollWait(t) ==
  LET events == {x \in queued[t] \X Events : x[2] \in Reported(t, x[1])}
  IN /\ worker[t] = "polling"
     /\ queued' = [queued EXCEPT ![t] = {}]
     /\ batch' = [batch EXCEPT ![t] = events]
     /\ worker' = [worker EXCEPT ![t] =
                     IF events = {} THEN "loop" ELSE "batch"]
     /\ UNCHANGED <<mode, built, current, onScheduler, stop, tableVars,
                    coroVars, deleteVars, open, ready, interest, closes,
                    historyVars>>

(* ... or with an error, for which the thread leaves.                      *)
WaitFails(t) ==
  /\ worker[t] = "polling"
  /\ worker' = [worker EXCEPT ![t] = "gone"]
  /\ UNCHANGED <<mode, built, batch, current, onScheduler, stop, tableVars,
                 coroVars, deleteVars, kernelVars, historyVars>>

(* An event of the batch: fd_mutex is locked and the context looked up.    *)
TakeEvent(t, f) ==
  /\ worker[t] = "batch" /\ current[t] = None
  /\ f \in {b[1] : b \in batch[t]}
  /\ current' = [current EXCEPT ![t] = f]
  /\ batch' = IF f \in known[t] THEN batch
              ELSE [batch EXCEPT ![t] = {b \in @ : b[1] # f}]
  /\ UNCHANGED <<mode, built, worker, onScheduler, stop, tableVars, coroVars,
                 deleteVars, kernelVars, historyVars>>

(* The reader first.  The handle is cleared and the coroutine resumed,     *)
(* with the lock held: the operation makes its call once more, and ends;   *)
(* coroutine that awaits it is posted, the thread being registered.        *)
Deliver(t, e) ==
  LET f == current[t]  c == handle[t][f][e]
  IN /\ worker[t] = "batch" /\ f # None /\ <<f, e>> \in batch[t]
     /\ e = "write" => <<f, "read">> \notin batch[t]
     /\ \A d \in Coros : on[d] # t
     /\ batch' = [batch EXCEPT ![t] = @ \ {<<f, e>>}]
     /\ IF c = None
          THEN UNCHANGED <<handle, onScheduler, pc, op, on, ready, muted>>
          ELSE /\ handle' = [handle EXCEPT ![t][f][e] = None]
               /\ onScheduler' = RegisterThread(t)
               /\ pc' = [pc EXCEPT ![c] = "idle"]
               /\ op' = [op EXCEPT ![c] = NoOp]
               /\ on' = [on EXCEPT ![c] =
                           IF c \in Owned \/ t \in onScheduler'
                             THEN None ELSE t]
               /\ Consume(f, e)
               /\ muted' = muted \ {c}
     /\ UNCHANGED <<mode, built, worker, current, stop, known, fdToThread,
                    ops, deleteVars, open, interest, queued, closes, lost,
                    dead>>

(* Unlock.                                                                 *)
EndEvent(t) ==
  /\ worker[t] = "batch" /\ current[t] # None
  /\ current[t] \notin {b[1] : b \in batch[t]}
  /\ \A d \in Coros : on[d] # t
  /\ current' = [current EXCEPT ![t] = None]
  /\ worker' = [worker EXCEPT ![t] = IF batch[t] = {} THEN "loop" ELSE "batch"]
  /\ UNCHANGED <<mode, built, batch, onScheduler, stop, tableVars, coroVars,
                 deleteVars, kernelVars, historyVars>>

-----------------------------------------------------------------------------
(* ~IOManager, after Scheduler::stop(): no worker is inside a coroutine.   *)
RaiseStop ==
  /\ mode \in {"epoll", "sync"} /\ \A c \in Coros : pc[c] # "suspend"
  /\ mode' = "stopping" /\ stop' = TRUE
  /\ UNCHANGED <<built, worker, batch, current, onScheduler, tableVars,
                 coroVars, deleteVars, kernelVars, historyVars>>

Join ==
  /\ mode = "stopping" /\ \A t \in 0 .. built - 1 : worker[t] = "gone"
  /\ mode' = "destroyed"
  /\ UNCHANGED <<built, worker, batch, current, onScheduler, stop, tableVars,
                 coroVars, deleteVars, kernelVars, historyVars>>

-----------------------------------------------------------------------------
(* The kernel and the peers: something becomes ready (again) on f, ...     *)
Arrive(f, e) ==
  /\ f \in open
  /\ ready' = [ready EXCEPT ![f] = @ \cup {e}]
  /\ queued' = [t \in Threads |->
                  IF e \in interest[t][f]
                    THEN queued[t] \cup {f} ELSE queued[t]]
  /\ UNCHANGED <<threadVars, tableVars, coroVars, deleteVars, open, interest,
                 closes, historyVars>>

(* ... the user closes f, which leaves every epoll but no context, ...     *)
Close(f) ==
  /\ f \in open /\ closes < MaxCloses
  /\ open' = open \ {f}
  /\ ready' = [ready EXCEPT ![f] = {}]
  /\ interest' = [t \in Threads |-> [interest[t] EXCEPT ![f] = {}]]
  /\ queued' = [t \in Threads |-> queued[t] \ {f}]
  /\ dead' = dead \cup {<<t, f>> : t \in {u \in Threads : f \in known[u]}}
  /\ closes' = closes + 1
  /\ UNCHANGED <<threadVars, tableVars, coroVars, deleteVars, lost, muted>>

(* ... and the number is given to a new descriptor.                        *)
Reopen(f) ==
  /\ f \notin open
  /\ open' = open \cup {f}
  /\ UNCHANGED <<threadVars, tableVars, coroVars, deleteVars, ready, interest,
                 queued, closes, historyVars>>

-----------------------------------------------------------------------------
Worker(t) ==
  \/ Boot(t) \/ TestFlag(t) \/ EpollWait(t) \/ EndEvent(t)
  \/ \E f \in Fds : TakeEvent(t, f)
  \/ \E e \in Events : Deliver(t, e)

Coroutine(c) ==
  \/ AddEvent(c)
  \/ \E f \in Fds, e \in Events :
       \/ SyncCall(c, f, e) \/ CallAtOnce(c, f, e)
       \/ \E t \in Threads : WouldBlock(c, f, e, t)

Environment ==
  \/ \E t \in Threads : WaitFails(t)
  \/ \E e \in Events : DelEvent(e)
  \/ \E f \in Fds : LookUp(f) \/ Close(f) \/ Reopen(f)
  \/ \E f \in Fds, e \in Events : Arrive(f, e)

Next ==
  \/ StartThread \/ PushContext \/ InitFails \/ RaiseStop \/ Join
  \/ \E t \in Threads : Worker(t)
  \/ \E c \in Coros : Coroutine(c)
  \/ Environment

(* The I/O threads are threads of the system.  No wait has to fail.        *)
Fairness == \A t \in Threads : WF_vars(Worker(t))

SafeSpec == Init /\ [][Next]_vars
Spec == SafeSpec /\ Fairness
-----------------------------------------------------------------------------
OpType == [fd : Fds, ev : Events, at : Threads] \cup {NoOp}

TypeOK ==
  /\ mode \in {"init", "epoll", "sync", "stopping", "destroyed"}
  /\ built \in 0 .. IOThreadCount /\ stop \in BOOLEAN
  /\ worker \in [Threads -> {"none", "boot", "loop", "polling", "batch",
                         "gone"}]
  /\ batch \in [Threads -> SUBSET (Fds \X Events)]
  /\ current \in [Threads -> Fds \cup {None}]
  /\ \A t \in Threads :
       worker[t] = "batch" <=> batch[t] # {} \/ current[t] # None
  /\ onScheduler \subseteq Threads
  /\ known \in [Threads -> SUBSET Fds]
  /\ handle \in [Threads -> [Fds -> [Events -> Coros \cup {None}]]]
  /\ fdToThread \in [Fds -> Threads \cup {None}]
  /\ pc \in [Coros -> {"idle", "suspend", "wait"}]
  /\ op \in [Coros -> OpType]
  /\ \A c \in Coros : pc[c] \in {"suspend", "wait"} => op[c] # NoOp
  /\ on \in [Coros -> Threads \cup {None}]
  /\ ops \in 0 .. MaxOps
  /\ deleter \in (Threads \X Fds) \cup {None} /\ deletes \in 0 .. MaxDeletes
  /\ open \subseteq Fds /\ ready \in [Fds -> SUBSET Events]
  /\ interest \in [Threads -> [Fds -> SUBSET Events]]
  /\ queued \in [Threads -> SUBSET Fds] /\ closes \in 0 .. MaxCloses
  /\ lost \subseteq Coros /\ muted \subseteq Coros
  /\ dead \subseteq Threads \X Fds

(* A handle in a table belongs to a coroutine that is suspended in just    *)
(* that operation: an I/O thread never resumes a coroutine that runs, and  *)
(* whoever resumes it takes the handle out first (io_manager.cpp:517-547). *)
ResumesTheWaiting ==
  \A t \in Threads, f \in Fds, e \in Events :
    LET c == handle[t][f][e]
    IN c # None => pc[c] = "wait" /\ op[c] = [fd |-> f, ev |-> e, at |-> t]

(* A waiting coroutine is in the table of its thread and epoll knows of    *)
(* the event, unless the handle was overwritten or deleted, a later        *)
(* registration in the other direction replaced the interest, or the       *)
(* descriptor was closed under it: add_event picks ADD and MOD rightly.    *)
WaitersRegistered ==
  \A c \in Coros : pc[c] = "wait" =>
    \/ Armed(c) \/ c \in lost
    \/ Held(c) /\ (c \in muted \/ <<op[c].at, op[c].fd>> \in dead)

(* Nothing calls add_event from inside an I/O thread, which resumes with   *)
(* its fd_mutex locked: the coroutine that awaits the operation is posted  *)
(* to a scheduler, even when it was created on a thread without one.       *)
RegistersUnlocked == \A c \in Coros : pc[c] = "suspend" => on[c] = None

(* A coroutine armed for what is ready does not wait for ever, as long as  *)
(* its I/O thread lives: it is resumed, or loses its registration, or      *)
(* somebody else takes what was there.                                     *)
ReadyIsServed ==
  \A c \in Coros :
    LET Due == /\ Armed(c) /\ op[c].ev \in ready[op[c].fd]
               /\ worker[op[c].at] # "gone"
    IN Due ~> ~Due
=============================================================================
