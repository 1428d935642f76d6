--------------------------- MODULE IOManagerProofs ---------------------------
(***************************************************************************)
(* An I/O thread resumes only coroutines that wait for what it resumes     *)
(* them for, and no waiting coroutine is unregistered but in the ways      *)
(* WaitersRegistered names.                                                *)
(***************************************************************************)
EXTENDS IOManager, TLAPS

-----------------------------------------------------------------------------
(* Types                                                                   *)

LEMMA NoneIsNone ==
  None \notin Threads /\ None \notin Fds /\ None \notin Coros
BY IOAssumption DEF Threads

LEMMA NoOpIsNone ==
  NoOp \notin [fd : Fds, ev : Events, at : Threads]
BY NoneIsNone DEF NoOp

(* Updates of the tables keep their types.                                 *)
LEMMA HandleUpdate ==
  ASSUME NEW h \in [Threads -> [Fds -> [Events -> Coros \cup {None}]]],
         NEW t \in Threads, NEW f \in Fds, NEW e \in Events,
         NEW c \in Coros \cup {None}
  PROVE  /\ [h EXCEPT ![t][f][e] = c]
              \in [Threads -> [Fds -> [Events -> Coros \cup {None}]]]
         /\ \A u \in Threads, g \in Fds, d \in Events :
              [h EXCEPT ![t][f][e] = c][u][g][d] =
                IF u = t /\ g = f /\ d = e THEN c ELSE h[u][g][d]
<1> DEFINE R == Coros \cup {None}
<1> HIDE DEF R
<1>1. h[t][f] \in [Events -> R] /\ h[t] \in [Fds -> [Events -> R]]
      /\ h \in [Threads -> [Fds -> [Events -> R]]] /\ c \in R
  BY DEF R
<1>2. [h[t][f] EXCEPT ![e] = c] \in [Events -> R]
  BY <1>1
<1>3. [h[t] EXCEPT ![f] = [h[t][f] EXCEPT ![e] = c]] \in [Fds -> [Events -> R]]
  BY <1>1, <1>2
<1>4. [h EXCEPT ![t] = [h[t] EXCEPT ![f] = [h[t][f] EXCEPT ![e] = c]]]
        \in [Threads -> [Fds -> [Events -> R]]]
  BY <1>1, <1>3
<1>5. [h EXCEPT ![t][f][e] = c] =
        [h EXCEPT ![t] = [h[t] EXCEPT ![f] = [h[t][f] EXCEPT ![e] = c]]]
  OBVIOUS
<1>6. [h EXCEPT ![t][f][e] = c] \in [Threads -> [Fds -> [Events -> R]]]
  BY <1>4, <1>5
<1>7. \A u \in Threads, g \in Fds, d \in Events :
        [h EXCEPT ![t][f][e] = c][u][g][d] =
          IF u = t /\ g = f /\ d = e THEN c ELSE h[u][g][d]
  BY <1>1
<1> QED
  BY <1>6, <1>7 DEF R

LEMMA InterestUpdate ==
  ASSUME NEW m \in [Threads -> [Fds -> SUBSET Events]],
         NEW t \in Threads, NEW f \in Fds, NEW es \in SUBSET Events
  PROVE  /\ [m EXCEPT ![t][f] = es] \in [Threads -> [Fds -> SUBSET Events]]
         /\ \A u \in Threads, g \in Fds :
              [m EXCEPT ![t][f] = es][u][g] =
                IF u = t /\ g = f THEN es ELSE m[u][g]
<1> DEFINE R == SUBSET Events
<1> HIDE DEF R
<1>1. m \in [Threads -> [Fds -> R]] /\ m[t] \in [Fds -> R] /\ es \in R
  BY DEF R
<1>2. [m[t] EXCEPT ![f] = es] \in [Fds -> R]
  BY <1>1
<1>3. [m EXCEPT ![t] = [m[t] EXCEPT ![f] = es]] \in [Threads -> [Fds -> R]]
  BY <1>1, <1>2
<1>4. [m EXCEPT ![t][f] = es] = [m EXCEPT ![t] = [m[t] EXCEPT ![f] = es]]
  OBVIOUS
<1>5. \A u \in Threads, g \in Fds :
        [m EXCEPT ![t][f] = es][u][g] = IF u = t /\ g = f THEN es ELSE m[u][g]
  BY <1>1
<1> QED
  BY <1>3, <1>4, <1>5 DEF R

LEMMA InitTypeOK == Init => TypeOK
<1> SUFFICES ASSUME Init PROVE TypeOK
  OBVIOUS
<1> USE DEF Init
<1>1. /\ worker \in [Threads -> {"none", "boot", "loop", "polling", "batch", "gone"}]
      /\ batch \in [Threads -> SUBSET (Fds \X Events)]
      /\ current \in [Threads -> Fds \cup {None}]
      /\ \A t \in Threads :
           worker[t] = "batch" <=> batch[t] # {} \/ current[t] # None
  BY NoneIsNone
<1>2. /\ known \in [Threads -> SUBSET Fds]
      /\ fdToThread \in [Fds -> Threads \cup {None}]
      /\ handle \in [Threads -> [Fds -> [Events -> Coros \cup {None}]]]
  OBVIOUS
<1>3. /\ pc \in [Coros -> {"idle", "suspend", "wait"}]
      /\ op \in [Coros -> OpType]
      /\ on \in [Coros -> Threads \cup {None}]
      /\ \A c \in Coros : pc[c] \notin {"suspend", "wait"}
  BY DEF OpType
<1>4. /\ ready \in [Fds -> SUBSET Events]
      /\ interest \in [Threads -> [Fds -> SUBSET Events]]
      /\ queued \in [Threads -> SUBSET Fds]
  OBVIOUS
<1>5. /\ mode = "init" /\ built \in 0 .. IOThreadCount /\ stop = FALSE
      /\ ops \in 0 .. MaxOps /\ deletes \in 0 .. MaxDeletes
      /\ closes \in 0 .. MaxCloses
  BY IOAssumption
<1>6. /\ onScheduler = {} /\ deleter = None /\ open = Fds
      /\ lost = {} /\ muted = {} /\ dead = {}
  OBVIOUS
<1> QED
  BY <1>1, <1>2, <1>3, <1>4, <1>5, <1>6 DEF TypeOK

LEMMA ThreadsTypeOK ==
  ASSUME TypeOK, StartThread \/ PushContext \/ InitFails \/ RaiseStop \/ Join
  PROVE  TypeOK'
<1> USE IOAssumption DEF TypeOK, tableVars, coroVars, deleteVars, kernelVars,
                         historyVars
<1>1. CASE StartThread
  BY <1>1 DEF StartThread, Threads
<1>2. CASE PushContext
  BY <1>2 DEF PushContext
<1>3. CASE InitFails
  BY <1>3 DEF InitFails
<1>4. CASE RaiseStop
  BY <1>4 DEF RaiseStop
<1>5. CASE Join
  BY <1>5 DEF Join
<1> QED
  BY <1>1, <1>2, <1>3, <1>4, <1>5

LEMMA WorkerTypeOK ==
  ASSUME TypeOK, NEW t \in Threads, Worker(t)
  PROVE  TypeOK'
<1> USE NoneIsNone DEF TypeOK, tableVars, coroVars, deleteVars, kernelVars, historyVars
<1>1. CASE Boot(t)
  BY <1>1 DEF Boot
<1>2. CASE EpollWait(t)
  BY <1>2 DEF EpollWait
<1>3. CASE EndEvent(t)
  BY <1>3 DEF EndEvent
<1>4. CASE TestFlag(t)
  BY <1>4 DEF TestFlag
<1>5. ASSUME NEW f \in Fds, TakeEvent(t, f) PROVE TypeOK'
  BY <1>5 DEF TakeEvent
<1>6. ASSUME NEW e \in Events, Deliver(t, e) PROVE TypeOK'
  <2> DEFINE f == current[t]
             c == handle[t][f][e]
  <2>1. /\ f \in Fds /\ current' = current /\ worker' = worker
        /\ batch' = [batch EXCEPT ![t] = @ \ {<<f, e>>}]
        /\ UNCHANGED <<mode, built, stop, known, fdToThread, ops, deleter, deletes,
                       open, interest, queued, closes, lost, dead>>
    BY <1>6 DEF Deliver
  <2>2. /\ batch' \in [Threads -> SUBSET (Fds \X Events)]
        /\ \A u \in Threads :
             worker'[u] = "batch" <=> batch'[u] # {} \/ current'[u] # None
    <3>1. batch' \in [Threads -> SUBSET (Fds \X Events)]
      BY <2>1
    <3>2. /\ worker[t] = "batch" /\ current[t] # None
          /\ \A u \in Threads \ {t} : batch'[u] = batch[u]
      BY <1>6, <2>1 DEF Deliver
    <3> QED
      BY <2>1, <3>1, <3>2
  <2>3. CASE c = None
    <3>1. UNCHANGED <<handle, onScheduler, pc, op, on, ready, muted>>
      BY <1>6, <2>3 DEF Deliver
    <3> QED
      BY <2>1, <2>2, <3>1
  <2>4. CASE c # None
    <3>1. c \in Coros
      BY <2>1, <2>4
    <3>2. /\ handle' = [handle EXCEPT ![t][f][e] = None]
          /\ onScheduler' = onScheduler \cup {t}
          /\ pc' = [pc EXCEPT ![c] = "idle"] /\ op' = [op EXCEPT ![c] = NoOp]
          /\ on' = [on EXCEPT ![c] = IF c \in Owned \/ t \in onScheduler'
                                       THEN None ELSE t]
          /\ ready' \in {ready, [ready EXCEPT ![f] = @ \ {e}]}
          /\ muted' = muted \ {c}
      BY <1>6, <2>4 DEF Deliver, RegisterThread, Consume
    <3>3. handle' \in [Threads -> [Fds -> [Events -> Coros \cup {None}]]]
      <4> HIDE DEF f, c
      <4> QED
        BY <2>1, <3>2, HandleUpdate
    <3>4. /\ pc' \in [Coros -> {"idle", "suspend", "wait"}]
          /\ op' \in [Coros -> OpType]
          /\ on' \in [Coros -> Threads \cup {None}]
          /\ \A d \in Coros : pc'[d] \in {"suspend", "wait"} => op'[d] # NoOp
      BY <3>1, <3>2 DEF OpType
    <3>5. ready' \in [Fds -> SUBSET Events]
      <4>1. CASE ready' = ready
        BY <4>1
      <4>2. CASE ready' = [ready EXCEPT ![f] = @ \ {e}]
        <5>1. ready \in [Fds -> SUBSET Events] /\ ready[f] \ {e} \in SUBSET Events
          BY <2>1
        <5> QED
          BY <2>1, <4>2, <5>1
      <4> QED
        BY <3>2, <4>1, <4>2
    <3>6. muted' \subseteq Coros
      BY <3>2
    <3>7. onScheduler' \subseteq Threads
      BY <3>2
    <3> QED
      BY <2>1, <2>2, <3>3, <3>4, <3>5, <3>6, <3>7
  <2> QED
    BY <2>3, <2>4
<1> QED
  BY <1>1, <1>2, <1>3, <1>4, <1>5, <1>6 DEF Worker

LEMMA CoroutineTypeOK ==
  ASSUME TypeOK, NEW c \in Coros, Coroutine(c)
  PROVE  TypeOK'
<1> USE IOAssumption, NoneIsNone DEF TypeOK, threadVars, tableVars, deleteVars,
        kernelVars, historyVars
<1>1. CASE AddEvent(c)
  <2> DEFINE f == op[c].fd
             e == op[c].ev
             t == op[c].at
             other == {handle[t][f][d] : d \in Events \ {e}} \ {None}
  <2>1. f \in Fds /\ e \in Events /\ t \in Threads
    BY <1>1 DEF AddEvent, OpType
  <2>2. /\ known' = [known EXCEPT ![t] = @ \cup {f}]
        /\ handle' = [handle EXCEPT ![t][f][e] = c]
        /\ fdToThread' = [fdToThread EXCEPT ![f] = t]
        /\ \/ /\ interest' = [interest EXCEPT ![t][f] = {e}]
              /\ queued' = [queued EXCEPT ![t] =
                              IF e \in ready[f] THEN @ \cup {f} ELSE @]
              /\ muted' = muted \cup other
           \/ UNCHANGED <<interest, queued, muted>>
        /\ lost' = lost \cup ({handle[t][f][e]} \ {None})
        /\ dead' \in {dead, dead \cup {<<t, f>>}}
        /\ pc' = [pc EXCEPT ![c] = "wait"] /\ on' = [on EXCEPT ![c] = None]
        /\ UNCHANGED <<mode, built, worker, batch, current, onScheduler, stop, op,
                       ops, deleter, deletes, open, ready, closes>>
    BY <1>1 DEF AddEvent
  <2> HIDE DEF f, e, t, other
  <2>3. /\ known' \in [Threads -> SUBSET Fds]
        /\ handle' \in [Threads -> [Fds -> [Events -> Coros \cup {None}]]]
        /\ fdToThread' \in [Fds -> Threads \cup {None}]
    BY <2>1, <2>2, HandleUpdate
  <2>4. other \subseteq Coros
    BY <2>1 DEF other
  <2>5. /\ interest' \in [Threads -> [Fds -> SUBSET Events]]
        /\ queued' \in [Threads -> SUBSET Fds] /\ muted' \subseteq Coros
    <3>1. CASE UNCHANGED <<interest, queued, muted>>
      BY <3>1
    <3>2. CASE /\ interest' = [interest EXCEPT ![t][f] = {e}]
               /\ queued' = [queued EXCEPT ![t] =
                               IF e \in ready[f] THEN @ \cup {f} ELSE @]
               /\ muted' = muted \cup other
      <4>1. interest' \in [Threads -> [Fds -> SUBSET Events]]
        BY <2>1, <3>2, InterestUpdate
      <4>2. queued' \in [Threads -> SUBSET Fds]
        BY <2>1, <3>2
      <4> QED
        BY <2>4, <3>2, <4>1, <4>2
    <3> QED
      BY <2>2, <3>1, <3>2
  <2>6. lost' \subseteq Coros /\ dead' \subseteq Threads \X Fds
    BY <2>1, <2>2
  <2>7. /\ pc' \in [Coros -> {"idle", "suspend", "wait"}]
        /\ on' \in [Coros -> Threads \cup {None}]
        /\ \A d \in Coros : pc'[d] \in {"suspend", "wait"} => op[d] # NoOp
    BY <1>1, <2>2 DEF AddEvent
  <2> QED
    BY <2>2, <2>3, <2>5, <2>6, <2>7
<1>2. ASSUME NEW f \in Fds, NEW e \in Events,
             SyncCall(c, f, e) \/ CallAtOnce(c, f, e)
      PROVE  TypeOK'
  <2>1. /\ ready' \in {ready, [ready EXCEPT ![f] = @ \ {e}]}
        /\ ops' = ops + 1 /\ ops < MaxOps
        /\ UNCHANGED <<threadVars, tableVars, pc, op, on, deleteVars, open,
                       interest, queued, closes, historyVars>>
    BY <1>2 DEF SyncCall, CallAtOnce, Consume
  <2>2. ready' \in [Fds -> SUBSET Events] /\ ops' \in 0 .. MaxOps
    BY <2>1
  <2> QED
    BY <2>1, <2>2
<1>3. ASSUME NEW f \in Fds, NEW e \in Events, NEW t \in Threads,
             WouldBlock(c, f, e, t)
      PROVE  TypeOK'
  BY <1>3, NoOpIsNone DEF WouldBlock, OpType
<1> QED
  BY <1>1, <1>2, <1>3 DEF Coroutine

LEMMA EnvironmentTypeOK ==
  ASSUME TypeOK, Environment
  PROVE  TypeOK'
<1> USE IOAssumption, NoneIsNone DEF TypeOK, threadVars, tableVars, coroVars,
        deleteVars, kernelVars, historyVars
<1>1. ASSUME NEW e \in Events, DelEvent(e) PROVE TypeOK'
  <2> DEFINE t == deleter[1]
             f == deleter[2]
  <2>1. /\ t \in Threads /\ f \in Fds /\ deleter' = None
        /\ UNCHANGED <<mode, built, worker, batch, current, onScheduler, stop, pc, op,
                       on, ops, deletes, open, ready, closes, muted>>
    BY <1>1 DEF DelEvent
  <2>2. CASE UNCHANGED <<tableVars, interest, queued, lost, dead>>
    BY <2>1, <2>2
  <2>3. CASE /\ handle' = [handle EXCEPT ![t][f][e] = None]
             /\ lost' = lost \cup ({handle[t][f][e]} \ {None})
             /\ \/ /\ known' = [known EXCEPT ![t] = @ \ {f}]
                   /\ fdToThread' = [fdToThread EXCEPT ![f] = None]
                   /\ interest' = [interest EXCEPT ![t][f] = {}]
                   /\ queued' = [queued EXCEPT ![t] = @ \ {f}]
                   /\ dead' = dead \ {<<t, f>>}
                \/ UNCHANGED <<known, fdToThread, interest, queued, dead>>
    <3> HIDE DEF t, f
    <3>0. handle[t][f][e] \in Coros \cup {None}
      BY <2>1
    <3>1. /\ handle' \in [Threads -> [Fds -> [Events -> Coros \cup {None}]]]
          /\ lost' \subseteq Coros
      BY <2>1, <2>3, <3>0, HandleUpdate
    <3>2. CASE UNCHANGED <<known, fdToThread, interest, queued, dead>>
      BY <2>1, <3>1, <3>2
    <3>3. CASE /\ known' = [known EXCEPT ![t] = @ \ {f}]
               /\ fdToThread' = [fdToThread EXCEPT ![f] = None]
               /\ interest' = [interest EXCEPT ![t][f] = {}]
               /\ queued' = [queued EXCEPT ![t] = @ \ {f}]
               /\ dead' = dead \ {<<t, f>>}
      <4>1. /\ known' \in [Threads -> SUBSET Fds]
            /\ fdToThread' \in [Fds -> Threads \cup {None}]
            /\ queued' \in [Threads -> SUBSET Fds]
        BY <2>1, <3>3
      <4>2. dead' \subseteq Threads \X Fds
        BY <3>3
      <4>3. interest' \in [Threads -> [Fds -> SUBSET Events]]
        BY <2>1, <3>3, InterestUpdate
      <4> QED
        BY <2>1, <3>1, <4>1, <4>2, <4>3
    <3> QED
      BY <2>3, <3>2, <3>3
  <2> QED
    BY <1>1, <2>2, <2>3 DEF DelEvent
<1>2. ASSUME NEW f \in Fds, LookUp(f) PROVE TypeOK'
  BY <1>2 DEF LookUp
<1>3. ASSUME NEW f \in Fds, Close(f) PROVE TypeOK'
  BY <1>3 DEF Close
<1>4. ASSUME NEW f \in Fds, Reopen(f) PROVE TypeOK'
  BY <1>4 DEF Reopen
<1>5. ASSUME NEW f \in Fds, NEW e \in Events, Arrive(f, e) PROVE TypeOK'
  BY <1>5 DEF Arrive
<1>6. ASSUME NEW t \in Threads, WaitFails(t) PROVE TypeOK'
  BY <1>6 DEF WaitFails
<1> QED
  BY <1>1, <1>2, <1>3, <1>4, <1>5, <1>6 DEF Environment

LEMMA NextTypeOK == TypeOK /\ [Next]_vars => TypeOK'
<1> SUFFICES ASSUME TypeOK, [Next]_vars PROVE TypeOK'
  OBVIOUS
<1>1. CASE UNCHANGED vars
  BY <1>1 DEF vars, TypeOK, threadVars, tableVars, coroVars, deleteVars, kernelVars,
     historyVars
<1> QED
  BY <1>1, ThreadsTypeOK, WorkerTypeOK, CoroutineTypeOK, EnvironmentTypeOK DEF Next

(* The variables have their types, and an I/O thread is in a batch just    *)
(* while it has events or a descriptor in its hands.                       *)
THEOREM Typing == SafeSpec => []TypeOK
  BY InitTypeOK, NextTypeOK, PTL DEF SafeSpec

-----------------------------------------------------------------------------
(* The inductive invariant                                                 *)

(* The contexts know the descriptors they hold handles for.                *)
HandlesKnown ==
  \A t \in Threads, f \in Fds, e \in Events :
    handle[t][f][e] # None => f \in known[t]

(* A descriptor a context knows is one epoll knows, or was closed.         *)
KnownOrDead ==
  \A t \in Threads, f \in Fds :
    f \in known[t] /\ interest[t][f] = {} => <<t, f>> \in dead

NobodyAboard == \A c \in Coros : on[c] = None

WaitInv ==
  /\ ResumesTheWaiting /\ WaitersRegistered
  /\ HandlesKnown /\ KnownOrDead /\ NobodyAboard

(* All WaitInv reads.                                                      *)
waitVars == <<known, handle, pc, op, on, interest, lost, muted, dead>>

LEMMA InitWaitInv == Init => WaitInv
<1> SUFFICES ASSUME Init PROVE WaitInv
  OBVIOUS
<1> USE DEF Init
<1>1. ResumesTheWaiting /\ HandlesKnown
  BY DEF ResumesTheWaiting, HandlesKnown
<1>2. WaitersRegistered /\ KnownOrDead /\ NobodyAboard
  BY DEF WaitersRegistered, KnownOrDead, NobodyAboard
<1> QED
  BY <1>1, <1>2 DEF WaitInv

(* Where the operation of a waiting coroutine is.                          *)
LEMMA OpOfWaiting ==
  ASSUME TypeOK, NEW c \in Coros, pc[c] \in {"suspend", "wait"}
  PROVE  op[c].at \in Threads /\ op[c].fd \in Fds /\ op[c].ev \in Events
         /\ op[c] = [fd |-> op[c].fd, ev |-> op[c].ev, at |-> op[c].at]
BY DEF TypeOK, OpType

LEMMA StillWait ==
  ASSUME WaitInv, UNCHANGED waitVars
  PROVE  WaitInv'
<1> USE DEF WaitInv, waitVars
<1>1. ResumesTheWaiting' /\ HandlesKnown'
  BY DEF ResumesTheWaiting, HandlesKnown
<1>2. WaitersRegistered' /\ KnownOrDead' /\ NobodyAboard'
  BY DEF WaitersRegistered, KnownOrDead, NobodyAboard, Armed, Held
<1> QED
  BY <1>1, <1>2

(* An idle coroutine has no handle in any table; it suspends.              *)
LEMMA WouldBlockWaitInv ==
  ASSUME TypeOK, WaitInv, NEW c \in Coros, NEW f \in Fds, NEW e \in Events,
         NEW t \in Threads, WouldBlock(c, f, e, t)
  PROVE  WaitInv'
<1>1. /\ pc[c] = "idle" /\ pc' = [pc EXCEPT ![c] = "suspend"]
      /\ op' = [op EXCEPT ![c] = [fd |-> f, ev |-> e, at |-> t]]
      /\ UNCHANGED <<known, handle, on, interest, lost, muted, dead>>
  BY DEF WouldBlock, threadVars, tableVars, kernelVars, historyVars
<1>2. \A d \in Coros \ {c} : pc'[d] = pc[d] /\ op'[d] = op[d]
  BY <1>1
<1>3. pc'[c] = "suspend"
  BY <1>1 DEF TypeOK
<1>4. ResumesTheWaiting'
  <2> SUFFICES ASSUME NEW u \in Threads, NEW g \in Fds, NEW d \in Events,
                      handle[u][g][d] # None
               PROVE  /\ pc'[handle[u][g][d]] = "wait"
                      /\ op'[handle[u][g][d]] = [fd |-> g, ev |-> d, at |-> u]
    BY <1>1 DEF ResumesTheWaiting
  <2>1. handle[u][g][d] \in Coros
    BY DEF TypeOK
  <2>2. /\ pc[handle[u][g][d]] = "wait"
        /\ op[handle[u][g][d]] = [fd |-> g, ev |-> d, at |-> u]
    BY DEF WaitInv, ResumesTheWaiting
  <2> QED
    BY <1>1, <1>2, <2>1, <2>2
<1>5. WaitersRegistered'
  BY <1>1, <1>2, <1>3 DEF WaitInv, WaitersRegistered, Armed, Held
<1>6. HandlesKnown' /\ KnownOrDead' /\ NobodyAboard'
  BY <1>1 DEF WaitInv, HandlesKnown, KnownOrDead, NobodyAboard
<1> QED
  BY <1>4, <1>5, <1>6 DEF WaitInv

(* add_event puts the handle in, and one it overwrites or mutes is named.  *)
LEMMA AddEventWaitInv ==
  ASSUME TypeOK, WaitInv, NEW c \in Coros, AddEvent(c)
  PROVE  WaitInv'
<1> DEFINE f == op[c].fd
           e == op[c].ev
           t == op[c].at
           other == {handle[t][f][d] : d \in Events \ {e}} \ {None}
<1>1. /\ pc[c] = "suspend" /\ f \in Fds /\ e \in Events /\ t \in Threads
      /\ op[c] = [fd |-> f, ev |-> e, at |-> t]
  BY OpOfWaiting DEF AddEvent
<1>2. /\ known' = [known EXCEPT ![t] = @ \cup {f}]
      /\ handle' = [handle EXCEPT ![t][f][e] = c]
      /\ lost' = lost \cup ({handle[t][f][e]} \ {None})
      /\ pc' = [pc EXCEPT ![c] = "wait"] /\ on' = [on EXCEPT ![c] = None]
      /\ op' = op
  BY DEF AddEvent
<1>3. \/ /\ f \in known[t] /\ interest[t][f] = {}
         /\ UNCHANGED <<interest, muted>>
      \/ /\ f \notin known[t] /\ f \notin open
         /\ UNCHANGED <<interest, muted>>
      \/ /\ interest' = [interest EXCEPT ![t][f] = {e}]
         /\ muted' = muted \cup other
  BY DEF AddEvent, Registers
<1>4. dead' = IF f \in open THEN dead ELSE dead \cup {<<t, f>>}
  BY DEF AddEvent
<1> HIDE DEF f, e, t, other
<1>5. \A u \in Threads, g \in Fds, d \in Events :
        handle'[u][g][d] = IF u = t /\ g = f /\ d = e THEN c ELSE handle[u][g][d]
  <2>1. handle \in [Threads -> [Fds -> [Events -> Coros \cup {None}]]]
    BY DEF TypeOK
  <2> QED
    BY <1>1, <1>2, <2>1, HandleUpdate
<1>6. \A u \in Threads, g \in Fds :
        /\ interest'[u][g] \in {interest[u][g], {e}}
        /\ u # t \/ g # f => interest'[u][g] = interest[u][g]
  <2>1. interest \in [Threads -> [Fds -> SUBSET Events]]
    BY DEF TypeOK
  <2> QED
    BY <1>1, <1>3, <2>1, InterestUpdate
<1>7. /\ pc'[c] = "wait" /\ \A d \in Coros \ {c} : pc'[d] = pc[d]
      /\ \A u \in Threads : known'[u] = known[u] \cup (IF u = t THEN {f} ELSE {})
      /\ lost \subseteq lost' /\ muted \subseteq muted' /\ dead \subseteq dead'
  BY <1>1, <1>2, <1>3, <1>4 DEF TypeOK
<1>8. ResumesTheWaiting'
  <2> SUFFICES ASSUME NEW u \in Threads, NEW g \in Fds, NEW d \in Events,
                      handle'[u][g][d] # None
               PROVE  /\ pc'[handle'[u][g][d]] = "wait"
                      /\ op'[handle'[u][g][d]] = [fd |-> g, ev |-> d, at |-> u]
    BY DEF ResumesTheWaiting
  <2>1. CASE u = t /\ g = f /\ d = e
    BY <1>1, <1>2, <1>5, <1>7, <2>1
  <2>2. CASE ~(u = t /\ g = f /\ d = e)
    <3>1. handle'[u][g][d] = handle[u][g][d] /\ handle[u][g][d] \in Coros
      BY <1>5, <2>2 DEF TypeOK
    <3>2. /\ pc[handle[u][g][d]] = "wait"
          /\ op[handle[u][g][d]] = [fd |-> g, ev |-> d, at |-> u]
      BY <3>1 DEF WaitInv, ResumesTheWaiting
    <3> QED
      BY <1>1, <1>2, <1>7, <3>1, <3>2
  <2> QED
    BY <2>1, <2>2
<1>9. HandlesKnown'
  BY <1>5, <1>7 DEF WaitInv, HandlesKnown
<1>10. KnownOrDead'
  <2> SUFFICES ASSUME NEW u \in Threads, NEW g \in Fds,
                      g \in known'[u], interest'[u][g] = {}
               PROVE  <<u, g>> \in dead'
    BY DEF KnownOrDead
  <2>1. CASE u = t /\ g = f
    <3>1. interest'[t][f] # {e}
      BY <2>1
    <3>2. CASE f \notin known[t] /\ f \notin open
      BY <1>4, <2>1, <3>2
    <3>3. CASE f \in known[t] /\ interest[t][f] = {}
      BY <1>1, <1>7, <2>1, <3>3 DEF WaitInv, KnownOrDead
    <3>4. CASE interest' = [interest EXCEPT ![t][f] = {e}]
      BY <1>1, <3>1, <3>4, InterestUpdate DEF TypeOK
    <3> QED
      BY <1>3, <3>2, <3>3, <3>4
  <2>2. CASE ~(u = t /\ g = f)
    <3>1. g \in known[u] /\ interest[u][g] = {}
      BY <1>6, <1>7, <2>2
    <3> QED
      BY <1>7, <3>1 DEF WaitInv, KnownOrDead
  <2> QED
    BY <2>1, <2>2
<1>11. WaitersRegistered'
  <2> SUFFICES ASSUME NEW d \in Coros, pc'[d] = "wait"
               PROVE  \/ Armed(d)' \/ d \in lost'
                      \/ Held(d)' /\ (d \in muted' \/ <<op'[d].at, op'[d].fd>> \in dead')
    BY DEF WaitersRegistered
  <2>1. CASE d = c
    <3>1. Held(d)' /\ op'[d].at = t /\ op'[d].fd = f /\ op'[d].ev = e
      BY <1>1, <1>2, <1>5, <2>1 DEF Held, f, e, t
    <3>2. CASE interest' = [interest EXCEPT ![t][f] = {e}]
      <4>1. interest'[t][f] = {e}
        BY <1>1, <3>2, InterestUpdate DEF TypeOK
      <4> QED
        BY <3>1, <4>1 DEF Armed
    <3>3. CASE f \in known[t] /\ interest[t][f] = {}
      BY <1>1, <1>7, <3>1, <3>3 DEF WaitInv, KnownOrDead
    <3>4. CASE f \notin known[t] /\ f \notin open
      BY <1>4, <3>1, <3>4
    <3> QED
      BY <1>3, <3>2, <3>3, <3>4
  <2>2. CASE d # c
    <3>1. pc[d] = "wait" /\ op'[d] = op[d]
      BY <1>2, <1>7, <2>2
    <3>2. op[d].at \in Threads /\ op[d].fd \in Fds /\ op[d].ev \in Events
      BY <3>1, OpOfWaiting
    <3>3. CASE d \in lost
      BY <1>7, <3>3
    <3>4. CASE Held(d)
      <4>1. handle[op[d].at][op[d].fd][op[d].ev] = d /\ d # None
        BY <3>4, NoneIsNone DEF Held
      <4>2. CASE op[d].at = t /\ op[d].fd = f /\ op[d].ev = e
        BY <1>2, <4>1, <4>2
      <4>3. CASE ~(op[d].at = t /\ op[d].fd = f /\ op[d].ev = e)
        <5>1. Held(d)'
          BY <1>5, <3>1, <3>2, <4>1, <4>3 DEF Held
        <5>2. CASE d \in muted \/ <<op[d].at, op[d].fd>> \in dead
          BY <1>7, <3>1, <5>1, <5>2
        <5>3. CASE op[d].ev \in interest[op[d].at][op[d].fd]
          <6>1. CASE op[d].at = t /\ op[d].fd = f
            <7>1. op[d].ev \in Events \ {e} /\ d \in other
              BY <3>2, <4>1, <4>3, <6>1 DEF other
            <7>2. CASE muted' = muted \cup other
              BY <5>1, <7>1, <7>2
            <7>3. CASE interest' = interest
              BY <3>1, <5>1, <5>3, <7>3 DEF Armed
            <7> QED
              BY <1>3, <7>2, <7>3
          <6>2. CASE ~(op[d].at = t /\ op[d].fd = f)
            <7>1. interest'[op[d].at][op[d].fd] = interest[op[d].at][op[d].fd]
              BY <1>6, <3>2, <6>2
            <7> QED
              BY <3>1, <5>1, <5>3, <7>1 DEF Armed
          <6> QED
            BY <6>1, <6>2
        <5>4. \/ d \in lost \/ d \in muted \/ <<op[d].at, op[d].fd>> \in dead
              \/ op[d].ev \in interest[op[d].at][op[d].fd]
          BY <3>1 DEF WaitInv, WaitersRegistered, Armed
        <5> QED
          BY <3>3, <5>2, <5>3, <5>4
      <4> QED
        BY <4>2, <4>3
    <3> QED
      BY <3>1, <3>3, <3>4 DEF WaitInv, WaitersRegistered, Armed
  <2> QED
    BY <2>1, <2>2
<1>12. NobodyAboard'
  BY <1>2 DEF WaitInv, NobodyAboard, TypeOK
<1> QED
  BY <1>8, <1>9, <1>10, <1>11, <1>12 DEF WaitInv

(* An I/O thread resumes the owner of a handle it takes out of its table.  *)
LEMMA DeliverWaitInv ==
  ASSUME TypeOK, WaitInv, NEW t \in Threads, NEW e \in Events, Deliver(t, e)
  PROVE  WaitInv'
<1> DEFINE f == current[t]
           c == handle[t][f][e]
<1>1. /\ f \in Fds
      /\ UNCHANGED <<known, interest, lost, dead>>
  BY DEF Deliver, TypeOK
<1>2. CASE c = None
  <2>1. UNCHANGED waitVars
    BY <1>1, <1>2 DEF Deliver, waitVars
  <2> QED
    BY <2>1, StillWait
<1>3. CASE c # None
  <2>1. /\ handle' = [handle EXCEPT ![t][f][e] = None]
        /\ pc' = [pc EXCEPT ![c] = "idle"] /\ op' = [op EXCEPT ![c] = NoOp]
        /\ on' = [on EXCEPT ![c] = None]
        /\ muted' = muted \ {c}
    BY <1>3 DEF Deliver, RegisterThread
  <2>2. /\ c \in Coros /\ pc[c] = "wait" /\ op[c] = [fd |-> f, ev |-> e, at |-> t]
        /\ handle \in [Threads -> [Fds -> [Events -> Coros \cup {None}]]]
    BY <1>1, <1>3 DEF TypeOK, WaitInv, ResumesTheWaiting
  <2> HIDE DEF f, c
  <2>3. \A u \in Threads, g \in Fds, d \in Events :
          handle'[u][g][d] = IF u = t /\ g = f /\ d = e THEN None ELSE handle[u][g][d]
    BY <1>1, <2>1, <2>2, HandleUpdate
  <2>4. /\ pc'[c] = "idle"
        /\ \A d \in Coros \ {c} : pc'[d] = pc[d] /\ op'[d] = op[d]
    BY <2>1, <2>2 DEF TypeOK
  <2>5. ResumesTheWaiting'
    <3> SUFFICES ASSUME NEW u \in Threads, NEW g \in Fds, NEW d \in Events,
                        handle'[u][g][d] # None
                 PROVE  /\ pc'[handle'[u][g][d]] = "wait"
                        /\ op'[handle'[u][g][d]] = [fd |-> g, ev |-> d, at |-> u]
      BY DEF ResumesTheWaiting
    <3>1. /\ handle'[u][g][d] = handle[u][g][d] /\ handle[u][g][d] \in Coros
          /\ ~(u = t /\ g = f /\ d = e)
      BY <2>2, <2>3
    <3>2. /\ pc[handle[u][g][d]] = "wait"
          /\ op[handle[u][g][d]] = [fd |-> g, ev |-> d, at |-> u]
      BY <3>1 DEF WaitInv, ResumesTheWaiting
    <3>3. handle[u][g][d] # c
      BY <2>2, <3>1, <3>2
    <3> QED
      BY <2>4, <3>1, <3>2, <3>3
  <2>6. HandlesKnown' /\ KnownOrDead'
    BY <1>1, <2>3 DEF WaitInv, HandlesKnown, KnownOrDead
  <2>7. WaitersRegistered'
    <3> SUFFICES ASSUME NEW d \in Coros, pc'[d] = "wait"
                 PROVE  \/ Armed(d)' \/ d \in lost'
                        \/ Held(d)' /\ (d \in muted' \/ <<op'[d].at, op'[d].fd>> \in dead')
      BY DEF WaitersRegistered
    <3>1. d # c /\ pc[d] = "wait" /\ op'[d] = op[d]
      BY <2>4
    <3>2. op[d].at \in Threads /\ op[d].fd \in Fds /\ op[d].ev \in Events
      BY <3>1, OpOfWaiting
    <3>3. CASE d \in lost
      BY <1>1, <3>3
    <3>4. CASE Held(d)
      <4>1. Held(d)'
        <5>1. handle[op[d].at][op[d].fd][op[d].ev] = d
          BY <3>4 DEF Held
        <5>2. ~(op[d].at = t /\ op[d].fd = f /\ op[d].ev = e)
          BY <3>1, <5>1 DEF c
        <5> QED
          BY <2>3, <3>1, <3>2, <5>1, <5>2 DEF Held
      <4>2. \/ d \in lost \/ d \in muted \/ <<op[d].at, op[d].fd>> \in dead
            \/ op[d].ev \in interest[op[d].at][op[d].fd]
        BY <3>1 DEF WaitInv, WaitersRegistered, Armed
      <4> QED
        BY <1>1, <2>1, <3>1, <4>1, <4>2 DEF Armed
    <3> QED
      BY <3>1, <3>3, <3>4 DEF WaitInv, WaitersRegistered, Armed
  <2>8. NobodyAboard'
    BY <2>1 DEF WaitInv, NobodyAboard, TypeOK
  <2> QED
    BY <2>5, <2>6, <2>7, <2>8 DEF WaitInv
<1> QED
  BY <1>2, <1>3

(* del_event takes a handle out, and forgets the descriptor with the last. *)
LEMMA DelEventWaitInv ==
  ASSUME TypeOK, WaitInv, NEW e \in Events, DelEvent(e)
  PROVE  WaitInv'
<1> DEFINE t == deleter[1]
           f == deleter[2]
           last == \A d \in Events \ {e} : handle[t][f][d] = None
<1>1. t \in Threads /\ f \in Fds
  BY NoneIsNone DEF DelEvent, TypeOK
<1>2. UNCHANGED <<pc, op, on, muted>>
  BY DEF DelEvent, coroVars
<1>3. CASE f \notin known[t]
  <2>1. UNCHANGED waitVars
    BY <1>2, <1>3 DEF DelEvent, waitVars, tableVars
  <2> QED
    BY <2>1, StillWait
<1>4. CASE f \in known[t]
  <2>1. /\ handle' = [handle EXCEPT ![t][f][e] = None]
        /\ lost' = lost \cup ({handle[t][f][e]} \ {None})
    BY <1>4 DEF DelEvent
  <2>2. \/ /\ last
           /\ known' = [known EXCEPT ![t] = @ \ {f}]
           /\ interest' = [interest EXCEPT ![t][f] = {}]
           /\ dead' = dead \ {<<t, f>>}
        \/ UNCHANGED <<known, interest, dead>>
    BY <1>4 DEF DelEvent
  <2> HIDE DEF t, f
  <2>3. \A u \in Threads, g \in Fds, d \in Events :
          handle'[u][g][d] = IF u = t /\ g = f /\ d = e THEN None ELSE handle[u][g][d]
    BY <1>1, <2>1, NoneIsNone, HandleUpdate DEF TypeOK
  <2>4. \/ /\ last
           /\ \A u \in Threads : known'[u] = known[u] \ (IF u = t THEN {f} ELSE {})
           /\ \A u \in Threads, g \in Fds :
                interest'[u][g] = IF u = t /\ g = f THEN {} ELSE interest[u][g]
           /\ dead' = dead \ {<<t, f>>}
        \/ UNCHANGED <<known, interest, dead>>
    <3>1. CASE UNCHANGED <<known, interest, dead>>
      BY <3>1
    <3>2. CASE /\ last
               /\ known' = [known EXCEPT ![t] = @ \ {f}]
               /\ interest' = [interest EXCEPT ![t][f] = {}]
               /\ dead' = dead \ {<<t, f>>}
      <4>1. \A u \in Threads : known'[u] = known[u] \ (IF u = t THEN {f} ELSE {})
        BY <1>1, <3>2 DEF TypeOK
      <4>2. \A u \in Threads, g \in Fds :
              interest'[u][g] = IF u = t /\ g = f THEN {} ELSE interest[u][g]
        BY <1>1, <3>2, InterestUpdate DEF TypeOK
      <4> QED
        BY <3>2, <4>1, <4>2
    <3> QED
      BY <2>2, <3>1, <3>2
  <2>5. ResumesTheWaiting' /\ NobodyAboard'
    BY <1>2, <2>3 DEF WaitInv, ResumesTheWaiting, NobodyAboard
  <2>6. HandlesKnown'
    BY <2>3, <2>4 DEF WaitInv, HandlesKnown, last
  <2>7. KnownOrDead'
    BY <1>1, <2>4 DEF WaitInv, KnownOrDead
  <2>8. WaitersRegistered'
    <3> SUFFICES ASSUME NEW d \in Coros, pc[d] = "wait", d \notin lost'
                 PROVE  \/ Armed(d)'
                        \/ Held(d)' /\ (d \in muted' \/ <<op'[d].at, op'[d].fd>> \in dead')
      BY <1>2 DEF WaitersRegistered
    <3>1. op[d].at \in Threads /\ op[d].fd \in Fds /\ op[d].ev \in Events
      BY OpOfWaiting
    <3>2. /\ handle[op[d].at][op[d].fd][op[d].ev] = d
          /\ \/ d \in muted \/ <<op[d].at, op[d].fd>> \in dead
             \/ op[d].ev \in interest[op[d].at][op[d].fd]
      BY <2>1 DEF WaitInv, WaitersRegistered, Armed, Held
    <3>3. ~(op[d].at = t /\ op[d].fd = f /\ op[d].ev = e)
      BY <2>1, <3>2, NoneIsNone
    <3>4. Held(d)' /\ op'[d] = op[d]
      BY <1>2, <2>3, <3>1, <3>2, <3>3 DEF Held
    <3>5. CASE UNCHANGED <<known, interest, dead>>
      BY <1>2, <3>2, <3>4, <3>5 DEF Armed
    <3>6. CASE op[d].at = t /\ op[d].fd = f /\ last
      BY <3>1, <3>2, <3>3, <3>6, NoneIsNone DEF last
    <3>7. CASE ~(op[d].at = t /\ op[d].fd = f)
      BY <1>1, <1>2, <2>4, <3>1, <3>2, <3>4, <3>7 DEF Armed
    <3> QED
      BY <2>4, <3>5, <3>6, <3>7
  <2> QED
    BY <2>5, <2>6, <2>7, <2>8 DEF WaitInv
<1> QED
  BY <1>3, <1>4

(* close() takes the descriptor out of every epoll.                        *)
LEMMA CloseWaitInv ==
  ASSUME TypeOK, WaitInv, NEW f \in Fds, Close(f)
  PROVE  WaitInv'
<1>1. /\ interest' = [t \in Threads |-> [interest[t] EXCEPT ![f] = {}]]
      /\ dead' = dead \cup {<<t, f>> : t \in {u \in Threads : f \in known[u]}}
      /\ UNCHANGED <<known, handle, pc, op, on, lost, muted>>
  BY DEF Close, tableVars, coroVars
<1>2. \A u \in Threads, g \in Fds : g # f => interest'[u][g] = interest[u][g]
  BY <1>1 DEF TypeOK
<1>3. ResumesTheWaiting' /\ HandlesKnown' /\ NobodyAboard'
  BY <1>1 DEF WaitInv, ResumesTheWaiting, HandlesKnown, NobodyAboard
<1>4. KnownOrDead'
  BY <1>1, <1>2 DEF WaitInv, KnownOrDead
<1>5. WaitersRegistered'
  <2> SUFFICES ASSUME NEW d \in Coros, pc[d] = "wait", d \notin lost
               PROVE  \/ Armed(d)'
                      \/ Held(d)' /\ (d \in muted' \/ <<op'[d].at, op'[d].fd>> \in dead')
    BY <1>1 DEF WaitersRegistered
  <2>1. op[d].at \in Threads /\ op[d].fd \in Fds /\ op[d].ev \in Events
    BY OpOfWaiting
  <2>2. Held(d) /\ Held(d)'
    BY <1>1 DEF WaitInv, WaitersRegistered, Armed, Held
  <2>3. CASE op[d].fd = f
    <3>1. f \in known[op[d].at]
      BY <2>1, <2>2, <2>3, NoneIsNone DEF WaitInv, HandlesKnown, Held
    <3> QED
      BY <1>1, <2>1, <2>2, <2>3, <3>1
  <2>4. CASE op[d].fd # f
    BY <1>1, <1>2, <2>1, <2>2, <2>4 DEF WaitInv, WaitersRegistered, Armed
  <2> QED
    BY <2>3, <2>4
<1> QED
  BY <1>3, <1>4, <1>5 DEF WaitInv

LEMMA NextWaitInv == TypeOK /\ WaitInv /\ [Next]_vars => WaitInv'
<1> SUFFICES ASSUME TypeOK, WaitInv, [Next]_vars PROVE WaitInv'
  OBVIOUS
<1> USE DEF waitVars, threadVars, tableVars, coroVars, deleteVars, kernelVars,
            historyVars
<1>1. CASE UNCHANGED vars
  BY <1>1, StillWait DEF vars
<1>2. CASE StartThread \/ PushContext \/ InitFails \/ RaiseStop \/ Join
  BY <1>2, StillWait DEF StartThread, PushContext, InitFails, RaiseStop, Join
<1>3. ASSUME NEW t \in Threads, Worker(t) PROVE WaitInv'
  <2>1. CASE \E e \in Events : Deliver(t, e)
    BY <2>1, DeliverWaitInv
  <2>2. CASE Boot(t) \/ TestFlag(t) \/ EpollWait(t) \/ EndEvent(t)
    BY <2>2, StillWait DEF Boot, TestFlag, EpollWait, EndEvent
  <2>3. ASSUME NEW f \in Fds, TakeEvent(t, f) PROVE WaitInv'
    BY <2>3, StillWait DEF TakeEvent
  <2> QED
    BY <1>3, <2>1, <2>2, <2>3 DEF Worker
<1>4. ASSUME NEW c \in Coros, Coroutine(c) PROVE WaitInv'
  <2>1. CASE AddEvent(c)
    BY <2>1, AddEventWaitInv
  <2>2. ASSUME NEW f \in Fds, NEW e \in Events, SyncCall(c, f, e) \/ CallAtOnce(c, f, e)
        PROVE  WaitInv'
    BY <2>2, StillWait DEF SyncCall, CallAtOnce
  <2>3. ASSUME NEW f \in Fds, NEW e \in Events, NEW t \in Threads, WouldBlock(c, f, e, t)
        PROVE  WaitInv'
    BY <2>3, WouldBlockWaitInv
  <2> QED
    BY <1>4, <2>1, <2>2, <2>3 DEF Coroutine
<1>5. CASE Environment
  <2>1. CASE \E e \in Events : DelEvent(e)
    BY <2>1, DelEventWaitInv
  <2>2. ASSUME NEW f \in Fds, Close(f) PROVE WaitInv'
    BY <2>2, CloseWaitInv
  <2>3. ASSUME NEW f \in Fds, LookUp(f) \/ Reopen(f) PROVE WaitInv'
    BY <2>3, StillWait DEF LookUp, Reopen
  <2>4. ASSUME NEW f \in Fds, NEW e \in Events, Arrive(f, e) PROVE WaitInv'
    BY <2>4, StillWait DEF Arrive
  <2>5. ASSUME NEW t \in Threads, WaitFails(t) PROVE WaitInv'
    BY <2>5, StillWait DEF WaitFails
  <2> QED
    BY <1>5, <2>1, <2>2, <2>3, <2>4, <2>5 DEF Environment
<1> QED
  BY <1>1, <1>2, <1>3, <1>4, <1>5 DEF Next

LEMMA WaitInvHolds == SafeSpec => [](TypeOK /\ WaitInv)
<1>1. Init => TypeOK /\ WaitInv
  BY InitTypeOK, InitWaitInv
<1>2. TypeOK /\ WaitInv /\ [Next]_vars => (TypeOK /\ WaitInv)'
  BY NextTypeOK, NextWaitInv
<1> QED
  BY <1>1, <1>2, PTL DEF SafeSpec

(* No I/O thread ever resumes a coroutine that runs or that waits for      *)
(* something else than the event it is resumed for.                        *)
THEOREM Resumption == SafeSpec => []ResumesTheWaiting
<1>1. TypeOK /\ WaitInv => ResumesTheWaiting
  BY DEF WaitInv
<1> QED
  BY <1>1, WaitInvHolds, PTL

(* A coroutine that waits is registered with epoll, or one of the four     *)
(* named ways took its registration from it.                               *)
THEOREM Registration == SafeSpec => []WaitersRegistered
<1>1. TypeOK /\ WaitInv => WaitersRegistered
  BY DEF WaitInv
<1> QED
  BY <1>1, WaitInvHolds, PTL

(* add_event is never called by an I/O thread, which holds an fd_mutex.    *)
THEOREM NoSelfLock == SafeSpec => []RegistersUnlocked
<1>1. TypeOK /\ WaitInv => RegistersUnlocked
  BY DEF WaitInv, NobodyAboard, RegistersUnlocked
<1> QED
  BY <1>1, WaitInvHolds, PTL
=============================================================================
