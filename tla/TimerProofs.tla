---------------------------- MODULE TimerProofs ----------------------------
(***************************************************************************)
(* The timer's safety properties, for any number of sleeps, any clock and  *)
(* any number of rounds of start() and stop().                             *)
(***************************************************************************)
EXTENDS Timer, TLAPS

(* The thread has an event in its hands only while it delivers it.         *)
HandsFit == taken # {} => pc = "deliver"

(* Nothing was armed since the predicate was found false when the thread   *)
(* blocks on the condition: add_timer() needs the mutex that it holds.     *)
BlockOnEmpty == pc = "block" => armed = {}

TimerInv ==
  /\ TypeOK /\ HandsFit /\ BlockOnEmpty
  /\ EndsOnceNotEarly /\ WakeupUnderWay /\ QuietWhenStopped

LEMMA InitTimerInv == Init => TimerInv
<1> SUFFICES ASSUME Init PROVE TimerInv
  OBVIOUS
<1>1. TypeOK
  <2>1. 0 \in Times /\ 0 \in 0 .. MaxStarts
    BY BoundsAssumption DEF Times
  <2>2. due \in [Sleeps -> Times]
    BY <2>1 DEF Init
  <2> QED
    BY <2>1, <2>2 DEF Init, TypeOK
<1>2. HandsFit /\ BlockOnEmpty /\ EndsOnceNotEarly
  BY DEF Init, HandsFit, BlockOnEmpty, EndsOnceNotEarly
<1>3. WakeupUnderWay /\ QuietWhenStopped
  BY DEF Init, WakeupUnderWay, QuietWhenStopped
<1> QED
  BY <1>1, <1>2, <1>3 DEF TimerInv

-----------------------------------------------------------------------------
(* The steps of the sleeps                                                 *)

(* What a sleep that has not begun does disturbs no other.                 *)
LEMMA SleepReadyKeeps ==
  ASSUME TimerInv, NEW e \in Sleeps, NEW t \in Times, SleepReady(e, t)
  PROVE  TimerInv'
<1> USE DEF TimerInv, SleepReady, ownerVars
<1>1. \A f \in Sleeps \ {e} : due'[f] = due[f]
  BY DEF TypeOK
<1>2. due'[e] = t /\ due' \in [Sleeps -> Times]
  BY DEF TypeOK
<1>3. TypeOK'
  BY <1>2 DEF TypeOK
<1>4. HandsFit' /\ BlockOnEmpty' /\ QuietWhenStopped'
  BY DEF HandsFit, BlockOnEmpty, QuietWhenStopped
<1>5. EndsOnceNotEarly'
  <2>1. e \notin armed \cup taken \cup awake \cup dropped
    BY DEF Fresh
  <2>2. \A f \in taken' \cup awake' \cup dropped' : now' >= due'[f]
    BY <1>1, <1>2, <2>1 DEF EndsOnceNotEarly, TypeOK
  <2> QED
    BY <2>1, <2>2 DEF EndsOnceNotEarly
<1>6. WakeupUnderWay'
  <2>1. \A f \in armed : due'[f] = due[f]
    BY <1>1 DEF Fresh, TypeOK
  <2> QED
    BY <2>1 DEF WakeupUnderWay
<1> QED
  BY <1>3, <1>4, <1>5, <1>6

(* An event is pushed with its notification still to come.                 *)
LEMMA AddTimerKeeps ==
  ASSUME TimerInv, NEW e \in Sleeps, NEW t \in Times, AddTimer(e, t)
  PROVE  TimerInv'
<1> USE DEF TimerInv, AddTimer, ownerVars
<1>1. \A f \in Sleeps \ {e} : due'[f] = due[f]
  BY DEF TypeOK
<1>2. due' \in [Sleeps -> Times]
  BY DEF TypeOK
<1>3. TypeOK'
  BY <1>2 DEF TypeOK
<1>4. HandsFit' /\ QuietWhenStopped'
  BY DEF HandsFit, QuietWhenStopped
<1>5. BlockOnEmpty'
  BY DEF BlockOnEmpty, Locked
<1>6. EndsOnceNotEarly'
  <2>1. e \notin armed \cup taken \cup awake \cup dropped
    BY DEF Fresh
  <2>2. \A f \in taken' \cup awake' \cup dropped' : now' >= due'[f]
    BY <1>1, <2>1 DEF EndsOnceNotEarly, TypeOK
  <2> QED
    BY <2>1, <2>2 DEF EndsOnceNotEarly
<1>7. WakeupUnderWay'
  BY DEF WakeupUnderWay
<1> QED
  BY <1>3, <1>4, <1>5, <1>6, <1>7

(* A notification, or nothing at all, takes a waiting thread out of its    *)
(* wait, and leaves any other where it is.                                 *)
LEMMA WokenKeeps ==
  ASSUME TimerInv, pc' = Woken, adding' \subseteq adding,
         UNCHANGED <<now, starts, taken, wakeAt, armed, due, awake, dropped>>,
         owner' \in {"idle", "flag", "notify", "join"}, started' \in BOOLEAN,
         stop' \in BOOLEAN, owner' = "idle" /\ ~started' => owner = "idle" /\ ~started
  PROVE  TimerInv'
<1> USE DEF TimerInv, Woken
<1>1. TypeOK'
  BY DEF TypeOK
<1>2. HandsFit' /\ BlockOnEmpty' /\ QuietWhenStopped'
  BY DEF HandsFit, BlockOnEmpty, QuietWhenStopped
<1>3. EndsOnceNotEarly' /\ WakeupUnderWay'
  BY DEF EndsOnceNotEarly, WakeupUnderWay
<1> QED
  BY <1>1, <1>2, <1>3

LEMMA TickKeeps == TimerInv /\ Tick => TimerInv'
<1> SUFFICES ASSUME TimerInv, Tick PROVE TimerInv'
  OBVIOUS
<1> USE DEF TimerInv, Tick, ownerVars, sleepVars
<1>1. TypeOK'
  BY BoundsAssumption DEF TypeOK, Times
<1>2. HandsFit' /\ BlockOnEmpty' /\ QuietWhenStopped'
  BY DEF HandsFit, BlockOnEmpty, QuietWhenStopped
<1>3. EndsOnceNotEarly'
  <2>1. now \in Int /\ \A e \in Sleeps : due[e] \in Int
    BY BoundsAssumption DEF TypeOK, Times
  <2>2. \A e \in taken \cup awake \cup dropped : now + 1 >= due[e]
    BY <2>1, SleepsAssumption DEF EndsOnceNotEarly, TypeOK
  <2> QED
    BY <2>2 DEF EndsOnceNotEarly
<1>4. WakeupUnderWay'
  BY DEF WakeupUnderWay
<1> QED
  BY <1>1, <1>2, <1>3, <1>4

-----------------------------------------------------------------------------
(* The steps of the timer thread                                           *)

LEMMA TakeDueKeeps ==
  ASSUME TimerInv, NEW e \in Sleeps, TakeDue(e)
  PROVE  TimerInv'
<1> USE DEF TimerInv, TakeDue, ownerVars
<1>1. TypeOK'
  BY DEF TypeOK
<1>2. taken = {} /\ e \in armed
  BY DEF HandsFit, Earliest
<1>3. HandsFit' /\ BlockOnEmpty' /\ WakeupUnderWay'
  BY DEF HandsFit, BlockOnEmpty, WakeupUnderWay
<1>4. QuietWhenStopped'
  BY DEF QuietWhenStopped
<1>5. EndsOnceNotEarly'
  BY <1>2 DEF EndsOnceNotEarly
<1> QED
  BY <1>1, <1>3, <1>4, <1>5

LEMMA DeliverKeeps == TimerInv /\ Deliver => TimerInv'
<1> SUFFICES ASSUME TimerInv, Deliver PROVE TimerInv'
  OBVIOUS
<1> USE DEF TimerInv, ownerVars
<1>1. PICK refused \in SUBSET (taken \cap Scheduled) :
        /\ dropped' = dropped \cup refused
        /\ awake' = awake \cup (taken \ refused)
  BY DEF Deliver
<1>2. /\ pc = "deliver" /\ pc' = "relock" /\ taken' = {}
      /\ UNCHANGED <<now, owner, starts, started, stop, wakeAt, armed, due, adding>>
  BY DEF Deliver
<1>3. TypeOK'
  BY <1>1, <1>2 DEF TypeOK
<1>4. HandsFit' /\ BlockOnEmpty' /\ WakeupUnderWay' /\ QuietWhenStopped'
  BY <1>2 DEF HandsFit, BlockOnEmpty, WakeupUnderWay, QuietWhenStopped
<1>5. EndsOnceNotEarly'
  BY <1>1, <1>2 DEF EndsOnceNotEarly
<1> QED
  BY <1>3, <1>4, <1>5

(* It waits no longer than the earliest event allows.                      *)
LEMMA WaitUntilKeeps ==
  ASSUME TimerInv, NEW e \in Sleeps, WaitUntil(e)
  PROVE  TimerInv'
<1> USE DEF TimerInv, WaitUntil, ownerVars, sleepVars
<1>1. TypeOK'
  BY DEF TypeOK
<1>2. HandsFit' /\ BlockOnEmpty' /\ QuietWhenStopped' /\ EndsOnceNotEarly'
  BY DEF HandsFit, BlockOnEmpty, QuietWhenStopped, EndsOnceNotEarly
<1>3. WakeupUnderWay'
  <2>1. \A f \in armed : ~(due[f] < due[e])
    <3>1. \A f \in armed : due[f] \in Int /\ due[e] \in Int /\ due[e] <= due[f]
      BY BoundsAssumption DEF Earliest, TypeOK, Times
    <3> QED
      BY <3>1
  <2> QED
    BY <2>1 DEF WakeupUnderWay
<1> QED
  BY <1>1, <1>2, <1>3

(* The other steps of the thread only move it.                             *)
LEMMA ThreadMoves ==
  ASSUME TimerInv,
         Enter \/ Leave \/ LookAgain \/ LoopEmpty \/ TestPredicate \/ Block
           \/ Rewait \/ TimedOut \/ Relock
  PROVE  TimerInv'
<1> USE DEF TimerInv, ownerVars, sleepVars
<1>1. UNCHANGED <<now, owner, starts, started, stop, taken, wakeAt, armed, due, adding,
                  awake, dropped>>
  BY DEF Enter, Leave, LookAgain, LoopEmpty, TestPredicate, Block, Rewait,
         TimedOut, Relock
<1>2. /\ pc \notin {"none", "deliver"} /\ pc' \notin {"none", "deliver", "waitingUntil"}
      /\ pc' \in {"loop", "look", "wait", "block", "waiting", "relock", "exited"}
      /\ pc' = "block" => armed = {}
      /\ pc' = "waiting" => pc = "block"
  BY DEF Enter, Leave, LookAgain, LoopEmpty, TestPredicate, Block, Rewait,
         TimedOut, Relock
<1>3. TypeOK'
  BY <1>1, <1>2 DEF TypeOK
<1>4. HandsFit' /\ BlockOnEmpty' /\ QuietWhenStopped'
  BY <1>1, <1>2 DEF HandsFit, BlockOnEmpty, QuietWhenStopped
<1>5. EndsOnceNotEarly' /\ WakeupUnderWay'
  BY <1>1, <1>2 DEF EndsOnceNotEarly, WakeupUnderWay, BlockOnEmpty
<1> QED
  BY <1>3, <1>4, <1>5

-----------------------------------------------------------------------------
(* start() and stop()                                                      *)

LEMMA OwnerKeeps ==
  ASSUME TimerInv, Start \/ BeginStop \/ SetFlag \/ Join
  PROVE  TimerInv'
<1> USE DEF TimerInv, sleepVars
<1>1. UNCHANGED <<now, taken, wakeAt, armed, due, adding, awake, dropped>>
  BY DEF Start, BeginStop, SetFlag, Join
<1>2. /\ pc' \in {pc, "entry", "none"}
      /\ pc' = pc \/ pc \in {"none", "exited"}
  BY DEF Start, BeginStop, SetFlag, Join, QuietWhenStopped
<1>3. TypeOK'
  <2>1. starts' \in 0 .. MaxStarts
    BY BoundsAssumption DEF TypeOK, Start, BeginStop, SetFlag, Join
  <2>2. /\ owner' \in {"idle", "flag", "notify", "join"}
        /\ started' \in BOOLEAN /\ stop' \in BOOLEAN
    BY DEF TypeOK, Start, BeginStop, SetFlag, Join
  <2> QED
    BY <1>1, <1>2, <2>1, <2>2 DEF TypeOK
<1>4. HandsFit' /\ BlockOnEmpty' /\ EndsOnceNotEarly' /\ WakeupUnderWay'
  BY <1>1, <1>2 DEF HandsFit, BlockOnEmpty, EndsOnceNotEarly, WakeupUnderWay
<1>5. QuietWhenStopped'
  BY <1>1 DEF QuietWhenStopped, HandsFit, Start, BeginStop, SetFlag, Join
<1> QED
  BY <1>3, <1>4, <1>5

-----------------------------------------------------------------------------
LEMMA NextTimerInv == TimerInv /\ [Next]_vars => TimerInv'
<1> SUFFICES ASSUME TimerInv, [Next]_vars PROVE TimerInv'
  OBVIOUS
<1>1. CASE UNCHANGED vars
  BY <1>1 DEF vars, TimerInv, TypeOK, HandsFit, BlockOnEmpty, EndsOnceNotEarly,
     WakeupUnderWay, QuietWhenStopped
<1>2. CASE Tick
  BY <1>2, TickKeeps
<1>3. CASE Start \/ BeginStop \/ SetFlag \/ Join
  BY <1>3, OwnerKeeps
<1>4. CASE NotifyAll \/ Spurious \/ \E e \in Sleeps : NotifyOne(e)
  <2>1. /\ pc' = Woken /\ adding' \subseteq adding
        /\ UNCHANGED <<now, starts, taken, wakeAt, armed, due, awake, dropped, started,
                       stop>>
        /\ owner' = owner \/ owner' = "join"
    BY <1>4 DEF NotifyAll, Spurious, NotifyOne, ownerVars, sleepVars
  <2> QED
    BY <2>1, WokenKeeps DEF TimerInv, TypeOK
<1>5. CASE ThreadStep
  BY <1>5, ThreadMoves, DeliverKeeps, TakeDueKeeps, WaitUntilKeeps DEF ThreadStep
<1>6. CASE \E e \in Sleeps, t \in Times : SleepReady(e, t) \/ AddTimer(e, t)
  BY <1>6, SleepReadyKeeps, AddTimerKeeps
<1> QED
  BY <1>1, <1>2, <1>3, <1>4, <1>5, <1>6 DEF Next, StopStep

LEMMA TimerInvHolds == Spec => []TimerInv
<1> QED
  BY InitTimerInv, NextTimerInv, PTL DEF Spec

(* The variables have their types; a scheduler refuses only sleeps that    *)
(* have one.                                                               *)
THEOREM Typing == Spec => []TypeOK
<1>1. TimerInv => TypeOK
  BY DEF TimerInv
<1> QED
  BY <1>1, TimerInvHolds, PTL

(* A sleep ends once and not before its time, whatever ends the waits of   *)
(* the thread and however often the timer is stopped and started.          *)
THEOREM Punctuality == Spec => []EndsOnceNotEarly
<1>1. TimerInv => EndsOnceNotEarly
  BY DEF TimerInv
<1> QED
  BY <1>1, TimerInvHolds, PTL

(* The thread never waits past an armed event without a notification on    *)
(* its way, although add_timer() notifies after it released the mutex.     *)
THEOREM Notification == Spec => []WakeupUnderWay
<1>1. TimerInv => WakeupUnderWay
  BY DEF TimerInv
<1> QED
  BY <1>1, TimerInvHolds, PTL

(* When stop() has returned no thread is left and no event is undelivered  *)
(* outside the queue.                                                      *)
THEOREM Quiescence == Spec => []QuietWhenStopped
<1>1. TimerInv => QuietWhenStopped
  BY DEF TimerInv
<1> QED
  BY <1>1, TimerInvHolds, PTL
=============================================================================
