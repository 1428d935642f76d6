--------------------------- MODULE AsyncTaskProofs ---------------------------
(***************************************************************************)
(* An awaiter of an AsyncTask is resumed once, finds the outcome, and      *)
(* finds the same as everybody else.                                       *)
(***************************************************************************)
EXTENDS AsyncTask, TLAPS

-----------------------------------------------------------------------------
(* Types                                                                   *)

LEMMA InitTypeOK == Init => TypeOK
<1> SUFFICES ASSUME Init PROVE TypeOK
  OBVIOUS
<1>1. /\ awaits \in [Awaiters -> 0 .. MaxAwaits] /\ inFlight \in [Awaiters -> Nat]
      /\ got \in [Awaiters -> SUBSET {"set", "moved", "exception", "incomplete", "missing"}]
  BY AwaitersAssumption DEF Init
<1>2. /\ producer \in [Producers -> {"none", "work", "value", "exception", "post",
                                    "done", "swallowed"}]
      /\ taken \in [Producers -> Awaiters \cup {None}]
      /\ target \in [Producers -> BOOLEAN]
      /\ \A p \in Producers : taken[p] = None
      /\ producer["maker"] = "work" /\ producer["helper"] = "none"
  BY DEF Init, Producers
<1> QED
  BY <1>1, <1>2 DEF Init, TypeOK

LEMMA NextTypeOK == TypeOK /\ [Next]_vars => TypeOK'
<1> SUFFICES ASSUME TypeOK, [Next]_vars PROVE TypeOK'
  OBVIOUS
<1> USE DEF TypeOK, Producers, producerVars, stateVars, awaiterVars
<1>1. CASE MakerStep
  <2>1. /\ UNCHANGED <<stateVars, source, captured, taken, target, awaiterVars>>
        /\ handed' \in BOOLEAN
        /\ taken["maker"] = None
        /\ taken["helper"] = None \/ producer'["helper"] = producer["helper"]
    BY <1>1 DEF MakerStep, StartThread, HandOver, FuncReturns, FuncThrows, GoTo
  <2>2. producer' \in [Producers -> {"none", "work", "value", "exception", "post",
                                    "done", "swallowed"}]
    BY <1>1 DEF MakerStep, StartThread, HandOver, FuncReturns, FuncThrows, GoTo
  <2>3. /\ handed' \/ producer'["helper"] = "none"
        /\ source # "callback" => producer'["maker"] = IF handed' THEN "done" ELSE "work"
    BY <1>1 DEF MakerStep, StartThread, HandOver, FuncReturns, FuncThrows, GoTo
  <2> QED
    BY <2>1, <2>2, <2>3
<1>2. CASE HelperStep
  BY <1>2 DEF HelperStep, HelperValue, HelperThrows, GoTo
<1>3. ASSUME NEW p \in Producers, Complete(p) PROVE TypeOK'
  BY <1>3 DEF Complete, GoTo
<1>4. ASSUME NEW p \in Producers, Dispatch(p) PROVE TypeOK'
  BY <1>4 DEF Dispatch, Post, GoTo
<1>5. ASSUME NEW c \in Awaiters, Await(c) PROVE TypeOK'
  BY <1>5, AwaitersAssumption DEF Await
<1>6. ASSUME NEW c \in Awaiters, Register(c) PROVE TypeOK'
  BY <1>6 DEF Register
<1>7. ASSUME NEW c \in Awaiters, PostSelf(c) PROVE TypeOK'
  BY <1>7 DEF PostSelf, Post
<1>8. ASSUME NEW c \in Awaiters, Resume(c) PROVE TypeOK'
  BY <1>8 DEF Resume
<1>9. ASSUME NEW c \in Awaiters, AwaitResume(c) PROVE TypeOK'
  BY <1>9 DEF AwaitResume
<1>10. CASE UNCHANGED vars
  BY <1>10 DEF vars
<1> QED
  BY <1>1, <1>2, <1>3, <1>4, <1>5, <1>6, <1>7, <1>8, <1>9, <1>10 DEF Next, AwaiterStep

(* The state of a task is well typed, and a completed one keeps no         *)
(* continuation: nobody registers behind the producer's back.              *)
THEOREM Typing == SafeSpec => []TypeOK
  BY InitTypeOK, NextTypeOK, PTL DEF SafeSpec

-----------------------------------------------------------------------------
(* One resumption                                                          *)

(* HeldOnce is inductive once a stranded coroutine is known to stay        *)
(* suspended: it cannot register again.                                    *)
HeldInv ==
  /\ HeldOnce
  /\ \A c \in Awaiters : Stranded(c) => awaiter[c] = "suspended"

LEMMA InitHeldInv == Init => HeldInv
<1> SUFFICES ASSUME Init PROVE HeldInv
  OBVIOUS
<1>1. \A c \in Awaiters : ~Stranded(c) /\ awaiter[c] = "running" /\ inFlight[c] = 0 /\ c # None
  BY AwaitersAssumption DEF Init, Stranded
<1>2. continuation = None /\ taken["maker"] = None /\ taken["helper"] = None
  BY DEF Init, Producers
<1> QED
  BY <1>1, <1>2 DEF HeldInv, HeldOnce, Holders, One

(* Where nothing holds c, no part does.                                    *)
LEMMA NoHolder ==
  ASSUME TypeOK, NEW c \in Awaiters, Holders(c) = 0
  PROVE  continuation # c /\ inFlight[c] = 0 /\ taken["maker"] # c /\ taken["helper"] # c
<1> DEFINE a == One(continuation = c)
           b == One(taken["maker"] = c)
           d == One(taken["helper"] = c)
           e == One(awaiter[c] = "posting")
<1>1. a \in 0 .. 1 /\ b \in 0 .. 1 /\ d \in 0 .. 1 /\ e \in 0 .. 1 /\ inFlight[c] \in Nat
  BY DEF One, TypeOK
<1>2. a + b + d + e + inFlight[c] = 0
  BY DEF Holders
<1> HIDE DEF a, b, d, e
<1>3. a = 0 /\ b = 0 /\ d = 0 /\ inFlight[c] = 0
  BY <1>1, <1>2
<1> QED
  BY <1>3 DEF a, b, d, One

(* What the state or a producer holds is suspended, and held only there.   *)
LEMMA HeldIsSuspended ==
  ASSUME TypeOK, HeldInv, NEW c \in Awaiters,
         continuation = c \/ \E p \in Producers : taken[p] = c
  PROVE  awaiter[c] = "suspended" /\ ~Stranded(c)
<1> DEFINE a == One(continuation = c)
           b == One(taken["maker"] = c)
           d == One(taken["helper"] = c)
           e == One(awaiter[c] = "posting")
<1>1. a \in 0 .. 1 /\ b \in 0 .. 1 /\ d \in 0 .. 1 /\ e \in 0 .. 1 /\ inFlight[c] \in Nat
  BY DEF One, TypeOK
<1>2. a + b + d >= 1
  BY DEF One, Producers
<1>3. Holders(c) = a + b + d + e + inFlight[c]
  BY DEF Holders
<1> HIDE DEF a, b, d, e
<1>4. Holders(c) # 0
  BY <1>1, <1>2, <1>3
<1>5. Holders(c) = 1 /\ awaiter[c] \in {"posting", "suspended"} /\ ~Stranded(c)
  BY <1>4 DEF HeldInv, HeldOnce
<1>6. e = 0
  BY <1>1, <1>2, <1>3, <1>5
<1> QED
  BY <1>5, <1>6 DEF e, One

(* Steps that touch no holder.                                             *)
LEMMA HeldUnchanged ==
  ASSUME HeldInv, UNCHANGED <<continuation, taken, awaiter, inFlight, dropped, replaced>>
  PROVE  HeldInv'
BY DEF HeldInv, HeldOnce, Holders, One, Stranded

LEMMA NextHeldInv == TypeOK /\ HeldInv /\ [Next]_vars => HeldInv'
<1> SUFFICES ASSUME TypeOK, HeldInv, [Next]_vars PROVE HeldInv'
  OBVIOUS
<1> USE AwaitersAssumption
<1>1. CASE MakerStep \/ HelperStep \/ UNCHANGED vars
  BY <1>1, HeldUnchanged DEF MakerStep, StartThread, HandOver, FuncReturns, FuncThrows,
     HelperStep, HelperValue, HelperThrows, vars, stateVars, producerVars, awaiterVars
<1>2. ASSUME NEW p \in Producers, Complete(p) PROVE HeldInv'
  <2>1. /\ taken[p] = None /\ taken' = [taken EXCEPT ![p] = continuation]
        /\ continuation' = None
        /\ UNCHANGED <<awaiter, inFlight, dropped, replaced>>
    BY <1>2 DEF Complete, awaiterVars, TypeOK
  <2>2. \A c \in Awaiters : Holders(c)' = Holders(c)
    BY <2>1 DEF Holders, One, TypeOK, Producers
  <2> QED
    BY <2>1, <2>2 DEF HeldInv, HeldOnce, Stranded
<1>3. ASSUME NEW p \in Producers, Dispatch(p) PROVE HeldInv'
  <2>1. /\ taken' = [taken EXCEPT ![p] = None]
        /\ UNCHANGED <<continuation, awaiter, replaced>>
    BY <1>3 DEF Dispatch, stateVars
  <2>2. CASE taken[p] = None
    <3>1. taken' = taken /\ UNCHANGED <<inFlight, dropped>>
      BY <1>3, <2>1, <2>2 DEF Dispatch, TypeOK
    <3> QED
      BY <2>1, <3>1, HeldUnchanged
  <2>3. ASSUME NEW d \in Awaiters, taken[p] = d PROVE HeldInv'
    <3>1. Holders(d) >= 1 /\ awaiter[d] \in {"posting", "suspended"} /\ ~Stranded(d)
      BY <2>3 DEF HeldInv, HeldOnce, Holders, One, TypeOK, Producers
    <3>2. Holders(d) = 1 /\ awaiter[d] = "suspended"
      BY <2>3, <3>1 DEF HeldInv, HeldOnce, Holders, One, TypeOK, Producers
    <3>3. \A c \in Awaiters \ {d} : taken[p] # c /\ taken'[p] # c
      BY <2>1, <2>3 DEF TypeOK
    <3>4. CASE inFlight' = [inFlight EXCEPT ![d] = @ + 1] /\ dropped' = dropped
      <4>1. \A c \in Awaiters : Holders(c)' = Holders(c)
        BY <2>1, <2>3, <3>3, <3>4 DEF Holders, One, TypeOK, Producers
      <4> QED
        BY <2>1, <3>4, <4>1 DEF HeldInv, HeldOnce, Stranded
    <3>5. CASE inFlight' = inFlight /\ dropped' = dropped \cup {d}
      <4>1. \A c \in Awaiters \ {d} : Holders(c)' = Holders(c)
        BY <2>1, <3>3, <3>5 DEF Holders, One, TypeOK, Producers
      <4>2. Holders(d)' = 0
        BY <2>1, <2>3, <3>2, <3>5 DEF Holders, One, TypeOK, Producers
      <4> QED
        BY <2>1, <3>2, <3>5, <4>1, <4>2 DEF HeldInv, HeldOnce, Stranded
    <3> QED
      BY <1>3, <2>3, <3>4, <3>5 DEF Dispatch, Post
  <2> QED
    BY <2>2, <2>3 DEF TypeOK
<1>4. ASSUME NEW d \in Awaiters, Await(d) \/ AwaitResume(d) PROVE HeldInv'
  <2>1. /\ awaiter[d] \in {"running", "resuming"}
        /\ \E a \in {"running", "resuming", "suspending"} : awaiter' = [awaiter EXCEPT ![d] = a]
        /\ UNCHANGED <<continuation, taken, inFlight, dropped, replaced>>
    BY <1>4 DEF Await, AwaitResume, stateVars, producerVars
  <2>2. \A c \in Awaiters : Holders(c)' = Holders(c)
    BY <2>1 DEF Holders, One, TypeOK
  <2> QED
    BY <2>1, <2>2 DEF HeldInv, HeldOnce, Stranded, TypeOK
<1>5. ASSUME NEW d \in Awaiters, Register(d) PROVE HeldInv'
  <2>1. /\ awaiter[d] = "suspending" /\ Holders(d) = 0 /\ ~Stranded(d)
        /\ UNCHANGED <<taken, inFlight, dropped>>
    BY <1>5 DEF Register, HeldInv, HeldOnce, producerVars
  <2>2. continuation # d /\ inFlight[d] = 0 /\ taken["maker"] # d /\ taken["helper"] # d
    BY <2>1, NoHolder
  <2>3. CASE completed
    <3>1. /\ awaiter' = [awaiter EXCEPT ![d] = "posting"] /\ UNCHANGED <<continuation, replaced>>
      BY <1>5, <2>3 DEF Register
    <3>2. Holders(d)' = 1 /\ \A c \in Awaiters \ {d} : Holders(c)' = Holders(c)
      BY <2>1, <2>2, <3>1 DEF Holders, One, TypeOK
    <3> QED
      BY <2>1, <3>1, <3>2 DEF HeldInv, HeldOnce, Stranded, TypeOK
  <2>4. CASE ~completed
    <3>1. /\ awaiter' = [awaiter EXCEPT ![d] = "suspended"] /\ continuation' = d
          /\ replaced' = replaced \cup ({continuation} \ {None})
      BY <1>5, <2>4 DEF Register
    <3>2. Holders(d)' = 1
      BY <2>1, <2>2, <3>1 DEF Holders, One, TypeOK
    <3>3. \A c \in Awaiters \ {d} : c # continuation =>
             Holders(c)' = Holders(c) /\ Stranded(c)' = Stranded(c) /\ awaiter'[c] = awaiter[c]
      BY <2>1, <2>2, <3>1 DEF Holders, One, TypeOK, Stranded
    <3>4. ASSUME NEW c \in Awaiters \ {d}, c = continuation
          PROVE  Holders(c)' = 0 /\ Stranded(c)' /\ awaiter'[c] = "suspended"
      <4>1. Holders(c) >= 1
        BY <3>4 DEF Holders, One, TypeOK
      <4>2. Holders(c) = 1 /\ awaiter[c] \in {"posting", "suspended"}
        BY <4>1 DEF HeldInv, HeldOnce
      <4>3. /\ awaiter[c] = "suspended" /\ inFlight[c] = 0
            /\ taken["maker"] # c /\ taken["helper"] # c
        BY <3>4, <4>2 DEF Holders, One, TypeOK
      <4> QED
        BY <2>1, <3>1, <3>4, <4>3 DEF Holders, One, TypeOK, Stranded
    <3>5. ~Stranded(d)' /\ awaiter'[d] = "suspended"
      BY <2>1, <2>2, <3>1 DEF Stranded, TypeOK
    <3> QED
      BY <3>2, <3>3, <3>4, <3>5 DEF HeldInv, HeldOnce
  <2> QED
    BY <2>3, <2>4
<1>6. ASSUME NEW d \in Awaiters, PostSelf(d) PROVE HeldInv'
  <2>1. /\ awaiter[d] = "posting" /\ awaiter' = [awaiter EXCEPT ![d] = "suspended"]
        /\ UNCHANGED <<continuation, taken, replaced>>
    BY <1>6 DEF PostSelf, stateVars, producerVars
  <2>2. ~Stranded(d) /\ Holders(d) = 1
    BY <2>1 DEF HeldInv, HeldOnce
  <2>3. CASE inFlight' = [inFlight EXCEPT ![d] = @ + 1] /\ dropped' = dropped
    <3>1. \A c \in Awaiters : Holders(c)' = Holders(c)
      BY <2>1, <2>3 DEF Holders, One, TypeOK
    <3> QED
      BY <2>1, <2>2, <2>3, <3>1 DEF HeldInv, HeldOnce, Stranded, TypeOK
  <2>4. CASE inFlight' = inFlight /\ dropped' = dropped \cup {d}
    <3>1. \A c \in Awaiters \ {d} : Holders(c)' = Holders(c)
      BY <2>1, <2>4 DEF Holders, One, TypeOK
    <3>2. Holders(d)' = 0
      BY <2>1, <2>2, <2>4 DEF Holders, One, TypeOK
    <3> QED
      BY <2>1, <2>2, <2>4, <3>1, <3>2 DEF HeldInv, HeldOnce, Stranded, TypeOK
  <2> QED
    BY <1>6, <2>3, <2>4 DEF PostSelf, Post
<1>7. ASSUME NEW d \in Awaiters, Resume(d) PROVE HeldInv'
  <2>1. /\ inFlight[d] > 0 /\ inFlight' = [inFlight EXCEPT ![d] = @ - 1]
        /\ awaiter' = [awaiter EXCEPT ![d] = "resuming"]
        /\ UNCHANGED <<continuation, taken, dropped, replaced>>
    BY <1>7 DEF Resume, stateVars, producerVars
  <2>2. Holders(d) >= 1
    BY <2>1 DEF Holders, One, TypeOK
  <2>3. Holders(d) = 1 /\ ~Stranded(d)
    BY <2>2 DEF HeldInv, HeldOnce
  <2>4. Holders(d)' = 0 /\ \A c \in Awaiters \ {d} : Holders(c)' = Holders(c)
    BY <2>1, <2>3 DEF Holders, One, TypeOK
  <2> QED
    BY <2>1, <2>3, <2>4 DEF HeldInv, HeldOnce, Stranded, TypeOK
<1> QED
  BY <1>1, <1>2, <1>3, <1>4, <1>5, <1>6, <1>7 DEF Next, AwaiterStep

(* However the producer, the registration and the resumption interleave, a *)
(* suspended coroutine is resumed once.                                    *)
THEOREM OneResumption == SafeSpec => []HeldOnce
<1>1. TypeOK /\ HeldInv /\ [Next]_vars => TypeOK' /\ HeldInv'
  BY NextTypeOK, NextHeldInv
<1>2. HeldInv => HeldOnce
  BY DEF HeldInv
<1> QED
  BY <1>1, <1>2, InitTypeOK, InitHeldInv, PTL DEF SafeSpec

-----------------------------------------------------------------------------
(* The outcome                                                             *)

(* A completed task has an outcome, and whatever leads to a resumption     *)
(* comes after its completion.                                             *)
ReadyInv ==
  /\ OutcomeReady
  /\ completed => exception \/ value # "unset"
  /\ \A c \in Awaiters : awaiter[c] = "posting" \/ inFlight[c] > 0 => completed
  /\ \A p \in Producers : producer[p] = "post" => completed

LEMMA NextReadyInv == TypeOK /\ ReadyInv /\ [Next]_vars => ReadyInv'
<1> SUFFICES ASSUME TypeOK, ReadyInv, [Next]_vars PROVE ReadyInv'
  OBVIOUS
<1> USE DEF ReadyInv, OutcomeReady
<1>1. CASE MakerStep \/ HelperStep
  <2>1. /\ UNCHANGED <<value, exception, completed, awaiter, inFlight>>
        /\ \A p \in Producers : producer'[p] = "post" => producer[p] = "post"
    BY <1>1 DEF MakerStep, StartThread, HandOver, FuncReturns, FuncThrows, GoTo, TypeOK,
       HelperStep, HelperValue, HelperThrows, stateVars, awaiterVars, Producers
  <2> QED
    BY <2>1
<1>2. ASSUME NEW p \in Producers, Complete(p) PROVE ReadyInv'
  BY <1>2 DEF Complete, GoTo, awaiterVars, TypeOK
<1>3. ASSUME NEW p \in Producers, Dispatch(p) PROVE ReadyInv'
  <2>1. /\ completed /\ UNCHANGED <<value, exception, completed, awaiter>>
    BY <1>3 DEF Dispatch, stateVars
  <2> QED
    BY <2>1
<1>4. ASSUME NEW d \in Awaiters, Await(d) \/ Register(d) PROVE ReadyInv'
  <2>1. /\ UNCHANGED <<value, exception, completed, producer, inFlight>>
        /\ \A c \in Awaiters \ {d} : awaiter'[c] = awaiter[c]
        /\ awaiter'[d] \in {"resuming", "posting"} => completed
    BY <1>4 DEF Await, Register, stateVars, producerVars, TypeOK
  <2> QED
    BY <2>1
<1>5. ASSUME NEW d \in Awaiters, PostSelf(d) \/ Resume(d) PROVE ReadyInv'
  <2>1. completed /\ UNCHANGED <<value, exception, completed, producer>>
    BY <1>5 DEF PostSelf, Resume, stateVars, producerVars
  <2> QED
    BY <2>1
<1>6. ASSUME NEW d \in Awaiters, AwaitResume(d) PROVE ReadyInv'
  <2>1. /\ UNCHANGED <<exception, completed, producer, inFlight>>
        /\ value # "unset" => value' # "unset"
        /\ \A c \in Awaiters \ {d} : awaiter'[c] = awaiter[c]
        /\ awaiter'[d] = "running"
    BY <1>6 DEF AwaitResume, stateVars, producerVars, TypeOK
  <2> QED
    BY <2>1
<1>7. CASE UNCHANGED vars
  BY <1>7 DEF vars, stateVars, producerVars, awaiterVars
<1> QED
  BY <1>1, <1>2, <1>3, <1>4, <1>5, <1>6, <1>7 DEF Next, AwaiterStep

LEMMA InitReadyInv == Init => ReadyInv
<1> SUFFICES ASSUME Init PROVE ReadyInv
  OBVIOUS
<1>1. \A p \in Producers : producer[p] \in {"work", "none"}
  BY DEF Init
<1>2. \A c \in Awaiters : awaiter[c] = "running" /\ inFlight[c] = 0
  BY DEF Init
<1> QED
  BY <1>1, <1>2 DEF Init, ReadyInv, OutcomeReady

(* "AsyncTask not completed" and "AsyncTask result not set" are never      *)
(* thrown.                                                                 *)
THEOREM OutcomeFound == SafeSpec => []OutcomeReady
<1>1. TypeOK /\ ReadyInv /\ [Next]_vars => TypeOK' /\ ReadyInv'
  BY NextTypeOK, NextReadyInv
<1>2. ReadyInv => OutcomeReady
  BY DEF ReadyInv
<1> QED
  BY <1>1, <1>2, InitTypeOK, InitReadyInv, PTL DEF SafeSpec

(* Nobody awaits before the maker is through, and from then on no outcome  *)
(* but an exception that is there already is an exception.                 *)
SameInv ==
  /\ \A c \in Awaiters : awaiter[c] # "running" \/ got[c] # {} => producer["maker"] = "done"
  /\ \A c \in Awaiters : got[c] # {} => completed
  /\ \A c \in Awaiters : "exception" \in got[c] => exception
  /\ \A c \in Awaiters : ~(got[c] \subseteq {"exception"}) => ~exception
  /\ source = "sync" /\ completed => producer["helper"] \in {"post", "done"}
  /\ source # "sync" => producer["helper"] # "exception"

LEMMA NextSameInv ==
  TypeOK /\ HeldInv /\ ReadyInv /\ SameInv /\ [Next]_vars => SameInv'
<1> SUFFICES ASSUME TypeOK, HeldInv, ReadyInv, SameInv, [Next]_vars PROVE SameInv'
  OBVIOUS
<1> USE DEF SameInv
<1>1. CASE MakerStep \/ HelperStep
  <2>1. /\ UNCHANGED <<exception, completed, awaiter, got, source>>
        /\ producer["maker"] = "done" => producer'["maker"] = "done"
    BY <1>1 DEF MakerStep, StartThread, HandOver, FuncReturns, FuncThrows, GoTo, TypeOK,
       HelperStep, HelperValue, HelperThrows, stateVars, awaiterVars, Producers
  <2>2. source' # "sync" => producer'["helper"] # "exception"
    BY <1>1 DEF MakerStep, StartThread, HandOver, FuncReturns, FuncThrows, GoTo, TypeOK,
       HelperStep, HelperValue, HelperThrows, stateVars, Producers
  <2>3. source = "sync" /\ completed => producer'["helper"] \in {"post", "done"}
    BY <1>1 DEF MakerStep, StartThread, HandOver, FuncReturns, FuncThrows, GoTo, TypeOK,
       HelperStep, HelperValue, HelperThrows, stateVars, Producers
  <2> QED
    BY <2>1, <2>2, <2>3
<1>2. ASSUME NEW p \in Producers, Complete(p) PROVE SameInv'
  <2>1. /\ UNCHANGED <<source, awaiter, got>> /\ completed'
        /\ exception' = (exception \/ producer[p] = "exception")
        /\ producer[p] \in {"value", "exception"}
        /\ producer' = [producer EXCEPT ![p] = "post"]
    BY <1>2 DEF Complete, GoTo, awaiterVars
  <2>2. source = "sync" => p = "helper"
    BY <2>1 DEF TypeOK, Producers
  <2>3. producer'["helper"] # "exception" \/ producer'["helper"] = producer["helper"]
    BY <2>1 DEF TypeOK, Producers
  <2>4. producer["maker"] = "done" => producer'["maker"] = "done"
    BY <2>1 DEF TypeOK, Producers
  <2>5. producer[p] = "exception" => \A c \in Awaiters : got[c] = {}
    BY <2>1, <2>2 DEF TypeOK, Producers
  <2>6. source = "sync" => producer'["helper"] = "post"
    BY <2>1, <2>2 DEF TypeOK, Producers
  <2>7. \A c \in Awaiters : "exception" \in got'[c] => exception'
    BY <2>1
  <2>8. \A c \in Awaiters : ~(got'[c] \subseteq {"exception"}) => ~exception'
    BY <2>1, <2>5
  <2> QED
    BY <2>1, <2>3, <2>4, <2>6, <2>7, <2>8
<1>3. ASSUME NEW p \in Producers, Dispatch(p) PROVE SameInv'
  <2>1. /\ UNCHANGED <<source, awaiter, got, completed, exception>>
        /\ producer[p] = "post"
        /\ producer' = [producer EXCEPT ![p] =
             IF p = "maker" /\ ~exception THEN "work" ELSE "done"]
    BY <1>3 DEF Dispatch, GoTo, stateVars
  <2>2. /\ producer["maker"] = "done" => producer'["maker"] = "done"
        /\ producer'["helper"] \in {producer["helper"], "done"}
    BY <2>1 DEF TypeOK, Producers
  <2> QED
    BY <2>1, <2>2
<1>4. ASSUME NEW d \in Awaiters, Await(d) \/ Register(d) \/ PostSelf(d) PROVE SameInv'
  <2>1. /\ UNCHANGED <<source, producer, got, completed, exception>>
        /\ producer["maker"] = "done"
    BY <1>4 DEF Await, Register, PostSelf, stateVars, producerVars
  <2> QED
    BY <2>1
<1>5. ASSUME NEW d \in Awaiters, Resume(d) PROVE SameInv'
  <2>1. UNCHANGED <<source, producer, got, completed, exception>> /\ inFlight[d] > 0
    BY <1>5 DEF Resume, stateVars, producerVars
  <2>2. Holders(d) # 0
    BY <2>1, NoHolder DEF TypeOK
  <2>3. awaiter[d] # "running"
    BY <2>2 DEF HeldInv, HeldOnce
  <2> QED
    BY <2>1, <2>3
<1>6. ASSUME NEW d \in Awaiters, AwaitResume(d) PROVE SameInv'
  <2>1. /\ UNCHANGED <<source, producer, completed, exception>>
        /\ awaiter[d] = "resuming"
        /\ \A c \in Awaiters \ {d} : got'[c] = got[c]
    BY <1>6 DEF AwaitResume, producerVars, TypeOK
  <2>2. completed /\ producer["maker"] = "done" /\ (exception \/ value # "unset")
    BY <2>1 DEF ReadyInv, OutcomeReady
  <2>3. CASE exception
    <3>1. got' = [got EXCEPT ![d] = @ \cup {"exception"}]
      BY <1>6, <2>2, <2>3 DEF AwaitResume
    <3> QED
      BY <2>1, <2>2, <2>3, <3>1 DEF TypeOK
  <2>4. CASE ~exception
    <3>1. got' = [got EXCEPT ![d] = @ \cup {value}] /\ value # "exception"
      BY <1>6, <2>2, <2>4 DEF AwaitResume, TypeOK
    <3> QED
      BY <2>1, <2>2, <2>4, <3>1 DEF TypeOK
  <2> QED
    BY <2>3, <2>4
<1>7. CASE UNCHANGED vars
  BY <1>7 DEF vars, stateVars, producerVars, awaiterVars
<1> QED
  BY <1>1, <1>2, <1>3, <1>4, <1>5, <1>6, <1>7 DEF Next, AwaiterStep

LEMMA InitSameInv == Init => SameInv
<1> SUFFICES ASSUME Init PROVE SameInv
  OBVIOUS
<1>1. producer["helper"] = "none"
  BY DEF Init, Producers
<1>2. \A c \in Awaiters : awaiter[c] = "running" /\ got[c] = {}
  BY DEF Init
<1> QED
  BY <1>1, <1>2 DEF Init, SameInv

(* The inductive invariant.                                                *)
Inv == TypeOK /\ HeldInv /\ ReadyInv /\ SameInv

(* It holds in every state the task can be in.                             *)
THEOREM Invariance == SafeSpec => []Inv
<1>1. Inv /\ [Next]_vars => Inv'
  BY NextTypeOK, NextHeldInv, NextReadyInv, NextSameInv DEF Inv
<1>2. Init => Inv
  BY InitTypeOK, InitHeldInv, InitReadyInv, InitSameInv DEF Inv
<1> QED
  BY <1>1, <1>2, PTL DEF SafeSpec

(* Whoever awaits a task, at whatever time, sees values only or the        *)
(* exception only.                                                         *)
THEOREM OneOutcome == SafeSpec => []SameOutcome
<1>1. Inv => SameOutcome
  BY DEF Inv, SameInv, SameOutcome
<1> QED
  BY <1>1, Invariance, PTL

-----------------------------------------------------------------------------
(* The task as a Future                                                    *)

(* What the waiters of the Future are doing.                               *)
Waiter(c) ==
  CASE awaiter[c] = "running"                    -> "away"
    [] awaiter[c] = "resuming"                   -> "answered"
    [] awaiter[c] = "suspended" /\ Stranded(c)   -> "lost"
    [] OTHER                                     -> "waiting"

(* What the Future was settled with.                                       *)
SettledWith == IF ~Settled THEN "none" ELSE IF exception THEN "exception" ELSE "value"

(* What each waiter has read.                                              *)
ReadBy == [c \in Awaiters |-> {Seen(g) : g \in got[c]}]

LEMMA FutureVars ==
  ASSUME SettledWith' = SettledWith, ReadBy' = ReadBy,
         \A c \in Awaiters : Waiter(c)' = Waiter(c)
  PROVE  UNCHANGED Outcome!futureVars
BY DEF Outcome!futureVars, SettledWith, ReadBy, Waiter

(* One waiter goes from one state to another.                              *)
LEMMA OneWaiter ==
  ASSUME NEW c \in Awaiters, NEW from, NEW to,
         SettledWith' = SettledWith,
         Waiter(c) = from, Waiter(c)' = to,
         \A d \in Awaiters \ {c} : Waiter(d)' = Waiter(d)
  PROVE  Outcome!Goes(c, from, to)
<1> DEFINE st == [d \in Awaiters |-> Waiter(d)]
<1>1. st' = [st EXCEPT ![c] = to] /\ st[c] = from
  OBVIOUS
<1> QED
  BY <1>1 DEF Outcome!Goes, SettledWith, Waiter

(* The thread that makes the task and the one that produces its outcome:   *)
(* the task is settled once, whatever is written to its state.             *)
LEMMA ProducerImplements ==
  ASSUME Inv, MakerStep \/ HelperStep \/ \E p \in Producers : Complete(p)
  PROVE  [Outcome!Next]_(Outcome!futureVars)
<1>1. UNCHANGED <<awaiter, inFlight, got, dropped, replaced>>
  BY DEF MakerStep, StartThread, HandOver, FuncReturns, FuncThrows, HelperStep,
         HelperValue, HelperThrows, Complete, awaiterVars
<1>2. ReadBy' = ReadBy /\ \A c \in Awaiters : Waiter(c)' = Waiter(c)
  BY <1>1 DEF ReadBy, Waiter, Stranded
<1>3. Settled => SettledWith' = SettledWith
  <2> SUFFICES ASSUME completed, producer["maker"] = "done"
               PROVE  SettledWith' = SettledWith
    BY DEF Settled
  <2>1. CASE MakerStep \/ HelperStep
    <3>1. completed' = completed /\ exception' = exception /\ producer'["maker"] = "done"
      BY <2>1 DEF MakerStep, StartThread, HandOver, FuncReturns, FuncThrows, GoTo,
         HelperStep, HelperValue, HelperThrows, stateVars, Inv, TypeOK, Producers
    <3> QED
      BY <3>1 DEF SettledWith, Settled
  <2>2. CASE \E p \in Producers : Complete(p)
    <3>1. Complete("helper")
      BY <2>2 DEF Complete, Producers
    <3>2. producer["helper"] # "exception"
      BY <3>1 DEF Complete, Inv, SameInv
    <3>3. completed' /\ exception' = exception /\ producer'["maker"] = "done"
      BY <3>1, <3>2 DEF Complete, GoTo, Inv, TypeOK, Producers
    <3> QED
      BY <3>3 DEF SettledWith, Settled
  <2> QED
    BY <2>1, <2>2
<1>4. CASE SettledWith' = SettledWith
  BY <1>2, <1>4, FutureVars
<1>5. CASE SettledWith' # SettledWith
  <2>1. SettledWith = "none" /\ SettledWith' \in {"value", "exception"}
    BY <1>3, <1>5 DEF SettledWith
  <2>2. Outcome!Settle
    BY <1>2, <2>1 DEF Outcome!Settle, Outcome!Settled, SettledWith, ReadBy, Waiter
  <2> QED
    BY <2>2 DEF Outcome!Next
<1> QED
  BY <1>4, <1>5

(* A resumption is handed over, by the helper: a scheduler that refuses it *)
(* loses the waiter.  The maker has none to hand over.                     *)
LEMMA DispatchImplements ==
  ASSUME Inv, NEW p \in Producers, Dispatch(p)
  PROVE  [Outcome!Next]_(Outcome!futureVars)
<1>1. /\ producer[p] = "post" /\ completed
      /\ UNCHANGED <<completed, exception, awaiter, got, replaced>>
  BY DEF Dispatch, stateVars, Inv, ReadyInv
<1>2. ReadBy' = ReadBy
  BY <1>1 DEF ReadBy
<1>3. CASE taken[p] = None
  <2>1. \A c \in Awaiters : Waiter(c)' = Waiter(c)
    BY <1>1, <1>3 DEF Dispatch, Waiter, Stranded
  <2>2. Settled => SettledWith' = SettledWith
    BY <1>1 DEF Dispatch, GoTo, Settled, SettledWith, Inv, TypeOK, Producers
  <2>3. CASE SettledWith' = SettledWith
    BY <1>2, <2>1, <2>3, FutureVars
  <2>4. CASE SettledWith' # SettledWith
    <3>1. SettledWith = "none" /\ SettledWith' \in {"value", "exception"}
      BY <2>2, <2>4 DEF SettledWith
    <3>2. Outcome!Settle
      BY <1>2, <2>1, <3>1 DEF Outcome!Settle, Outcome!Settled, SettledWith, ReadBy, Waiter
    <3> QED
      BY <3>2 DEF Outcome!Next
  <2> QED
    BY <2>3, <2>4
<1>4. ASSUME NEW d \in Awaiters, taken[p] = d
      PROVE  [Outcome!Next]_(Outcome!futureVars)
  <2>1. awaiter[d] = "suspended" /\ ~Stranded(d)
    BY <1>4, HeldIsSuspended DEF Inv
  <2>2. p = "helper" /\ producer["maker"] = "done"
    BY <1>1, <2>1 DEF Inv, SameInv, Producers
  <2>3. SettledWith' = SettledWith
    BY <1>1, <2>2 DEF Dispatch, GoTo, Settled, SettledWith, Inv, TypeOK, Producers
  <2>4. CASE dropped' = dropped
    <3>1. \A c \in Awaiters : Waiter(c)' = Waiter(c)
      BY <1>1, <2>4 DEF Waiter, Stranded
    <3> QED
      BY <1>2, <2>3, <3>1, FutureVars
  <2>5. CASE dropped' = dropped \cup {d}
    <3>1. Waiter(d) = "waiting" /\ Waiter(d)' = "lost"
      BY <1>1, <2>1, <2>5 DEF Waiter, Stranded
    <3>2. \A c \in Awaiters \ {d} : Waiter(c)' = Waiter(c)
      BY <1>1, <2>5 DEF Waiter, Stranded
    <3>3. Outcome!Lose(d)
      BY <1>2, <2>3, <3>1, <3>2, OneWaiter DEF Outcome!Lose, ReadBy
    <3> QED
      BY <3>3 DEF Outcome!Next
  <2> QED
    BY <1>4, <2>4, <2>5, AwaitersAssumption DEF Dispatch, Post
<1> QED
  BY <1>3, <1>4 DEF Inv, TypeOK

(* A waiter asks, is answered once the task is settled, and reads.         *)
LEMMA AwaiterImplements ==
  ASSUME Inv, NEW c \in Awaiters, Await(c) \/ AwaiterStep(c)
  PROVE  [Outcome!Next]_(Outcome!futureVars)
<1>1. /\ UNCHANGED <<completed, exception, producer>>
      /\ SettledWith' = SettledWith
  BY DEF Await, AwaiterStep, Register, PostSelf, Resume, AwaitResume, stateVars,
         producerVars, SettledWith, Settled
<1>2. awaiter[c] # "running" => producer["maker"] = "done"
  BY DEF Inv, SameInv
<1>3. CASE Await(c)
  <2>1. /\ awaiter[c] = "running" /\ producer["maker"] = "done"
        /\ awaiter' = [awaiter EXCEPT ![c] = IF completed THEN "resuming" ELSE "suspending"]
        /\ UNCHANGED <<got, dropped, replaced>>
    BY <1>3 DEF Await
  <2>2. ReadBy' = ReadBy /\ ~Stranded(c)' /\ Waiter(c) = "away"
    BY <2>1 DEF ReadBy, Waiter, Stranded, Inv, HeldInv
  <2>3. \A d \in Awaiters \ {c} : Waiter(d)' = Waiter(d)
    BY <2>1 DEF Waiter, Stranded, Inv, TypeOK
  <2>4. CASE completed
    <3>1. Waiter(c)' = "answered"
      BY <2>1, <2>4 DEF Waiter, Inv, TypeOK
    <3>2. Outcome!AskLate(c)
      BY <1>1, <2>1, <2>2, <2>3, <2>4, <3>1, OneWaiter
         DEF Outcome!AskLate, Outcome!Settled, ReadBy, Settled
    <3> QED
      BY <3>2 DEF Outcome!Next
  <2>5. CASE ~completed
    <3>1. Waiter(c)' = "waiting"
      BY <2>1, <2>2, <2>5 DEF Waiter, Inv, TypeOK
    <3>2. Outcome!Ask(c)
      BY <1>1, <2>2, <2>3, <3>1, OneWaiter DEF Outcome!Ask, ReadBy
    <3> QED
      BY <3>2 DEF Outcome!Next
  <2> QED
    BY <2>4, <2>5
<1>4. CASE Register(c)
  <2>1. awaiter[c] = "suspending" /\ UNCHANGED <<got, dropped>>
    BY <1>4 DEF Register
  <2>2. ReadBy' = ReadBy /\ ~Stranded(c) /\ Holders(c) = 0
    BY <2>1 DEF ReadBy, Inv, HeldInv, HeldOnce
  <2>3. continuation # c
    BY <2>2, NoHolder DEF Inv
  <2>4. CASE completed
    <3>1. awaiter' = [awaiter EXCEPT ![c] = "posting"] /\ replaced' = replaced
      BY <1>4, <2>4 DEF Register
    <3>2. \A d \in Awaiters : Waiter(d)' = Waiter(d)
      BY <2>1, <2>2, <3>1 DEF Waiter, Stranded, Inv, TypeOK
    <3> QED
      BY <1>1, <2>2, <3>2, FutureVars
  <2>5. CASE ~completed
    <3>1. /\ awaiter' = [awaiter EXCEPT ![c] = "suspended"]
          /\ replaced' = replaced \cup ({continuation} \ {None})
      BY <1>4, <2>5 DEF Register
    <3>2. Waiter(c)' = Waiter(c)
      BY <2>1, <2>2, <2>3, <3>1 DEF Waiter, Stranded, Inv, TypeOK
    <3>3. \A d \in Awaiters \ {c} : d # continuation => Waiter(d)' = Waiter(d)
      BY <2>1, <3>1 DEF Waiter, Stranded, Inv, TypeOK
    <3>4. CASE continuation = None
      <4>1. \A d \in Awaiters : Waiter(d)' = Waiter(d)
        BY <3>2, <3>3, <3>4, AwaitersAssumption
      <4> QED
        BY <1>1, <2>2, <4>1, FutureVars
    <3>5. ASSUME NEW d \in Awaiters, continuation = d
          PROVE  Outcome!Lose(d)
      <4>1. awaiter[d] = "suspended" /\ ~Stranded(d)
        BY <3>5, HeldIsSuspended DEF Inv
      <4>2. Waiter(d) = "waiting" /\ Waiter(d)' = "lost"
        BY <2>1, <2>3, <3>1, <3>5, <4>1, AwaitersAssumption
           DEF Waiter, Stranded, Inv, TypeOK
      <4>3. \A e \in Awaiters \ {d} : Waiter(e)' = Waiter(e)
        BY <3>2, <3>3, <3>5
      <4> QED
        BY <1>1, <2>2, <4>2, <4>3, OneWaiter DEF Outcome!Lose, ReadBy
    <3> QED
      BY <3>4, <3>5 DEF Outcome!Next, Inv, TypeOK
  <2> QED
    BY <2>4, <2>5
<1>5. CASE PostSelf(c)
  <2>1. /\ awaiter[c] = "posting" /\ awaiter' = [awaiter EXCEPT ![c] = "suspended"]
        /\ UNCHANGED <<got, replaced>> /\ dropped' \in {dropped, dropped \cup {c}}
    BY <1>5 DEF PostSelf, Post
  <2>2. ReadBy' = ReadBy /\ ~Stranded(c) /\ Waiter(c) = "waiting"
    BY <2>1 DEF ReadBy, Waiter, Inv, HeldInv
  <2>3. \A d \in Awaiters \ {c} : Waiter(d)' = Waiter(d)
    BY <2>1 DEF Waiter, Stranded, Inv, TypeOK
  <2>4. CASE dropped' = dropped
    <3>1. Waiter(c)' = "waiting"
      BY <2>1, <2>2, <2>4 DEF Waiter, Stranded, Inv, TypeOK
    <3> QED
      BY <1>1, <2>2, <2>3, <3>1, FutureVars
  <2>5. CASE dropped' = dropped \cup {c}
    <3>1. Waiter(c)' = "lost"
      BY <2>1, <2>5 DEF Waiter, Stranded, Inv, TypeOK
    <3>2. Outcome!Lose(c)
      BY <1>1, <2>2, <2>3, <3>1, OneWaiter DEF Outcome!Lose, ReadBy
    <3> QED
      BY <3>2 DEF Outcome!Next
  <2> QED
    BY <2>1, <2>4, <2>5
<1>6. CASE Resume(c)
  <2>1. /\ inFlight[c] > 0 /\ awaiter' = [awaiter EXCEPT ![c] = "resuming"]
        /\ UNCHANGED <<got, dropped, replaced>>
    BY <1>6 DEF Resume
  <2>2. Holders(c) # 0
    BY <2>1, NoHolder DEF Inv, TypeOK
  <2>3. awaiter[c] \in {"posting", "suspended"} /\ ~Stranded(c)
    BY <2>2 DEF Inv, HeldInv, HeldOnce
  <2>4. Settled /\ ReadBy' = ReadBy
    BY <1>2, <2>1, <2>3 DEF Settled, ReadBy, Inv, ReadyInv
  <2>5. Waiter(c) = "waiting" /\ Waiter(c)' = "answered"
    BY <2>1, <2>3 DEF Waiter, Inv, TypeOK
  <2>6. \A d \in Awaiters \ {c} : Waiter(d)' = Waiter(d)
    BY <2>1 DEF Waiter, Stranded, Inv, TypeOK
  <2>7. Outcome!Answer(c)
    BY <1>1, <2>4, <2>5, <2>6, OneWaiter DEF Outcome!Answer, Outcome!Settled, ReadBy
  <2> QED
    BY <2>7 DEF Outcome!Next
<1>7. CASE AwaitResume(c)
  <2>1. /\ awaiter[c] = "resuming" /\ awaiter' = [awaiter EXCEPT ![c] = "running"]
        /\ UNCHANGED <<dropped, replaced>>
    BY <1>7 DEF AwaitResume
  <2>2. Settled /\ (exception \/ value # "unset")
    BY <1>2, <2>1 DEF Settled, Inv, ReadyInv, OutcomeReady
  <2>3. PICK g \in {"exception", "set", "moved"} :
          /\ exception => g = "exception"
          /\ ~exception => g \in {"set", "moved"}
          /\ got' = [got EXCEPT ![c] = got[c] \cup {g}]
    BY <1>7, <2>2 DEF AwaitResume, Settled, Inv, TypeOK
  <2>4. Seen(g) = SettledWith
    BY <2>2, <2>3 DEF Seen, SettledWith
  <2>5. ReadBy' = [ReadBy EXCEPT ![c] = ReadBy[c] \cup {SettledWith}]
    <3>1. got'[c] = got[c] \cup {g} /\ \A d \in Awaiters \ {c} : got'[d] = got[d]
      BY <2>3 DEF Inv, TypeOK
    <3>2. {Seen(x) : x \in got'[c]} = {Seen(x) : x \in got[c]} \cup {SettledWith}
      BY <2>4, <3>1
    <3> QED
      BY <3>1, <3>2 DEF ReadBy
  <2>6. Waiter(c) = "answered" /\ Waiter(c)' = "away"
    BY <2>1 DEF Waiter, Inv, TypeOK
  <2>7. \A d \in Awaiters \ {c} : Waiter(d)' = Waiter(d)
    BY <2>1 DEF Waiter, Stranded, Inv, TypeOK
  <2>8. Outcome!Read(c)
    BY <1>1, <2>5, <2>6, <2>7, OneWaiter DEF Outcome!Read, ReadBy, SettledWith
  <2> QED
    BY <2>8 DEF Outcome!Next
<1> QED
  BY <1>3, <1>4, <1>5, <1>6, <1>7 DEF AwaiterStep

(* Seen by those who await it, an AsyncTask is a Future.                   *)
THEOREM Refinement == SafeSpec => FutureSafe
<1>1. Init => Outcome!Init
  <2> SUFFICES ASSUME Init PROVE Outcome!Init
    OBVIOUS
  <2>1. /\ SettledWith = "none" /\ \A c \in Awaiters : Waiter(c) = "away"
        /\ ReadBy = [c \in Awaiters |-> {}]
    BY DEF Init, SettledWith, Settled, Waiter, ReadBy
  <2> QED
    BY <2>1 DEF Outcome!Init, SettledWith, Waiter, ReadBy
<1>2. Inv /\ [Next]_vars => [Outcome!Next]_(Outcome!futureVars)
  <2> SUFFICES ASSUME Inv, [Next]_vars PROVE [Outcome!Next]_(Outcome!futureVars)
    OBVIOUS
  <2>1. CASE UNCHANGED vars
    BY <2>1 DEF vars, stateVars, producerVars, awaiterVars, Outcome!futureVars,
       Settled, Stranded
  <2> QED
    BY <2>1, ProducerImplements, DispatchImplements, AwaiterImplements DEF Next
<1> QED
  BY <1>1, <1>2, Invariance, PTL DEF SafeSpec, FutureSafe, Outcome!SafeSpec
=============================================================================
