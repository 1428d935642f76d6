------------------------- MODULE CancellationProofs -------------------------
(***************************************************************************)
(* A cancellation keeps its promise: a callback taken back in time never   *)
(* runs, any other has run once when the source says cancelled.            *)
(***************************************************************************)
EXTENDS Cancellation, TLAPS

-----------------------------------------------------------------------------
(* The invariant                                                           *)

(* A registration whose callback cancel() is to run, or ran.               *)
InTime == {"held", "released", "forgotten"}

Types ==
  /\ state \in {"not cancelled", "requested", "cancelled"}
  /\ callbacks \subseteq Callbacks
  /\ mutex \in Threads \cup {None}
  /\ pc \in [Threads -> {"idle", "asleep", "calling", "inside", "inline",
                         "joining", "exited"}]
  /\ then \in [Threads -> {"idle", "joining", "exited"}]
  /\ toCall \in [Threads -> SUBSET Callbacks]
  /\ current \in [Threads -> Callbacks \cup {None}]
  /\ place \in [Callbacks -> {"none", "held", "withdrawn", "released",
                              "forgotten", "late"}]
  /\ ran \in [Callbacks -> Nat]
  /\ destroyed \in BOOLEAN

(* The thread in cancel(), past its lock, is the only one there.           *)
OneCanceller ==
  /\ \A t \in Threads : pc[t] \in {"calling", "inside"} => state = "requested"
  /\ \A t, u \in Threads :
       pc[t] \in {"calling", "inside"} /\ pc[u] \in {"calling", "inside"} => t = u

(* What the threads hold fits where they are; the lock is held for a       *)
(* callback that is run by its own registration only.                      *)
Fit ==
  /\ \A t \in Threads :
       /\ toCall[t] # {} => pc[t] \in {"calling", "inside"}
       /\ current[t] # None <=> pc[t] \in {"inside", "inline"}
       /\ pc[t] = "inline" <=> mutex = t
       /\ pc[t] = "inline" => state # "not cancelled" /\ place[current[t]] = "late"
       /\ pc[t] = "inside" => place[current[t]] \in InTime
       /\ current[t] \notin toCall[t]

(* A callback about to be run, or being run, has not been.                 *)
NotYet ==
  \A t \in Threads, r \in Callbacks :
    /\ r \in toCall[t] => place[r] \in InTime
    /\ r \in toCall[t] \/ current[t] = r => ran[r] = 0

(* Before the request: nothing ran, and what is in the map is what was     *)
(* registered and not taken back.                                          *)
Before ==
  state = "not cancelled" =>
    /\ \A r \in Callbacks :
         /\ place[r] \in {"none", "held", "withdrawn", "forgotten"}
         /\ r \in callbacks <=> place[r] \in {"held", "forgotten"}
         /\ ran[r] = 0

(* After it: the map is empty, and what was in it has run, or is in the    *)
(* hands of the thread that cancels.                                       *)
After ==
  state # "not cancelled" =>
    /\ callbacks = {}
    /\ \A r \in Callbacks :
         place[r] \in InTime =>
           \/ ran[r] = 1
           \/ \E t \in Threads : r \in toCall[t]
           \/ \E t \in Threads : current[t] = r

(* Callbacks that came too late, and those that never came.                *)
Late ==
  \A r \in Callbacks :
    /\ place[r] = "late" => ran[r] = 1 \/ \E t \in Threads : current[t] = r
    /\ place[r] \in {"none", "withdrawn"} => ran[r] = 0

(* No two threads run one callback.                                        *)
RunByOne ==
  \A t, u \in Threads : current[t] = current[u] /\ current[t] # None => t = u

Inv ==
  /\ Types /\ OneCanceller /\ Fit /\ NotYet /\ Before /\ After /\ Late /\ RunByOne
  /\ \A r \in Callbacks : ran[r] \in 0 .. 1

-----------------------------------------------------------------------------

(* The part of cancel() under the lock.                                    *)
LEMMA RequestKeeps ==
  ASSUME NEW t \in Threads, NEW next \in {"idle", "joining", "exited"},
         Inv, Request(t, next), pc[t] \in {"idle", "asleep"},
         destroyed' \in BOOLEAN
  PROVE  Inv'
<1>1. /\ Types /\ OneCanceller /\ Fit /\ NotYet /\ Before /\ After /\ Late
      /\ RunByOne /\ \A r \in Callbacks : ran[r] \in 0 .. 1
  BY DEF Inv
<1>2. Types'
  BY <1>1 DEF Types, Request
<1>3. /\ UNCHANGED <<mutex, current, place, ran>>
      /\ current[t] = None /\ toCall[t] = {} /\ mutex = None
      /\ \A u \in Threads \ {t} : pc'[u] = pc[u] /\ toCall'[u] = toCall[u]
  BY <1>1, CancellationAssumption DEF Types, Fit, Request
<1>4. \A r \in Callbacks : ran'[r] \in 0 .. 1
  BY <1>1, <1>3
<1>5. CASE state = "not cancelled"
  <2>1. /\ state' = "requested" /\ callbacks' = {}
        /\ pc'[t] = "calling" /\ toCall'[t] = callbacks
    BY <1>1, <1>5 DEF Request, Types
  <2>2. \A u \in Threads : pc[u] \notin {"calling", "inside", "inline"}
    BY <1>1, <1>5 DEF OneCanceller, Fit
  <2>3. \A u \in Threads : toCall[u] = {} /\ current[u] = None
    BY <1>1, <2>2 DEF Fit
  <2>4. OneCanceller'
    BY <1>3, <2>1, <2>2 DEF OneCanceller
  <2>5. Fit'
    <3> SUFFICES ASSUME NEW u \in Threads
                 PROVE  /\ toCall'[u] # {} => pc'[u] \in {"calling", "inside"}
                        /\ current[u] # None <=> pc'[u] \in {"inside", "inline"}
                        /\ pc'[u] = "inline" <=> mutex = u
                        /\ pc'[u] \notin {"inline", "inside"}
                        /\ current[u] \notin toCall'[u]
      BY <1>3 DEF Fit
    <3>1. None \notin callbacks /\ u # None
      BY <1>1, CancellationAssumption DEF Types
    <3> QED
      BY <3>1, <1>3, <2>1, <2>2, <2>3
  <2>6. NotYet'
    BY <1>1, <1>3, <1>5, <2>1, <2>3, CancellationAssumption DEF NotYet, Before, InTime
  <2>7. Before' /\ After'
    BY <1>1, <1>3, <1>5, <2>1 DEF Before, After, InTime
  <2>8. Late' /\ RunByOne'
    BY <1>1, <1>3 DEF Late, RunByOne
  <2> QED
    BY <1>2, <1>4, <2>4, <2>5, <2>6, <2>7, <2>8 DEF Inv
<1>6. CASE state # "not cancelled"
  <2>1. /\ UNCHANGED <<state, callbacks, toCall>>
        /\ pc'[t] \in {"idle", "joining", "exited"}
    BY <1>1, <1>6 DEF Request, Types
  <2>2. OneCanceller'
    BY <1>1, <1>3, <2>1 DEF OneCanceller
  <2>3. Fit'
    BY <1>1, <1>3, <2>1, CancellationAssumption DEF Fit
  <2>4. NotYet' /\ Before' /\ After' /\ Late' /\ RunByOne'
    BY <1>1, <1>3, <2>1 DEF NotYet, Before, After, Late, RunByOne
  <2> QED
    BY <1>2, <1>4, <2>2, <2>3, <2>4 DEF Inv
<1> QED
  BY <1>5, <1>6

(* A callback is begun.                                                    *)
LEMMA CallKeeps ==
  ASSUME NEW t \in Threads, NEW r \in Callbacks, Inv, Call(t, r)
  PROVE  Inv'
<1>1. /\ Types /\ OneCanceller /\ Fit /\ NotYet /\ Before /\ After /\ Late
      /\ RunByOne /\ \A q \in Callbacks : ran[q] \in 0 .. 1
  BY DEF Inv
<1>2. Types'
  BY <1>1 DEF Types, Call
<1>3. /\ UNCHANGED <<state, callbacks, mutex, place, ran>>
      /\ pc[t] = "calling" /\ r \in toCall[t] /\ state = "requested"
      /\ current[t] = None /\ r # None /\ mutex # t
      /\ pc'[t] = "inside" /\ current'[t] = r /\ toCall'[t] = toCall[t] \ {r}
      /\ \A u \in Threads \ {t} :
           pc'[u] = pc[u] /\ current'[u] = current[u] /\ toCall'[u] = toCall[u]
  BY <1>1, CancellationAssumption DEF Types, Fit, OneCanceller, Call
<1>4. \A u \in Threads \ {t} : toCall[u] = {} /\ pc[u] \notin {"calling", "inside"}
  BY <1>1, <1>3 DEF OneCanceller, Fit
<1>5. place[r] \in InTime /\ ran[r] = 0
  BY <1>1, <1>3 DEF NotYet
<1>6. \A u \in Threads : current[u] # r
  BY <1>1, <1>3, <1>4, <1>5 DEF Fit, InTime
<1>7. OneCanceller'
  BY <1>1, <1>3, <1>4 DEF OneCanceller
<1>8. Fit'
  BY <1>1, <1>3, <1>4, <1>5 DEF Fit
<1>9. NotYet' /\ Before'
  BY <1>1, <1>3, <1>5 DEF NotYet, Before
<1>10. After' /\ Late'
  <2>1. \A q \in Callbacks, u \in Threads : current[u] = q => current'[u] = q
    BY <1>3, CancellationAssumption
  <2>2. \A q \in Callbacks, u \in Threads :
          q \in toCall[u] => current'[t] = q \/ q \in toCall'[u]
    BY <1>3
  <2> QED
    BY <1>1, <1>3, <2>1, <2>2 DEF After, Late
<1>11. RunByOne'
  BY <1>1, <1>3, <1>6 DEF RunByOne
<1> QED
  BY <1>1, <1>2, <1>3, <1>7, <1>8, <1>9, <1>10, <1>11 DEF Inv

(* A callback comes to its end, in cancel() or in register_callback().     *)
LEMMA RunOnceKeeps ==
  ASSUME NEW t \in Threads, Inv, RunOnce(t), pc[t] \in {"inside", "inline"},
         pc' = [pc EXCEPT ![t] = IF @ = "inside" THEN "calling" ELSE "idle"],
         mutex' = IF pc[t] = "inside" THEN mutex ELSE None,
         UNCHANGED <<state, callbacks, then, toCall, destroyed>>
  PROVE  Inv'
<1> DEFINE r == current[t]
<1>1. /\ Types /\ OneCanceller /\ Fit /\ NotYet /\ Before /\ After /\ Late
      /\ RunByOne /\ \A q \in Callbacks : ran[q] \in 0 .. 1
  BY DEF Inv
<1>2. r \in Callbacks /\ r # None
  BY <1>1, CancellationAssumption DEF Types, Fit
<1>3. ran[r] = 0
  BY <1>1, <1>2 DEF NotYet
<1>0. /\ ran' = [ran EXCEPT ![r] = 1]
      /\ current' = [current EXCEPT ![t] = None]
      /\ \/ place' = place
         \/ place[r] = "held" /\ place' = [place EXCEPT ![r] = "released"]
  <2>1. /\ ran' = [ran EXCEPT ![r] = ran[r] + 1]
        /\ current' = [current EXCEPT ![t] = None]
    BY DEF RunOnce
  <2>2. place' = [place EXCEPT ![r] = IF r \in Reentrant /\ place[r] = "held"
                                       THEN "released" ELSE place[r]]
    BY DEF RunOnce
  <2>3. \/ place' = place
        \/ place[r] = "held" /\ place' = [place EXCEPT ![r] = "released"]
    BY <1>1, <1>2, <2>2 DEF Types
  <2>4. ran[r] + 1 = 1
    BY <1>3
  <2> QED
    BY <2>1, <2>3, <2>4
<1>4. Types'
  <2>1. /\ pc' \in [Threads -> {"idle", "asleep", "calling", "inside", "inline",
                              "joining", "exited"}]
        /\ mutex' \in Threads \cup {None}
    BY <1>1 DEF Types
  <2>2. /\ current' \in [Threads -> Callbacks \cup {None}]
        /\ place \in [Callbacks -> {"none", "held", "withdrawn", "released",
                                    "forgotten", "late"}]
    BY <1>0, <1>1 DEF Types
  <2>4. place' \in [Callbacks -> {"none", "held", "withdrawn", "released",
                                 "forgotten", "late"}]
    BY <1>0, <1>2, <2>2
  <2>3. ran' \in [Callbacks -> Nat]
    BY <1>0, <1>1, <1>2 DEF Types
  <2> QED
    BY <1>1, <2>1, <2>2, <2>3, <2>4 DEF Types
<1>5. /\ current'[t] = None /\ ran'[r] = 1
      /\ place'[r] \in InTime <=> place[r] \in InTime
      /\ place'[r] = "late" <=> place[r] = "late"
      /\ place[r] \notin InTime => place'[r] = place[r]
      /\ \A u \in Threads \ {t} : pc'[u] = pc[u] /\ current'[u] = current[u]
      /\ \A q \in Callbacks \ {r} : ran'[q] = ran[q] /\ place'[q] = place[q]
      /\ pc'[t] = IF pc[t] = "inside" THEN "calling" ELSE "idle"
  <2>1. /\ current'[t] = None /\ ran'[r] = 1
        /\ \A q \in Callbacks \ {r} : ran'[q] = ran[q]
        /\ \A u \in Threads \ {t} : current'[u] = current[u]
    BY <1>0, <1>1, <1>2 DEF Types
  <2>2. /\ \A u \in Threads \ {t} : pc'[u] = pc[u]
        /\ pc'[t] = IF pc[t] = "inside" THEN "calling" ELSE "idle"
    BY <1>1 DEF Types
  <2>3. /\ \A q \in Callbacks \ {r} : place'[q] = place[q]
        /\ \/ place'[r] = place[r]
           \/ place[r] = "held" /\ place'[r] = "released"
    BY <1>0, <1>1, <1>2 DEF Types
  <2> QED
    BY <2>1, <2>2, <2>3 DEF InTime
<1>6. \A u \in Threads \ {t} : current[u] # r
  BY <1>1, <1>2 DEF RunByOne
<1>7. \A u \in Threads : r \notin toCall[u]
  BY <1>1, <1>2 DEF Fit, OneCanceller, NotYet, InTime
<1>8. state # "not cancelled" /\ place[r] \in InTime \cup {"late"}
  BY <1>1 DEF Fit, OneCanceller
<1> HIDE DEF r
<1>9. OneCanceller'
  BY <1>1, <1>5 DEF OneCanceller
<1>10. Fit'
  <2> SUFFICES ASSUME NEW u \in Threads
               PROVE  /\ toCall[u] # {} => pc'[u] \in {"calling", "inside"}
                      /\ current'[u] # None <=> pc'[u] \in {"inside", "inline"}
                      /\ pc'[u] = "inline" <=> mutex' = u
                      /\ pc'[u] = "inline" =>
                           state # "not cancelled" /\ place'[current'[u]] = "late"
                      /\ pc'[u] = "inside" => place'[current'[u]] \in InTime
                      /\ current'[u] \notin toCall[u]
    BY DEF Fit
  <2>1. CASE u = t
    <3>1. None \notin toCall[u] /\ u # None
      BY <1>1, CancellationAssumption DEF Types
    <3>2. mutex' # t
      BY <1>1, <3>1, <2>1 DEF Fit
    <3>3. toCall[t] # {} => pc[t] = "inside"
      BY <1>1 DEF Fit
    <3>4. pc'[u] \in {"calling", "idle"} /\ current'[u] = None
      BY <1>5, <2>1
    <3>5. toCall[u] # {} => pc'[u] = "calling"
      BY <1>5, <2>1, <3>3
    <3> QED
      BY <2>1, <3>1, <3>2, <3>4, <3>5
  <2>2. CASE u # t
    <3>1. pc'[u] = pc[u] /\ current'[u] = current[u]
      BY <1>5, <2>2
    <3>2. pc'[u] \in {"inside", "inline"} => current[u] \in Callbacks \ {r}
      BY <1>1, <1>6, <2>2, <3>1, CancellationAssumption DEF Fit, Types
    <3>3. mutex' = u <=> mutex = u
      BY <1>1, <2>2, CancellationAssumption DEF Fit
    <3> QED
      BY <1>1, <1>5, <3>1, <3>2, <3>3 DEF Fit
  <2> QED
    BY <2>1, <2>2
<1>11. NotYet'
  <2> SUFFICES ASSUME NEW u \in Threads, NEW q \in Callbacks
               PROVE  /\ q \in toCall[u] => place'[q] \in InTime
                      /\ q \in toCall[u] \/ current'[u] = q => ran'[q] = 0
    BY DEF NotYet
  <2>1. CASE q = r
    BY <2>1, <1>5, <1>6, <1>7, CancellationAssumption
  <2>2. CASE q # r
    BY <1>1, <1>5, <2>2, CancellationAssumption DEF NotYet
  <2> QED
    BY <2>1, <2>2
<1>12. Before' /\ After'
  <2>1. Before'
    BY <1>8 DEF Before
  <2>2. After'
    <3> SUFFICES ASSUME NEW q \in Callbacks, place'[q] \in InTime, q # r
                 PROVE  \/ ran'[q] = 1
                        \/ \E u \in Threads : q \in toCall[u]
                        \/ \E u \in Threads : current'[u] = q
      BY <1>1, <1>5, <1>8 DEF After
    <3>1. ran'[q] = ran[q] /\ place[q] \in InTime
      BY <1>5
    <3>2. \A u \in Threads : current[u] = q => u # t /\ current'[u] = q
      BY <1>5 DEF r
    <3> QED
      BY <1>1, <1>8, <3>1, <3>2 DEF After
  <2> QED
    BY <2>1, <2>2
<1>13. Late'
  <2> SUFFICES ASSUME NEW q \in Callbacks
               PROVE  /\ place'[q] = "late" =>
                           ran'[q] = 1 \/ \E u \in Threads : current'[u] = q
                      /\ place'[q] \in {"none", "withdrawn"} => ran'[q] = 0
    BY DEF Late
  <2>1. CASE q = r
    BY <1>5, <1>8, <2>1 DEF InTime
  <2>2. CASE q # r
    <3>1. \A u \in Threads : current[u] = q => current'[u] = q
      BY <1>5, <2>2 DEF r
    <3> QED
      BY <1>1, <1>5, <2>2, <3>1 DEF Late
  <2> QED
    BY <2>1, <2>2
<1>14. RunByOne'
  BY <1>1, <1>5 DEF RunByOne
<1>15. \A q \in Callbacks : ran'[q] \in 0 .. 1
  BY <1>1, <1>5
<1> QED
  BY <1>4, <1>9, <1>10, <1>11, <1>12, <1>13, <1>14, <1>15 DEF Inv

(* cancel() is done.                                                       *)
LEMMA FinishKeeps ==
  ASSUME NEW t \in Threads, Inv, Finish(t)
  PROVE  Inv'
<1>1. /\ Types /\ OneCanceller /\ Fit /\ NotYet /\ Before /\ After /\ Late
      /\ RunByOne /\ \A q \in Callbacks : ran[q] \in 0 .. 1
  BY DEF Inv
<1>2. Types'
  BY <1>1 DEF Types, Finish
<1>3. /\ UNCHANGED <<callbacks, mutex, toCall, current, place, ran>>
      /\ state = "requested" /\ state' = "cancelled"
      /\ pc[t] = "calling" /\ pc'[t] \in {"idle", "joining", "exited"}
      /\ toCall[t] = {} /\ current[t] = None /\ mutex # t
      /\ \A u \in Threads \ {t} : pc'[u] = pc[u] /\ pc[u] \notin {"calling", "inside"}
  BY <1>1, CancellationAssumption DEF Types, OneCanceller, Fit, Finish
<1>4. OneCanceller'
  BY <1>3 DEF OneCanceller
<1>5. Fit'
  BY <1>1, <1>3 DEF Fit
<1>6. NotYet' /\ Before' /\ After' /\ Late' /\ RunByOne'
  BY <1>1, <1>3 DEF NotYet, Before, After, Late, RunByOne
<1> QED
  BY <1>1, <1>2, <1>3, <1>4, <1>5, <1>6 DEF Inv

(* A registration, in time or too late.                                    *)
LEMMA RegisterKeeps ==
  ASSUME NEW t \in Threads, NEW r \in Callbacks, Inv, Register(t, r)
  PROVE  Inv'
<1>1. /\ Types /\ OneCanceller /\ Fit /\ NotYet /\ Before /\ After /\ Late
      /\ RunByOne /\ \A q \in Callbacks : ran[q] \in 0 .. 1
  BY DEF Inv
<1>2. Types'
  BY <1>1 DEF Types, Register
<1>3. /\ UNCHANGED <<state, toCall, ran>>
      /\ place[r] = "none" /\ pc[t] = "idle" /\ mutex = None
      /\ current[t] = None /\ toCall[t] = {} /\ ran[r] = 0
      /\ \A q \in Callbacks \ {r} : place'[q] = place[q]
      /\ \A u \in Threads : r \notin toCall[u] /\ pc[u] # "inline"
  <2>1. /\ UNCHANGED <<state, toCall, ran>>
        /\ place[r] = "none" /\ pc[t] = "idle" /\ mutex = None
        /\ \A q \in Callbacks \ {r} : place'[q] = place[q]
    BY <1>1 DEF Types, Register
  <2>2. /\ current[t] = None /\ toCall[t] = {}
        /\ \A u \in Threads : pc[u] # "inline"
    BY <1>1, <2>1, CancellationAssumption DEF Fit
  <2>3. ran[r] = 0 /\ \A u \in Threads : r \notin toCall[u]
    BY <1>1, <2>1 DEF NotYet, Late, InTime
  <2> QED
    BY <2>1, <2>2, <2>3
<1>4. \A u \in Threads : current[u] # r
  <2> SUFFICES ASSUME NEW u \in Threads, current[u] = r PROVE FALSE
    OBVIOUS
  <2>1. pc[u] \in {"inside", "inline"}
    BY <1>1, CancellationAssumption DEF Fit
  <2> QED
    BY <1>1, <1>3, <2>1 DEF Fit, InTime
<1>5. CASE state = "not cancelled"
  <2>1. /\ UNCHANGED <<mutex, pc, current>>
        /\ callbacks' = callbacks \cup {r} /\ place'[r] = "held"
    BY <1>1, <1>5 DEF Register, Types
  <2>2. OneCanceller' /\ RunByOne'
    BY <1>1, <1>3, <2>1 DEF OneCanceller, RunByOne
  <2>3. \A u \in Threads : pc[u] \notin {"inside", "inline"}
    BY <1>1, <1>5 DEF OneCanceller, Fit
  <2>4. Fit'
    BY <1>1, <1>3, <2>1, <2>3 DEF Fit
  <2>5. NotYet' /\ Before' /\ After' /\ Late'
    BY <1>1, <1>3, <1>5, <2>1 DEF NotYet, Before, After, Late, InTime
  <2> QED
    BY <1>1, <1>2, <1>3, <2>2, <2>4, <2>5 DEF Inv
<1>6. CASE state # "not cancelled"
  <2>1. /\ UNCHANGED callbacks
        /\ mutex' = t /\ pc'[t] = "inline" /\ current'[t] = r
        /\ place'[r] = "late" /\ r # None /\ t # None
        /\ \A u \in Threads \ {t} : pc'[u] = pc[u] /\ current'[u] = current[u]
    BY <1>1, <1>6, CancellationAssumption DEF Register, Types
  <2>2. OneCanceller' /\ RunByOne'
    BY <1>1, <1>3, <1>4, <2>1 DEF OneCanceller, RunByOne
  <2>3. \A u \in Threads \ {t} :
          pc[u] = "inside" => current[u] \in Callbacks \ {r}
    <3>1. \A u \in Threads : pc[u] = "inside" => current[u] # None
      BY <1>1 DEF Fit
    <3> QED
      BY <1>1, <1>4, <3>1 DEF Types
  <2>4. Fit'
    <3> SUFFICES ASSUME NEW u \in Threads
                 PROVE  /\ toCall[u] # {} => pc'[u] \in {"calling", "inside"}
                        /\ current'[u] # None <=> pc'[u] \in {"inside", "inline"}
                        /\ pc'[u] = "inline" <=> mutex' = u
                        /\ pc'[u] = "inline" => place'[current'[u]] = "late"
                        /\ pc'[u] = "inside" => place'[current'[u]] \in InTime
                        /\ current'[u] \notin toCall[u]
      BY <1>3, <1>6 DEF Fit
    <3>1. CASE u = t
      BY <1>3, <2>1, <3>1
    <3>2. CASE u # t
      <4>1. /\ pc'[u] = pc[u] /\ current'[u] = current[u] /\ pc[u] # "inline"
            /\ mutex' # u
        BY <1>3, <2>1, <3>2
      <4>2. pc[u] = "inside" => place'[current[u]] \in InTime
        BY <1>1, <1>3, <2>3, <3>2 DEF Fit
      <4> QED
        BY <1>1, <4>1, <4>2 DEF Fit
    <3> QED
      BY <3>1, <3>2
  <2>5. NotYet' /\ Before'
    <3>1. Before'
      BY <1>3, <1>6 DEF Before
    <3>2. \A u \in Threads, q \in Callbacks : q \in toCall[u] => q # r
      BY <1>3
    <3>3. \A u \in Threads, q \in Callbacks :
            current'[u] = q => q = r \/ current[u] = q
      BY <2>1
    <3> QED
      BY <1>1, <1>3, <3>1, <3>2, <3>3 DEF NotYet
  <2>6. \A q \in Callbacks, u \in Threads : current[u] = q => current'[u] = q
    BY <1>3, <2>1, CancellationAssumption
  <2>7. After' /\ Late'
    BY <1>1, <1>3, <1>6, <2>1, <2>6 DEF After, Late, InTime
  <2> QED
    BY <1>1, <1>2, <1>3, <2>2, <2>4, <2>5, <2>7 DEF Inv
<1> QED
  BY <1>5, <1>6

(* A registration is taken back, or forgotten.                             *)
LEMMA UnregisterKeeps ==
  ASSUME NEW t \in Threads, NEW r \in Callbacks, Inv, Unregister(t, r)
  PROVE  Inv'
<1>1. /\ Types /\ OneCanceller /\ Fit /\ NotYet /\ Before /\ After /\ Late
      /\ RunByOne /\ \A q \in Callbacks : ran[q] \in 0 .. 1
  BY DEF Inv
<1>2. Types'
  BY <1>1 DEF Types, Unregister, threadVars
<1>3. /\ UNCHANGED <<state, mutex, pc, toCall, current, ran>>
      /\ place[r] = "held" /\ callbacks' = callbacks \ {r}
      /\ place'[r] = IF state = "not cancelled" THEN "withdrawn" ELSE "released"
      /\ \A q \in Callbacks \ {r} : place'[q] = place[q]
  BY <1>1 DEF Types, Unregister, threadVars
<1>4. OneCanceller' /\ RunByOne' /\ Before' /\ After'
  BY <1>1, <1>3 DEF OneCanceller, RunByOne, Before, After, InTime
<1>5. \A u \in Threads : pc[u] = "inside" => state # "not cancelled"
  BY <1>1 DEF OneCanceller
<1>6. \A u \in Threads : pc[u] \in {"inside", "inline"} => current[u] \in Callbacks
  BY <1>1 DEF Fit, Types
<1>7. Fit'
  BY <1>1, <1>3, <1>5, <1>6 DEF Fit, InTime
<1>8. \A u \in Threads : toCall[u] # {} => state # "not cancelled"
  BY <1>1 DEF OneCanceller, Fit
<1>9. NotYet'
  BY <1>1, <1>3, <1>8 DEF NotYet, InTime
<1>10. Late'
  BY <1>1, <1>3 DEF Late, Before
<1> QED
  BY <1>1, <1>2, <1>3, <1>4, <1>7, <1>9, <1>10 DEF Inv

LEMMA MoveAssignKeeps ==
  ASSUME NEW t \in Threads, NEW r \in Callbacks, Inv, MoveAssign(t, r)
  PROVE  Inv'
<1>1. /\ Types /\ OneCanceller /\ Fit /\ NotYet /\ Before /\ After /\ Late
      /\ RunByOne /\ \A q \in Callbacks : ran[q] \in 0 .. 1
  BY DEF Inv
<1>2. Types'
  BY <1>1 DEF Types, MoveAssign, threadVars
<1>3. /\ UNCHANGED <<state, callbacks, mutex, pc, toCall, current, ran>>
      /\ place[r] = "held" /\ place'[r] = "forgotten"
      /\ \A q \in Callbacks \ {r} : place'[q] = place[q]
  BY <1>1 DEF Types, MoveAssign, threadVars
<1>4. OneCanceller' /\ RunByOne' /\ Before' /\ After'
  BY <1>1, <1>3 DEF OneCanceller, RunByOne, Before, After, InTime
<1>5. \A u \in Threads : pc[u] \in {"inside", "inline"} => current[u] \in Callbacks
  BY <1>1 DEF Fit, Types
<1>6. Fit'
  BY <1>1, <1>3, <1>5 DEF Fit, InTime
<1>7. NotYet' /\ Late'
  BY <1>1, <1>3 DEF NotYet, Late, InTime
<1> QED
  BY <1>1, <1>2, <1>3, <1>4, <1>6, <1>7 DEF Inv

LEMMA JoinKeeps ==
  ASSUME NEW t \in Threads, Inv, Join(t)
  PROVE  Inv'
<1>1. /\ Types /\ OneCanceller /\ Fit /\ NotYet /\ Before /\ After /\ Late
      /\ RunByOne /\ \A q \in Callbacks : ran[q] \in 0 .. 1
  BY DEF Inv
<1>2. Types'
  BY <1>1 DEF Types, Join
<1>3. /\ UNCHANGED <<state, callbacks, mutex, toCall, current, place, ran>>
      /\ pc[t] = "joining" /\ pc'[t] = "idle"
      /\ \A u \in Threads \ {t} : pc'[u] = pc[u]
  BY <1>1 DEF Types, Join
<1>4. OneCanceller' /\ Fit'
  BY <1>1, <1>3 DEF OneCanceller, Fit
<1>5. RunByOne' /\ Before' /\ After' /\ NotYet' /\ Late'
  BY <1>1, <1>3 DEF RunByOne, Before, After, NotYet, Late
<1> QED
  BY <1>1, <1>2, <1>3, <1>4, <1>5 DEF Inv

-----------------------------------------------------------------------------
LEMMA InitInv == Init => Inv
<1> SUFFICES ASSUME Init PROVE Inv
  OBVIOUS
<1>1. /\ \A t \in Threads : /\ toCall[t] = {} /\ current[t] = None
                             /\ pc[t] \in {"idle", "asleep"} /\ t # mutex
      /\ \A r \in Callbacks : place[r] = "none" /\ ran[r] = 0
      /\ state = "not cancelled" /\ callbacks = {}
  BY CancellationAssumption DEF Init
<1>2. Types
  <2>1. /\ pc \in [Threads -> {"idle", "asleep", "calling", "inside", "inline",
                             "joining", "exited"}]
        /\ then \in [Threads -> {"idle", "joining", "exited"}]
        /\ toCall \in [Threads -> SUBSET Callbacks]
        /\ current \in [Threads -> Callbacks \cup {None}]
    BY DEF Init
  <2>2. /\ place \in [Callbacks -> {"none", "held", "withdrawn", "released",
                                  "forgotten", "late"}]
        /\ ran \in [Callbacks -> Nat]
    BY DEF Init
  <2> QED
    BY <2>1, <2>2 DEF Init, Types
<1> QED
  <2>1. OneCanceller /\ RunByOne
    BY <1>1 DEF OneCanceller, RunByOne
  <2>2. Fit
    BY <1>1 DEF Fit
  <2>3. NotYet /\ Before /\ After /\ Late
    BY <1>1 DEF NotYet, Before, After, Late, InTime
  <2>4. \A r \in Callbacks : ran[r] \in 0 .. 1
    <3>1. \A r \in Callbacks : ran[r] = 0
      BY <1>1
    <3> QED
      BY <3>1
  <2> QED
    BY <1>2, <2>1, <2>2, <2>3, <2>4 DEF Inv

LEMMA NextInv == Inv /\ [Next]_vars => Inv'
<1> SUFFICES ASSUME Inv, [Next]_vars PROVE Inv'
  OBVIOUS
<1>1. Types
  BY DEF Inv
<1>2. ASSUME NEW t \in Threads, Cancel(t) PROVE Inv'
  BY <1>1, <1>2, RequestKeeps DEF Cancel, Types
<1>3. CASE TimeOver
  BY <1>1, <1>3, RequestKeeps, CancellationAssumption DEF TimeOver, Types
<1>4. ASSUME NEW t \in Threads, Destroy(t) PROVE Inv'
  BY <1>4, RequestKeeps DEF Destroy
<1>5. ASSUME NEW t \in Threads, Called(t) PROVE Inv'
  <2>1. pc' = [pc EXCEPT ![t] = IF @ = "inside" THEN "calling" ELSE "idle"]
    BY <1>1, <1>5 DEF Called, Types
  <2> QED
    BY <1>5, <2>1, RunOnceKeeps DEF Called
<1>6. ASSUME NEW t \in Threads, RegisterReturns(t) PROVE Inv'
  <2>1. pc' = [pc EXCEPT ![t] = IF @ = "inside" THEN "calling" ELSE "idle"]
    BY <1>1, <1>6 DEF RegisterReturns, Types
  <2> QED
    BY <1>6, <2>1, RunOnceKeeps DEF RegisterReturns
<1>7. ASSUME NEW t \in Threads, Step(t) PROVE Inv'
  BY <1>5, <1>6, <1>7, CallKeeps, FinishKeeps, JoinKeeps DEF Step
<1>8. ASSUME NEW t \in Threads, NEW r \in Callbacks,
             Register(t, r) \/ Unregister(t, r) \/ MoveAssign(t, r)
      PROVE  Inv'
  <2>1. CASE Register(t, r)
    BY <2>1, RegisterKeeps
  <2>2. CASE Unregister(t, r)
    BY <2>2, UnregisterKeeps
  <2>3. CASE MoveAssign(t, r)
    BY <2>3, MoveAssignKeeps
  <2> QED
    BY <1>8, <2>1, <2>2, <2>3
<1>9. CASE UNCHANGED vars
  <2>1. UNCHANGED <<state, callbacks, mutex, pc, then, toCall, current, place, ran,
                    destroyed>>
    BY <1>9 DEF vars, threadVars
  <2>2. Types' /\ OneCanceller' /\ Fit' /\ NotYet'
    BY <2>1 DEF Inv, Types, OneCanceller, Fit, NotYet
  <2>3. Before' /\ After' /\ Late' /\ RunByOne'
    BY <2>1 DEF Inv, Before, After, Late, RunByOne
  <2> QED
    BY <2>1, <2>2, <2>3 DEF Inv
<1> QED
  BY <1>2, <1>3, <1>4, <1>7, <1>8, <1>9 DEF Next

LEMMA Invariance == SafeSpec => []Inv
  BY InitInv, NextInv, PTL DEF SafeSpec

(* No callback runs twice, and the map holds those of live registrations   *)
(* only, for any number of threads, callbacks and reentrant ones.          *)
THEOREM Typing == SafeSpec => []TypeOK
<1>1. Inv => TypeOK
  BY DEF Inv, Types, Before, After, TypeOK
<1> QED
  BY <1>1, Invariance, PTL

(* What was taken back in time never runs; what was not has run when the   *)
(* source says cancelled; what came too late runs at once.                 *)
THEOREM Promises == SafeSpec => []EachAsPromised
<1>1. Inv => EachAsPromised
  <2> SUFFICES ASSUME Inv, NEW r \in Callbacks
               PROVE  /\ place[r] = "withdrawn" => ran[r] = 0
                      /\ state = "cancelled" /\ place[r] \in InTime => ran[r] = 1
                      /\ place[r] = "late" /\ ran[r] = 0 =>
                           \E t \in Threads : current[t] = r
    BY DEF EachAsPromised, InTime
  <2>1. /\ place[r] = "withdrawn" => ran[r] = 0
        /\ place[r] = "late" /\ ran[r] = 0 => \E t \in Threads : current[t] = r
    BY DEF Inv, Late
  <2>2. ASSUME state = "cancelled", place[r] \in InTime PROVE ran[r] = 1
    <3>1. \A t \in Threads : pc[t] \notin {"calling", "inside"}
      BY <2>2 DEF Inv, OneCanceller
    <3>2. \A t \in Threads : r \notin toCall[t]
      BY <3>1 DEF Inv, Fit
    <3>3. \A t \in Threads : current[t] # r
      BY <2>2, <3>1, CancellationAssumption DEF Inv, Fit, InTime
    <3> QED
      BY <2>2, <3>2, <3>3 DEF Inv, After
  <2> QED
    BY <2>1, <2>2
<1> QED
  BY <1>1, Invariance, PTL
=============================================================================
