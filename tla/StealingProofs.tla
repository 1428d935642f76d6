--------------------------- MODULE StealingProofs ---------------------------
(***************************************************************************)
(* What holds of the two schedulers that steal, for any number of          *)
(* workers, clients and tasks: of WorkStealing, the index each worker      *)
(* finds, and that a task is taken once; of Advanced, that top() has a     *)
(* task to return, and that a task is taken once.                          *)
(***************************************************************************)
EXTENDS WorkStealing, FiniteSetTheorems, WellFoundedInduction, TLAPS

(* Workers that have looked for their index.                               *)
Looked == {w \in Workers : pc[w] \notin {"none", "boot"}}

(* TypeOK, and where the words of pc bind the other variables.             *)
Types ==
  /\ main \in {"new", "serving", "wait", "flag", "join", "clear", "stopped"}
  /\ stop \in BOOLEAN
  /\ deque \in [Deques -> Seq(Funcs)] /\ base \subseteq Conts
  /\ mapped \subseteq Workers /\ index \in [Workers -> Deques \cup {NoIndex}]
  /\ pc \in [Workers -> {"none", "boot", "insert", "loop", "local", "steal",
                         "wait", "run", "exited"}]
  /\ tries \in [Workers -> Deques]
  /\ cur \in [Workers -> Funcs \cup {None}]
  /\ call \in [Threads -> [task : Tasks, q : Deques] \cup {Idle}]
  /\ done \subseteq Funcs /\ lost \subseteq Conts
  /\ \A w \in Workers : pc[w] = "steal" => tries[w] < ThreadCount - 1
  /\ \A w \in Workers : pc[w] = "run" => cur[w] \in Funcs

(* Nobody looks before start(); who is in the map has inserted itself; the *)
(* first to look found the map empty.                                      *)
IndexInv ==
  /\ main = "new" => \A w \in Workers : pc[w] = "none"
  /\ \A w \in mapped : pc[w] \notin {"none", "boot", "insert"}
  /\ \A w \in Looked : index[w] \in Deques
  /\ Looked # {} => \E w \in Looked : index[w] = 0

-----------------------------------------------------------------------------
(* Types and indices                                                       *)

(* What the assumptions on the constants come to.                          *)
LEMMA Constants ==
  /\ ThreadCount \in Nat \ {0} /\ 0 \in Deques
  /\ IsFiniteSet(Workers) /\ Cardinality(Workers) = ThreadCount
  /\ Workers # {}
  /\ \A q \in Deques : q \in Nat /\ q < ThreadCount
  /\ None \notin Tasks /\ Funcs \subseteq Tasks /\ Conts \subseteq Tasks
  /\ None \notin Funcs /\ Funcs \cap Conts = {} /\ Workers \subseteq Threads
  /\ Idle.task = None
<1>1. Workers # {}
  BY FS_EmptySet, ThreadsAssumption
<1> QED
  BY <1>1, ThreadsAssumption DEF Deques, Tasks, Threads, Idle

(* Nobody has looked for an index before start().                          *)
LEMMA InitIndexInv == Init => Types /\ IndexInv
<1> SUFFICES ASSUME Init PROVE Types /\ IndexInv
  OBVIOUS
<1>1. Types
  <2>1. /\ deque \in [Deques -> Seq(Funcs)]
        /\ tries \in [Workers -> Deques]
        /\ call \in [Threads -> [task : Tasks, q : Deques] \cup {Idle}]
    BY Constants DEF Init
  <2> QED
    BY <2>1 DEF Init, Types
<1>2. Looked = {}
  BY DEF Init, Looked
<1> QED
  BY <1>1, <1>2 DEF Init, IndexInv

(* A worker that looks finds fewer in the map than there are workers.      *)
LEMMA FindIndexInRange ==
  ASSUME Types, IndexInv, NEW w \in Workers, pc[w] = "boot"
  PROVE  Cardinality(mapped) \in Deques
<1>1. w \notin mapped /\ mapped \subseteq Workers \ {w}
  BY DEF Types, IndexInv
<1>2. /\ IsFiniteSet(Workers \ {w})
      /\ Cardinality(Workers \ {w}) = ThreadCount - 1
  BY Constants, FS_RemoveElement
<1>3. IsFiniteSet(mapped) /\ Cardinality(mapped) <= ThreadCount - 1
  BY <1>1, <1>2, FS_Subset
<1> QED
  BY <1>3, Constants, FS_CardinalityType DEF Deques

(* A worker that looks finds an index in range; the first to look finds 0. *)
LEMMA FindIndexKeeps ==
  ASSUME Types, IndexInv, NEW w \in Workers, FindIndex(w)
  PROVE  Types' /\ IndexInv'
<1>1. /\ pc[w] = "boot" /\ pc' = [pc EXCEPT ![w] = "insert"]
      /\ index' = [index EXCEPT ![w] = Cardinality(mapped)]
      /\ UNCHANGED <<main, stop, deque, base, mapped, tries, cur, call, done, lost>>
  BY DEF FindIndex
<1>2. Cardinality(mapped) \in Deques
  BY <1>1, FindIndexInRange
<1>3. Types'
  BY <1>1, <1>2 DEF Types
<1>4. /\ w \notin Looked /\ Looked' = Looked \cup {w}
      /\ index'[w] = Cardinality(mapped)
      /\ \A v \in Looked : index'[v] = index[v]
  BY <1>1 DEF Types, Looked
<1>5. main # "new"
  BY <1>1 DEF IndexInv, Types
<1>6. \A v \in mapped : pc'[v] \notin {"none", "boot", "insert"}
  BY <1>1 DEF IndexInv, Types
<1>7. \E v \in Looked' : index'[v] = 0
  <2>1. CASE Looked # {}
    BY <1>4, <2>1 DEF IndexInv
  <2>2. CASE Looked = {}
    <3>1. mapped = {}
      BY <2>2 DEF IndexInv, Types, Looked
    <3>2. Cardinality(mapped) = 0
      BY <3>1, FS_EmptySet
    <3> QED
      BY <1>4, <3>2
  <2> QED
    BY <2>1, <2>2
<1> QED
  BY <1>1, <1>2, <1>3, <1>4, <1>5, <1>6, <1>7 DEF IndexInv

(* Start, the first look at the flag and the map, and the owner's steps.   *)
LEMMA StartKeeps ==
  ASSUME Types, IndexInv, Start
  PROVE  Types' /\ IndexInv'
<1>1. Types'
  BY DEF Types, Start
<1>2. /\ \A w \in Workers : pc[w] = "none" /\ pc'[w] = "boot"
      /\ main' # "new" /\ mapped' = mapped
  BY DEF Start, IndexInv, Types
<1>3. Looked' = {} /\ mapped = {}
  BY <1>2 DEF Looked, IndexInv, Types
<1> QED
  BY <1>1, <1>2, <1>3 DEF IndexInv

(* Nobody is turned away for an index out of range, and who is in the map  *)
(* went through here.                                                      *)
LEMMA InsertIndexKeeps ==
  ASSUME Types, IndexInv, NEW w \in Workers, InsertIndex(w)
  PROVE  Types' /\ IndexInv'
<1>1. /\ pc[w] = "insert" /\ mapped' \subseteq mapped \cup {w}
      /\ pc' = [pc EXCEPT ![w] = IF index[w] \in Deques THEN "loop" ELSE "exited"]
      /\ UNCHANGED <<main, stop, deque, base, index, tries, cur, call, done, lost>>
  BY DEF InsertIndex
<1>2. pc' = [pc EXCEPT ![w] = "loop"]
  <2>1. w \in Looked
    BY <1>1 DEF Looked
  <2> QED
    BY <1>1, <2>1 DEF IndexInv
<1>3. Types'
  <2>1. mapped' \subseteq Workers
    BY <1>1 DEF Types
  <2> QED
    BY <1>1, <1>2, <2>1 DEF Types
<1>4. Looked' = Looked /\ main # "new"
  BY <1>1, <1>2 DEF Types, Looked, IndexInv
<1>5. \A v \in mapped' : pc'[v] \notin {"none", "boot", "insert"}
  BY <1>1, <1>2 DEF IndexInv, Types
<1> QED
  BY <1>1, <1>3, <1>4, <1>5 DEF IndexInv

(* A step of a worker that is past the map keeps what concerns the map.    *)
LEMMA PastTheMap ==
  ASSUME Types, IndexInv, NEW w \in Workers,
         UNCHANGED <<main, mapped, index>>,
         pc[w] \in {"loop", "local", "steal", "wait", "run"},
         pc'[w] \in {"loop", "local", "steal", "wait", "run", "exited"},
         \A v \in Workers \ {w} : pc'[v] = pc[v]
  PROVE  IndexInv'
<1>1. Looked' = Looked /\ main # "new"
  BY DEF Looked, IndexInv
<1>2. \A v \in mapped' : pc'[v] \notin {"none", "boot", "insert"}
  BY DEF IndexInv, Types
<1> QED
  BY <1>1, <1>2 DEF IndexInv

(* The ends of a deque.                                                    *)
LEMMA Ends ==
  ASSUME NEW s \in Seq(Funcs), s # <<>>
  PROVE  /\ Len(s) \in Nat \ {0} /\ DOMAIN s = 1 .. Len(s)
         /\ Last(s) = s[Len(s)] /\ Last(s) \in Funcs
         /\ Front(s) \in Seq(Funcs) /\ DOMAIN Front(s) = 1 .. Len(s) - 1
         /\ \A i \in DOMAIN Front(s) : Front(s)[i] = s[i]
         /\ Head(s) = s[1] /\ Head(s) \in Funcs
         /\ Tail(s) \in Seq(Funcs) /\ DOMAIN Tail(s) = 1 .. Len(s) - 1
         /\ \A i \in DOMAIN Tail(s) : Tail(s)[i] = s[i + 1]
<1>1. Len(s) \in Nat \ {0} /\ DOMAIN s = 1 .. Len(s) /\ Len(s) - 1 \in Nat
  OBVIOUS
<1>2. Last(s) = s[Len(s)] /\ Last(s) \in Funcs
  BY <1>1 DEF Last
<1>3. /\ Front(s) \in Seq(Funcs) /\ DOMAIN Front(s) = 1 .. Len(s) - 1
      /\ \A i \in DOMAIN Front(s) : Front(s)[i] = s[i]
  <2>1. /\ SubSeq(s, 1, Len(s) - 1) \in Seq(Funcs)
        /\ Len(SubSeq(s, 1, Len(s) - 1)) = Len(s) - 1
        /\ \A i \in 1 .. Len(s) - 1 : SubSeq(s, 1, Len(s) - 1)[i] = s[i]
    BY <1>1
  <2> QED
    BY <1>1, <2>1 DEF Front
<1>4. Head(s) = s[1] /\ Head(s) \in Funcs
  BY <1>1
<1>5. /\ Tail(s) \in Seq(Funcs) /\ Len(Tail(s)) = Len(s) - 1
      /\ \A i \in 1 .. Len(s) - 1 : Tail(s)[i] = s[i + 1]
  BY <1>1
<1> QED
  BY <1>1, <1>2, <1>3, <1>4, <1>5

(* A worker's own deque and a victim's: what it takes is a task.           *)
LEMMA PopLocalKeeps ==
  ASSUME Types, IndexInv, NEW w \in Workers, PopLocal(w)
  PROVE  Types' /\ IndexInv'
<1>1. index[w] \in Deques
  BY DEF PopLocal, IndexInv, Looked
<1>2. PICK q \in Deques : q = index[w]
  BY <1>1
<1>3. deque[q] \in Seq(Funcs)
  BY DEF Types
<1>4. /\ pc[w] = "local" /\ tries' = [tries EXCEPT ![w] = 0]
      /\ UNCHANGED <<main, stop, base, mapped, index, call, done, lost>>
  BY DEF PopLocal
<1>5. tries' \in [Workers -> Deques]
  BY <1>4, Constants DEF Types
<1>6. CASE deque[q] = <<>>
  <2>1. /\ pc' = [pc EXCEPT ![w] = IF ThreadCount = 1 THEN "wait" ELSE "steal"]
        /\ UNCHANGED <<deque, cur>>
    BY <1>2, <1>6 DEF PopLocal
  <2>2. ThreadCount # 1 => 0 < ThreadCount - 1
    BY Constants
  <2>3. /\ pc' \in [Workers -> {"none", "boot", "insert", "loop", "local",
                                "steal", "wait", "run", "exited"}]
        /\ \A v \in Workers : pc'[v] = "steal" => tries'[v] < ThreadCount - 1
        /\ \A v \in Workers : pc'[v] = "run" => cur'[v] \in Funcs
    <3>1. \A v \in Workers \ {w} : pc'[v] = pc[v] /\ tries'[v] = tries[v]
      BY <1>4, <2>1 DEF Types
    <3>2. /\ pc'[w] = "steal" => tries'[w] < ThreadCount - 1
          /\ pc'[w] # "run"
      BY <1>4, <2>1, <2>2 DEF Types
    <3> QED
      BY <2>1, <3>1, <3>2 DEF Types
  <2>4. Types'
    BY <1>4, <1>5, <2>1, <2>3 DEF Types
  <2> QED
    BY <1>4, <2>1, <2>4, PastTheMap DEF Types
<1>7. CASE deque[q] # <<>>
  <2>1. /\ cur' = [cur EXCEPT ![w] = Last(deque[q])]
        /\ deque' = [deque EXCEPT ![q] = Front(deque[q])]
        /\ pc' = [pc EXCEPT ![w] = "run"]
    BY <1>2, <1>7 DEF PopLocal
  <2>2. Last(deque[q]) \in Funcs /\ Front(deque[q]) \in Seq(Funcs)
    BY <1>3, <1>7, Ends
  <2>3. /\ deque' \in [Deques -> Seq(Funcs)]
        /\ cur' \in [Workers -> Funcs \cup {None}]
        /\ \A v \in Workers : pc'[v] = "run" => cur'[v] \in Funcs
    BY <2>1, <2>2 DEF Types
  <2>4. \A v \in Workers : pc'[v] = "steal" => tries'[v] < ThreadCount - 1
    BY <1>4, <2>1 DEF Types
  <2>5. Types'
    BY <1>4, <1>5, <2>1, <2>3, <2>4 DEF Types
  <2> QED
    BY <1>4, <2>1, <2>5, PastTheMap DEF Types
<1> QED
  BY <1>6, <1>7

(* A thief takes a task from the front of a victim's deque, or counts one  *)
(* more try.                                                               *)
LEMMA StealKeeps ==
  ASSUME Types, IndexInv, NEW w \in Workers, NEW q \in Deques, Steal(w, q)
  PROVE  Types' /\ IndexInv'
<1>1. /\ pc[w] = "steal" /\ tries[w] < ThreadCount - 1
      /\ UNCHANGED <<main, stop, base, mapped, index, call, done, lost>>
      /\ deque[q] \in Seq(Funcs) /\ tries[w] \in Nat /\ ThreadCount \in Nat
  BY Constants DEF Steal, Types
<1>2. CASE deque[q] = <<>>
  <2>1. /\ tries' = [tries EXCEPT ![w] = tries[w] + 1]
        /\ pc' = [pc EXCEPT ![w] = IF tries[w] + 1 = ThreadCount - 1 THEN "wait"
                                                           ELSE pc[w]]
        /\ UNCHANGED <<deque, cur>>
    BY <1>2 DEF Steal
  <2>2. /\ tries[w] + 1 \in Deques
        /\ tries[w] + 1 = ThreadCount - 1 \/ tries[w] + 1 < ThreadCount - 1
    BY <1>1 DEF Deques
  <2>3. /\ tries' \in [Workers -> Deques]
        /\ pc'[w] \in {"wait", "steal"}
        /\ pc'[w] = "steal" => tries'[w] < ThreadCount - 1
        /\ \A v \in Workers \ {w} : pc'[v] = pc[v] /\ tries'[v] = tries[v]
    <3>1. tries' \in [Workers -> Deques]
      BY <2>1, <2>2 DEF Types
    <3>2. \A v \in Workers \ {w} : pc'[v] = pc[v] /\ tries'[v] = tries[v]
      BY <2>1 DEF Types
    <3>3. tries'[w] = tries[w] + 1
      BY <2>1 DEF Types
    <3>4. CASE tries[w] + 1 = ThreadCount - 1
      <4>1. pc' = [pc EXCEPT ![w] = "wait"]
        BY <2>1, <3>4
      <4> QED
        BY <3>1, <3>2, <4>1 DEF Types
    <3>5. CASE tries[w] + 1 < ThreadCount - 1
      <4>1. tries[w] + 1 # ThreadCount - 1
        BY <1>1, <3>5
      <4> QED
        BY <1>1, <2>1, <3>1, <3>2, <3>3, <3>5, <4>1 DEF Types
    <3> QED
      BY <2>2, <3>4, <3>5
  <2>4. pc' \in [Workers -> {"none", "boot", "insert", "loop", "local",
                             "steal", "wait", "run", "exited"}]
    BY <2>1 DEF Types
  <2>5. /\ \A v \in Workers : pc'[v] = "steal" => tries'[v] < ThreadCount - 1
        /\ \A v \in Workers : pc'[v] = "run" => cur'[v] \in Funcs
    BY <2>1, <2>3 DEF Types
  <2>6. Types'
    BY <1>1, <2>1, <2>3, <2>4, <2>5 DEF Types
  <2> QED
    BY <1>1, <2>1, <2>3, <2>6, PastTheMap
<1>3. CASE deque[q] # <<>>
  <2>1. /\ cur' = [cur EXCEPT ![w] = Head(deque[q])]
        /\ deque' = [deque EXCEPT ![q] = Tail(deque[q])]
        /\ pc' = [pc EXCEPT ![w] = "run"] /\ tries' = tries
    BY <1>3 DEF Steal
  <2>2. Head(deque[q]) \in Funcs /\ Tail(deque[q]) \in Seq(Funcs)
    BY <1>1, <1>3, Ends
  <2>3. /\ deque' \in [Deques -> Seq(Funcs)]
        /\ cur' \in [Workers -> Funcs \cup {None}]
        /\ \A v \in Workers : pc'[v] = "run" => cur'[v] \in Funcs
    BY <2>1, <2>2 DEF Types
  <2>4. \A v \in Workers : pc'[v] = "steal" => tries'[v] < ThreadCount - 1
    BY <2>1 DEF Types
  <2>5. Types'
    BY <1>1, <2>1, <2>3, <2>4 DEF Types
  <2> QED
    BY <1>1, <2>1, <2>5, PastTheMap DEF Types
<1> QED
  BY <1>2, <1>3

(* The other steps of a worker's loop.                                     *)
LEMMA LoopKeeps ==
  ASSUME Types, IndexInv, NEW w \in Workers,
         Leave(w) \/ Stay(w) \/ WaitEnds(w) \/ Finish(w)
  PROVE  Types' /\ IndexInv'
<1>1. /\ UNCHANGED <<main, stop, deque, base, mapped, index, tries, call, lost>>
      /\ pc[w] \in {"loop", "wait", "run"}
      /\ \/ pc' = [pc EXCEPT ![w] = "exited"]
         \/ pc' = [pc EXCEPT ![w] = "local"]
         \/ pc' = [pc EXCEPT ![w] = "loop"]
  BY DEF Leave, Stay, WaitEnds, Finish
<1>2. /\ pc' \in [Workers -> {"none", "boot", "insert", "loop", "local",
                              "steal", "wait", "run", "exited"}]
      /\ pc'[w] \in {"exited", "local", "loop"}
      /\ \A v \in Workers \ {w} : pc'[v] = pc[v]
  BY <1>1 DEF Types
<1>3. /\ cur' \in [Workers -> Funcs \cup {None}]
      /\ done' \subseteq Funcs
      /\ \A v \in Workers \ {w} : cur'[v] = cur[v]
  BY DEF Leave, Stay, WaitEnds, Finish, Types
<1>4. Types'
  <2>1. \A v \in Workers : /\ pc'[v] = "steal" => tries'[v] < ThreadCount - 1
                           /\ pc'[v] = "run" => cur'[v] \in Funcs
    BY <1>1, <1>2, <1>3 DEF Types
  <2> QED
    BY <1>1, <1>2, <1>3, <2>1 DEF Types
<1> QED
  BY <1>1, <1>2, <1>4, PastTheMap

(* The push of a function has a deque to go to.                            *)
LEMMA PushHasDeque ==
  ASSUME Types, NEW th \in Threads, PushLocal(th)
  PROVE  call[th].task \in Funcs /\ call[th].q \in Deques
<1>1. call[th] \in [task : Tasks, q : Deques] \cup {Idle}
  BY DEF Types
<1> QED
  BY <1>1, Constants DEF PushLocal, Idle

(* Submission does not touch the workers.                                  *)
LEMMA SubmitKeeps ==
  ASSUME Types, IndexInv, NEW th \in Threads,
         \/ PushLocal(th) \/ PushOnBase(th)
         \/ \E t \in Tasks : ScheduleOnBase(th, t)
         \/ \E t \in Tasks, q \in Deques :
              Schedule(th, t, q) \/ ScheduleWithAffinity(th, t, q)
  PROVE  Types' /\ IndexInv'
<1>1. /\ UNCHANGED <<main, stop, mapped, index, pc, tries, cur, done>>
  BY DEF PushLocal, PushOnBase, ScheduleOnBase, Schedule, ScheduleWithAffinity, loopVars
<1>2. IndexInv'
  BY <1>1 DEF IndexInv, Looked
<1>3. CASE PushLocal(th)
  <2>1. call[th].task \in Funcs /\ call[th].q \in Deques
    BY <1>3, PushHasDeque
  <2>2. PICK q \in Deques : q = call[th].q
    BY <2>1
  <2>3. Append(deque[q], call[th].task) \in Seq(Funcs)
    BY <2>1 DEF Types
  <2>4. deque' = [deque EXCEPT ![q] = Append(deque[q], call[th].task)]
    BY <1>3, <2>2 DEF PushLocal
  <2>5. deque' \in [Deques -> Seq(Funcs)]
    BY <2>3, <2>4 DEF Types
  <2>6. call' \in [Threads -> [task : Tasks, q : Deques] \cup {Idle}]
    BY <1>3 DEF PushLocal, Types
  <2> QED
    BY <1>1, <1>2, <1>3, <2>5, <2>6 DEF PushLocal, Types
<1>4. CASE PushOnBase(th)
  <2>1. call' \in [Threads -> [task : Tasks, q : Deques] \cup {Idle}]
    BY <1>4 DEF PushOnBase, Types
  <2> QED
    BY <1>1, <1>2, <1>4, <2>1 DEF PushOnBase, Types
<1>5. ASSUME NEW t \in Tasks, ScheduleOnBase(th, t)
      PROVE  Types'
  <2>1. deque' = deque /\ base' = base /\ lost' \subseteq Conts
    BY <1>5 DEF ScheduleOnBase, Types
  <2>2. [Idle EXCEPT !.task = t] = [task |-> t, q |-> 0]
    BY DEF Idle
  <2>3. call' \in [Threads -> [task : Tasks, q : Deques] \cup {Idle}]
    BY <1>5, <2>2, Constants DEF ScheduleOnBase, Types
  <2> QED
    BY <1>1, <2>1, <2>3 DEF Types
<1>6. ASSUME NEW t \in Tasks, NEW q \in Deques,
             Schedule(th, t, q) \/ ScheduleWithAffinity(th, t, q)
      PROVE  Types'
  <2>1. /\ t \in Tasks /\ call' = [call EXCEPT ![th] = [task |-> t, q |-> q]]
        /\ UNCHANGED <<deque, base, lost>>
    BY <1>6 DEF Schedule, ScheduleWithAffinity
  <2>2. call' \in [Threads -> [task : Tasks, q : Deques] \cup {Idle}]
    BY <2>1 DEF Types
  <2> QED
    BY <1>1, <2>1, <2>2 DEF Types
<1> QED
  BY <1>2, <1>3, <1>4, <1>5, <1>6

(* The owner's steps touch neither the workers nor the map.                *)
LEMMA StopKeeps ==
  ASSUME Types, IndexInv, BeginStop \/ StopStep
  PROVE  Types' /\ IndexInv'
<1>1. /\ UNCHANGED <<deque, mapped, index, pc, tries, cur, call, done>>
      /\ main' \in {"wait", "flag", "join", "clear", "stopped"}
      /\ stop' \in BOOLEAN /\ base' \subseteq Conts /\ lost' \subseteq Conts
  BY DEF BeginStop, StopStep, WaitOver, SetFlag, Join, ClearBase, loopVars, Types
<1>2. Types'
  BY <1>1 DEF Types
<1> QED
  BY <1>1, <1>2 DEF IndexInv, Looked

(* Types and indices are preserved by every step.                          *)
LEMMA NextIndexInv == Types /\ IndexInv /\ [Next]_vars => Types' /\ IndexInv'
<1> SUFFICES ASSUME Types, IndexInv, [Next]_vars PROVE Types' /\ IndexInv'
  OBVIOUS
<1>1. CASE Start \/ BeginStop \/ StopStep
  BY <1>1, StartKeeps, StopKeeps
<1>2. CASE \E w \in Workers : LoopStep(w) \/ Finish(w)
  BY <1>2, FindIndexKeeps, InsertIndexKeeps, PopLocalKeeps, LoopKeeps DEF LoopStep
<1>3. CASE \E w \in Workers, v \in Deques : Steal(w, v)
  BY <1>3, StealKeeps
<1>4. CASE \/ \E th \in Threads : PushLocal(th) \/ PushOnBase(th)
           \/ \E th \in Threads, t \in Tasks : ScheduleOnBase(th, t)
           \/ \E th \in Threads, t \in Tasks, q \in Deques :
                Schedule(th, t, q) \/ ScheduleWithAffinity(th, t, q)
  BY <1>4, SubmitKeeps
<1>5. CASE UNCHANGED vars
  <2>1. Types'
    BY <1>5 DEF Types, vars
  <2> QED
    BY <1>5, <2>1 DEF IndexInv, Looked, vars
<1> QED
  BY <1>1, <1>2, <1>3, <1>4, <1>5 DEF Next

-----------------------------------------------------------------------------
(* One place for a task                                                    *)

(* A task is at one place of one deque, ...                                *)
QueuedOnce ==
  \A p, q \in Deques : \A i \in DOMAIN deque[p], j \in DOMAIN deque[q] :
    deque[p][i] = deque[q][j] => p = q /\ i = j

(* ... inside one call, ...                                                *)
CallOnce ==
  \A u, v \in Threads :
    call[u].task = call[v].task /\ u # v => call[u].task = None

(* ... executed by one worker, ...                                         *)
CurOnce == \A v, w \in Workers : cur[v] = cur[w] /\ v # w => cur[v] = None

(* ... and in one of these only, or done.                                  *)
Apart ==
  /\ InCall \cap (Queued \cup base \cup Running \cup done \cup lost) = {}
  /\ Queued \cap (Running \cup done) = {} /\ Running \cap done = {}

TakeInv == QueuedOnce /\ CallOnce /\ CurOnce /\ Apart

(* A task is queued if it is at some place of some deque.                  *)
LEMMA QueuedMeans ==
  \A t : t \in Queued <=> \E q \in Deques : \E i \in DOMAIN deque[q] : deque[q][i] = t
BY DEF Queued, ToSet

(* A push adds its task to what is queued, ...                             *)
LEMMA QueuedAfterPush ==
  ASSUME Types, QueuedOnce, NEW q \in Deques, NEW t \in Funcs, t \notin Queued,
         deque' = [deque EXCEPT ![q] = Append(deque[q], t)]
  PROVE  Queued' = Queued \cup {t} /\ QueuedOnce'
<1> DEFINE s == deque[q]
<1>1. /\ s \in Seq(Funcs)
      /\ deque'[q] = Append(s, t)
      /\ \A p \in Deques \ {q} : deque'[p] = deque[p]
  BY DEF Types
<1>2. /\ DOMAIN deque'[q] = DOMAIN s \cup {Len(s) + 1}
      /\ deque'[q][Len(s) + 1] = t
      /\ \A i \in DOMAIN s : deque'[q][i] = s[i]
  BY <1>1
<1>3. \A p \in Deques : \A i \in DOMAIN deque[p] : deque[p][i] # t
  BY QueuedMeans
<1>4. \A p \in Deques : \A i \in DOMAIN deque'[p] :
        \/ p = q /\ i = Len(s) + 1 /\ deque'[p][i] = t
        \/ i \in DOMAIN deque[p] /\ deque'[p][i] = deque[p][i]
  BY <1>1, <1>2
<1>5. Queued' = Queued \cup {t}
  <2>1. ASSUME NEW x \in Queued' PROVE x \in Queued \cup {t}
    <3>1. PICK p \in Deques : \E i \in DOMAIN deque'[p] : deque'[p][i] = x
      BY DEF Queued, ToSet
    <3> QED
      BY <1>4, <3>1, QueuedMeans
  <2>2. ASSUME NEW x \in Queued \cup {t} PROVE x \in Queued'
    <3>1. \E p \in Deques : \E i \in DOMAIN deque'[p] : deque'[p][i] = x
      BY <1>1, <1>2, QueuedMeans
    <3> QED
      BY <3>1 DEF Queued, ToSet
  <2> QED
    BY <2>1, <2>2
<1>6. QueuedOnce'
  <2> HIDE DEF s
  <2> QED
    BY <1>3, <1>4 DEF QueuedOnce
<1> QED
  BY <1>5, <1>6

(* ... and whoever takes from an end takes its task out of it.             *)
LEMMA QueuedAfterTake ==
  ASSUME Types, QueuedOnce, NEW q \in Deques, deque[q] # <<>>, NEW t,
         \/ t = Last(deque[q]) /\ deque' = [deque EXCEPT ![q] = Front(deque[q])]
         \/ t = Head(deque[q]) /\ deque' = [deque EXCEPT ![q] = Tail(deque[q])]
  PROVE  /\ t \in Queued /\ t \in Funcs
         /\ Queued' = Queued \ {t} /\ QueuedOnce'
<1>1. deque[q] \in Seq(Funcs)
  BY DEF Types
<1>2. \E d \in {0, 1} : \E i0 \in DOMAIN deque[q] :
        /\ deque[q][i0] = t
        /\ \A k \in DOMAIN deque'[q] :
             /\ k \in Nat /\ k + d \in DOMAIN deque[q] /\ k + d # i0
             /\ deque'[q][k] = deque[q][k + d]
        /\ \A i \in DOMAIN deque[q] \ {i0} : \E k \in DOMAIN deque'[q] : i = k + d
  <2>1. CASE t = Last(deque[q]) /\ deque' = [deque EXCEPT ![q] = Front(deque[q])]
    <3>1. deque'[q] = Front(deque[q])
      BY <2>1 DEF Types
    <3>2. \A k \in DOMAIN deque'[q] :
             /\ k \in Nat /\ k + 0 \in DOMAIN deque[q] /\ k + 0 # Len(deque[q])
             /\ deque'[q][k] = deque[q][k + 0]
      BY <1>1, <3>1, Ends
    <3>3. Len(deque[q]) \in DOMAIN deque[q] /\ deque[q][Len(deque[q])] = t
      BY <1>1, <2>1, Ends
    <3>4. ASSUME NEW i \in DOMAIN deque[q] \ {Len(deque[q])}
          PROVE  \E k \in DOMAIN deque'[q] : i = k + 0
      <4>1. i \in DOMAIN deque'[q] /\ i = i + 0
        BY <1>1, <3>1, Ends
      <4> QED
        BY <4>1
    <3> QED
      BY <3>2, <3>3, <3>4
  <2>2. CASE t = Head(deque[q]) /\ deque' = [deque EXCEPT ![q] = Tail(deque[q])]
    <3>1. deque'[q] = Tail(deque[q])
      BY <2>2 DEF Types
    <3>2. \A k \in DOMAIN deque'[q] :
             /\ k \in Nat /\ k + 1 \in DOMAIN deque[q] /\ k + 1 # 1
             /\ deque'[q][k] = deque[q][k + 1]
      BY <1>1, <3>1, Ends
    <3>3. 1 \in DOMAIN deque[q] /\ deque[q][1] = t
      BY <1>1, <2>2, Ends
    <3>4. ASSUME NEW i \in DOMAIN deque[q] \ {1}
          PROVE  \E k \in DOMAIN deque'[q] : i = k + 1
      <4>1. i - 1 \in DOMAIN deque'[q] /\ i = (i - 1) + 1
        BY <1>1, <3>1, Ends
      <4> QED
        BY <4>1
    <3> QED
      BY <3>2, <3>3, <3>4
  <2> QED
    BY <2>1, <2>2
<1>3. PICK d \in {0, 1}, i0 \in DOMAIN deque[q] :
        /\ deque[q][i0] = t
        /\ \A k \in DOMAIN deque'[q] :
             /\ k \in Nat /\ k + d \in DOMAIN deque[q] /\ k + d # i0
             /\ deque'[q][k] = deque[q][k + d]
        /\ \A i \in DOMAIN deque[q] \ {i0} : \E k \in DOMAIN deque'[q] : i = k + d
  BY <1>2
<1>4. \A p \in Deques \ {q} : deque'[p] = deque[p]
  BY DEF Types
<1>5. \A p \in Deques : \A k \in DOMAIN deque'[p] :
        \E i \in DOMAIN deque[p] :
          deque'[p][k] = deque[p][i] /\ ~(p = q /\ i = i0)
  BY <1>3, <1>4
<1>6. t \in Queued /\ t \in Funcs
  BY <1>1, <1>3, QueuedMeans
<1>7. ASSUME NEW x \in Queued' PROVE x \in Queued /\ x # t
  <2>1. PICK p \in Deques : \E k \in DOMAIN deque'[p] : deque'[p][k] = x
    BY <1>7 DEF Queued, ToSet
  <2>2. PICK i \in DOMAIN deque[p] : x = deque[p][i] /\ ~(p = q /\ i = i0)
    BY <1>5, <2>1
  <2>3. x # t
    BY <1>3, <2>2 DEF QueuedOnce
  <2> QED
    BY <2>2, <2>3, QueuedMeans
<1>8. ASSUME NEW x \in Queued, x # t PROVE x \in Queued'
  <2>1. PICK p \in Deques : \E i \in DOMAIN deque[p] : deque[p][i] = x
    BY QueuedMeans
  <2>2. \E k \in DOMAIN deque'[p] : deque'[p][k] = x
    <3>1. CASE p = q
      <4>1. PICK i \in DOMAIN deque[q] \ {i0} : deque[q][i] = x
        BY <1>3, <1>8, <2>1, <3>1
      <4>2. PICK k \in DOMAIN deque'[q] : i = k + d
        BY <1>3, <4>1
      <4> QED
        BY <1>3, <3>1, <4>1, <4>2
    <3>2. CASE p # q
      BY <1>4, <2>1, <3>2
    <3> QED
      BY <3>1, <3>2
  <2> QED
    BY <2>2 DEF Queued, ToSet
<1>9. QueuedOnce'
  <2> SUFFICES ASSUME NEW p1 \in Deques, NEW p2 \in Deques,
                      NEW i \in DOMAIN deque'[p1], NEW j \in DOMAIN deque'[p2],
                      deque'[p1][i] = deque'[p2][j]
               PROVE  p1 = p2 /\ i = j
    BY DEF QueuedOnce
  <2>1. p1 = p2
    BY <1>5 DEF QueuedOnce
  <2>2. CASE p1 = q
    <3>1. i + d = j + d /\ i \in Nat /\ j \in Nat
      BY <1>3, <2>1, <2>2 DEF QueuedOnce
    <3> QED
      BY <2>1, <3>1
  <2>3. CASE p1 # q
    BY <1>4, <2>1, <2>3 DEF QueuedOnce
  <2> QED
    BY <2>1, <2>2, <2>3
<1> QED
  BY <1>6, <1>7, <1>8, <1>9

(* The worker that takes a queued task is the only one to run it.          *)
LEMMA TakeKeeps ==
  ASSUME Types, TakeInv, NEW w \in Workers, NEW t \in Funcs,
         t \in Queued \ Queued', Queued' \subseteq Queued, QueuedOnce',
         cur' = [cur EXCEPT ![w] = t], UNCHANGED <<base, call, done, lost>>
  PROVE  TakeInv'
<1>1. /\ cur'[w] = t /\ \A v \in Workers \ {w} : cur'[v] = cur[v]
      /\ t # None
  BY Constants DEF Types
<1>2. t \notin Running \cup done \cup InCall
  BY DEF TakeInv, Apart
<1>3. \A v \in Workers : cur[v] # t
  BY <1>1, <1>2 DEF Running
<1>4. CurOnce'
  BY <1>1, <1>3 DEF TakeInv, CurOnce
<1>5. Running' \subseteq Running \cup {t}
  BY <1>1 DEF Running
<1>6. InCall' = InCall /\ CallOnce'
  BY DEF InCall, TakeInv, CallOnce
<1>7. Apart'
  BY <1>2, <1>5, <1>6 DEF TakeInv, Apart
<1> QED
  BY <1>4, <1>6, <1>7 DEF TakeInv

(* TakeInv is inductive, given the types.                                  *)
LEMMA WorkerTakeInv ==
  ASSUME Types, IndexInv, TakeInv, NEW w \in Workers,
         LoopStep(w) \/ Finish(w) \/ \E v \in Deques : Steal(w, v)
  PROVE  TakeInv'
<1>1. ASSUME UNCHANGED <<deque, base, cur, call, done, lost>> PROVE TakeInv'
  BY <1>1 DEF TakeInv, QueuedOnce, CallOnce, CurOnce, Apart, InCall, Queued, Running
<1>2. CASE FindIndex(w) \/ InsertIndex(w) \/ Leave(w) \/ Stay(w) \/ WaitEnds(w)
  BY <1>1, <1>2 DEF FindIndex, InsertIndex, Leave, Stay, WaitEnds
<1>3. CASE PopLocal(w)
  <2>1. PICK q \in Deques : q = index[w]
    BY <1>3 DEF PopLocal, IndexInv, Looked
  <2>2. CASE deque[q] = <<>>
    BY <1>1, <1>3, <2>1, <2>2 DEF PopLocal
  <2>3. CASE deque[q] # <<>>
    <3>1. /\ cur' = [cur EXCEPT ![w] = Last(deque[q])]
          /\ deque' = [deque EXCEPT ![q] = Front(deque[q])]
          /\ UNCHANGED <<base, call, done, lost>>
      BY <1>3, <2>1, <2>3 DEF PopLocal
    <3>2. /\ Last(deque[q]) \in Queued \ Queued' /\ Last(deque[q]) \in Funcs
          /\ Queued' = Queued \ {Last(deque[q])} /\ QueuedOnce'
      BY <2>3, <3>1, QueuedAfterTake DEF TakeInv
    <3> QED
      BY <3>1, <3>2, TakeKeeps
  <2> QED
    BY <2>2, <2>3
<1>4. ASSUME NEW q \in Deques, Steal(w, q)
      PROVE  TakeInv'
  <2>1. CASE deque[q] = <<>>
    BY <1>1, <1>4, <2>1 DEF Steal
  <2>2. CASE deque[q] # <<>>
    <3>1. /\ cur' = [cur EXCEPT ![w] = Head(deque[q])]
          /\ deque' = [deque EXCEPT ![q] = Tail(deque[q])]
          /\ UNCHANGED <<base, call, done, lost>>
      BY <1>4, <2>2 DEF Steal
    <3>2. /\ Head(deque[q]) \in Queued \ Queued' /\ Head(deque[q]) \in Funcs
          /\ Queued' = Queued \ {Head(deque[q])} /\ QueuedOnce'
      BY <2>2, <3>1, QueuedAfterTake DEF TakeInv
    <3> QED
      BY <3>1, <3>2, TakeKeeps
  <2> QED
    BY <2>1, <2>2
<1>5. CASE Finish(w)
  <2>1. /\ cur' = [cur EXCEPT ![w] = None] /\ done' = done \cup {cur[w]}
        /\ UNCHANGED <<deque, base, call, lost>> /\ cur[w] \in Funcs /\ cur[w] # None
    BY <1>5, Constants DEF Finish, Types
  <2>2. cur[w] \in Running
    BY <2>1 DEF Running
  <2>3. /\ cur'[w] = None /\ \A v \in Workers \ {w} : cur'[v] = cur[v]
    BY <2>1 DEF Types
  <2>4. Running' \subseteq Running \ {cur[w]}
    BY <2>1, <2>3 DEF Running, TakeInv, CurOnce
  <2>5. CurOnce'
    BY <2>3 DEF TakeInv, CurOnce
  <2>6. Queued' = Queued /\ InCall' = InCall /\ CallOnce' /\ QueuedOnce'
    BY <2>1 DEF Queued, InCall, TakeInv, CallOnce, QueuedOnce
  <2>7. Apart'
    BY <2>1, <2>2, <2>4, <2>6 DEF TakeInv, Apart
  <2> QED
    BY <2>5, <2>6, <2>7 DEF TakeInv
<1> QED
  BY <1>2, <1>3, <1>4, <1>5 DEF LoopStep

(* A submission takes a task from outside into a call and from there into  *)
(* a deque.                                                                *)
LEMMA SubmitTakeInv ==
  ASSUME Types, TakeInv, NEW th \in Threads,
         \/ PushLocal(th) \/ PushOnBase(th)
         \/ \E t \in Tasks : ScheduleOnBase(th, t)
         \/ \E t \in Tasks, q \in Deques :
              Schedule(th, t, q) \/ ScheduleWithAffinity(th, t, q)
  PROVE  TakeInv'
<1>1. /\ UNCHANGED <<cur, done>>
  BY DEF PushLocal, PushOnBase, ScheduleOnBase, Schedule, ScheduleWithAffinity, loopVars
<1>2. Running' = Running /\ CurOnce'
  BY <1>1 DEF Running, TakeInv, CurOnce
<1>3. CASE PushLocal(th)
  <2>1. call[th].task \in Funcs /\ call[th].q \in Deques
    BY <1>3, PushHasDeque
  <2>2. PICK q \in Deques, t \in Funcs : q = call[th].q /\ t = call[th].task
    BY <2>1
  <2>3. /\ deque' = [deque EXCEPT ![q] = Append(deque[q], t)]
        /\ call' = [call EXCEPT ![th] = Idle] /\ UNCHANGED <<base, lost>>
    BY <1>3, <2>2 DEF PushLocal
  <2>4. t \in InCall /\ t # None
    BY <2>2, Constants DEF InCall
  <2>5. Queued' = Queued \cup {t} /\ QueuedOnce'
    BY <2>3, <2>4, QueuedAfterPush DEF TakeInv, Apart
  <2>6. call'[th].task = None /\ \A u \in Threads \ {th} : call'[u] = call[u]
    BY <2>3, Constants DEF Types
  <2>7. InCall' \subseteq InCall \ {t} /\ CallOnce'
    BY <2>2, <2>4, <2>6 DEF InCall, TakeInv, CallOnce
  <2>8. Apart'
    BY <1>1, <1>2, <2>3, <2>4, <2>5, <2>7 DEF TakeInv, Apart
  <2> QED
    BY <1>2, <2>5, <2>7, <2>8 DEF TakeInv
<1>4. CASE PushOnBase(th)
  <2>1. PICK t \in Conts : t = call[th].task
    BY <1>4 DEF PushOnBase
  <2>2. /\ call' = [call EXCEPT ![th] = Idle] /\ deque' = deque
        /\ base' \cup lost' \subseteq base \cup lost \cup {t}
    BY <1>4, <2>1 DEF PushOnBase, loopVars
  <2>3. t \in InCall /\ t # None
    BY <2>1, Constants DEF InCall
  <2>4. call'[th].task = None /\ \A u \in Threads \ {th} : call'[u] = call[u]
    BY <2>2, Constants DEF Types
  <2>5. InCall' \subseteq InCall \ {t} /\ CallOnce'
    BY <2>1, <2>3, <2>4 DEF InCall, TakeInv, CallOnce
  <2>6. Queued' = Queued /\ QueuedOnce'
    BY <2>2 DEF Queued, TakeInv, QueuedOnce
  <2>7. Apart'
    BY <1>1, <1>2, <2>2, <2>5, <2>6 DEF TakeInv, Apart
  <2> QED
    BY <1>2, <2>5, <2>6, <2>7 DEF TakeInv
<1>5. ASSUME NEW t \in Outside, NEW c, c.task = t,
             call' = [call EXCEPT ![th] = c], UNCHANGED <<deque, base, lost>>
      PROVE  TakeInv'
  <2>1. t \notin Queued \cup base \cup Running \cup InCall \cup done \cup lost /\ t # None
    BY Constants DEF Outside
  <2>2. call'[th].task = t /\ \A u \in Threads \ {th} : call'[u] = call[u]
    BY <1>5 DEF Types
  <2>3. \A u \in Threads : call[u].task # t
    BY <2>1 DEF InCall
  <2>4. InCall' \subseteq InCall \cup {t} /\ CallOnce'
    BY <2>2, <2>3 DEF InCall, TakeInv, CallOnce
  <2>5. Queued' = Queued /\ QueuedOnce'
    BY <1>5 DEF Queued, TakeInv, QueuedOnce
  <2>6. Apart'
    BY <1>1, <1>2, <1>5, <2>1, <2>4, <2>5 DEF TakeInv, Apart
  <2> QED
    BY <1>2, <2>4, <2>5, <2>6 DEF TakeInv
<1>6. ASSUME NEW t \in Tasks, ScheduleOnBase(th, t)
      PROVE  TakeInv'
  <2>1. CASE stop
    <3>1. /\ t \in Outside /\ lost' = lost \cup {t}
          /\ UNCHANGED <<deque, base, call>>
      BY <1>6, <2>1 DEF ScheduleOnBase
    <3>2. t \notin InCall
      BY <3>1 DEF Outside
    <3>3. InCall' = InCall /\ Queued' = Queued /\ CallOnce' /\ QueuedOnce'
      BY <3>1 DEF InCall, Queued, TakeInv, CallOnce, QueuedOnce
    <3> QED
      BY <1>1, <1>2, <3>1, <3>2, <3>3 DEF TakeInv, Apart
  <2>2. CASE ~stop
    <3>1. /\ t \in Outside /\ call' = [call EXCEPT ![th] = [Idle EXCEPT !.task = t]]
          /\ UNCHANGED <<deque, base, lost>>
      BY <1>6, <2>2 DEF ScheduleOnBase
    <3>2. [Idle EXCEPT !.task = t].task = t
      BY DEF Idle
    <3> QED
      BY <1>5, <3>1, <3>2
  <2> QED
    BY <2>1, <2>2
<1>7. ASSUME NEW t \in Tasks, NEW q \in Deques,
             Schedule(th, t, q) \/ ScheduleWithAffinity(th, t, q)
      PROVE  TakeInv'
  <2>1. /\ t \in Outside /\ call' = [call EXCEPT ![th] = [task |-> t, q |-> q]]
        /\ UNCHANGED <<deque, base, lost>>
    BY <1>7 DEF Schedule, ScheduleWithAffinity
  <2> QED
    BY <1>5, <2>1
<1> QED
  BY <1>3, <1>4, <1>6, <1>7

(* One place for a task is preserved by every step.                        *)
LEMMA NextTakeInv == Types /\ IndexInv /\ TakeInv /\ [Next]_vars => TakeInv'
<1> SUFFICES ASSUME Types, IndexInv, TakeInv, [Next]_vars PROVE TakeInv'
  OBVIOUS
<1>1. CASE Start \/ BeginStop \/ StopStep \/ UNCHANGED vars
  <2>1. /\ UNCHANGED <<deque, cur, call, done>>
        /\ base' \cup lost' = base \cup lost
    BY <1>1 DEF Start, BeginStop, StopStep, WaitOver, SetFlag, Join, ClearBase,
                loopVars, vars
  <2> QED
    BY <2>1 DEF TakeInv, QueuedOnce, CallOnce, CurOnce, Apart, InCall, Queued, Running
<1>2. CASE \/ \E w \in Workers : LoopStep(w) \/ Finish(w)
           \/ \E w \in Workers, v \in Deques : Steal(w, v)
  BY <1>2, WorkerTakeInv
<1>3. CASE \/ \E th \in Threads : PushLocal(th) \/ PushOnBase(th)
           \/ \E th \in Threads, t \in Tasks : ScheduleOnBase(th, t)
           \/ \E th \in Threads, t \in Tasks, q \in Deques :
                Schedule(th, t, q) \/ ScheduleWithAffinity(th, t, q)
  BY <1>3, SubmitTakeInv
<1> QED
  BY <1>1, <1>2, <1>3 DEF Next

-----------------------------------------------------------------------------
(* The theorems                                                            *)

(* The inductive invariant.                                                *)
Inv == Types /\ IndexInv /\ TakeInv

(* It holds initially.                                                     *)
LEMMA InitInv == Init => Inv
<1> SUFFICES ASSUME Init PROVE TakeInv
  BY InitIndexInv DEF Inv
<1>1. Queued = {} /\ InCall = {} /\ Running = {}
  BY Constants DEF Init, Queued, InCall, Running, ToSet
<1> QED
  BY <1>1, Constants DEF Init, TakeInv, QueuedOnce, CallOnce, CurOnce, Apart

(* The inductive invariant of WorkStealing.                                *)
THEOREM Invariance == Spec => []Inv
<1>1. Inv /\ [Next]_vars => Inv'
  BY NextIndexInv, NextTakeInv DEF Inv
<1> QED
  BY InitInv, <1>1, PTL DEF Spec

(* The variables have their types: every deque a worker pops from, a thief *)
(* tries or a thread pushes to is there, and only tasks are run.           *)
THEOREM Typing == Spec => []TypeOK
<1>1. Inv => TypeOK
  <2> SUFFICES ASSUME Types PROVE TypeOK
    BY DEF Inv
  <2>1. /\ cur \in [Workers -> Tasks \cup {None}]
        /\ call \in [Threads -> [task : Tasks \cup {None}, q : Deques]]
        /\ done \subseteq Tasks
    BY Constants DEF Types, Tasks, Idle
  <2> QED
    BY <2>1 DEF Types, TypeOK
<1> QED
  BY <1>1, Invariance, PTL

(* The owner at the back of a deque and thieves at its front never run the *)
(* same task, whoever shares an index with whom.                           *)
THEOREM SingleTaker == Spec => []TakenOnce
<1>1. Inv => TakenOnce
  BY DEF Inv, TakeInv, TakenOnce, CurOnce, QueuedOnce, Apart
<1> QED
  BY <1>1, Invariance, PTL

(* No worker leaves for want of an index, and the first deque has an owner *)
(* once all have looked, although the map is read and written in a race.   *)
THEOREM Admission == Spec => []NobodyTurnedAway
<1>1. Inv => NobodyTurnedAway
  BY Constants DEF Inv, IndexInv, NobodyTurnedAway, Looked
<1> QED
  BY <1>1, Invariance, PTL

-----------------------------------------------------------------------------
(* What this class still promises of a TaskPool                            *)

(* The flag is up while the workers are joined and the base queues are     *)
(* cleared; a worker has a task only while it runs it.                     *)
ServeInv ==
  /\ main \in {"join", "clear"} => stop
  /\ \A w \in Workers : cur[w] # None => pc[w] = "run"

(* A step of a worker keeps it: one that takes a task runs it.             *)
LEMMA WorkerServeInv ==
  ASSUME Types, ServeInv, NEW w \in Workers,
         LoopStep(w) \/ Finish(w) \/ \E v \in Deques : Steal(w, v)
  PROVE  ServeInv'
<1>1. UNCHANGED <<main, stop>>
  BY DEF LoopStep, FindIndex, InsertIndex, Leave, Stay, PopLocal, WaitEnds, Finish, Steal
<1>2. CASE FindIndex(w) \/ InsertIndex(w) \/ Leave(w) \/ Stay(w) \/ WaitEnds(w)
  <2>1. /\ cur' = cur /\ pc[w] # "run"
        /\ \A v \in Workers \ {w} : pc'[v] = pc[v]
    BY <1>2 DEF FindIndex, InsertIndex, Leave, Stay, WaitEnds, Types
  <2> QED
    BY <1>1, <2>1 DEF ServeInv
<1>3. CASE PopLocal(w) \/ \E v \in Deques : Steal(w, v)
  <2>1. \/ pc'[w] = "run" /\ \A v \in Workers \ {w} : cur'[v] = cur[v]
        \/ pc[w] # "run" /\ cur' = cur
    BY <1>3 DEF PopLocal, Steal, Types
  <2>2. \A v \in Workers \ {w} : pc'[v] = pc[v]
    BY <1>3 DEF PopLocal, Steal, Types
  <2> QED
    BY <1>1, <2>1, <2>2 DEF ServeInv
<1>4. CASE Finish(w)
  <2>1. cur'[w] = None /\ \A v \in Workers \ {w} : cur'[v] = cur[v] /\ pc'[v] = pc[v]
    BY <1>4 DEF Finish, Types
  <2> QED
    BY <1>1, <2>1 DEF ServeInv
<1> QED
  BY <1>2, <1>3, <1>4 DEF LoopStep

(* So does every other.                                                    *)
LEMMA NextServeInv == Types /\ IndexInv /\ ServeInv /\ [Next]_vars => ServeInv'
<1> SUFFICES ASSUME Types, IndexInv, ServeInv, [Next]_vars PROVE ServeInv'
  OBVIOUS
<1>1. CASE \/ \E w \in Workers : LoopStep(w) \/ Finish(w)
           \/ \E w \in Workers, v \in Deques : Steal(w, v)
  BY <1>1, WorkerServeInv
<1>2. CASE Start
  <2>1. cur' = cur /\ main' = "serving" /\ \A w \in Workers : cur[w] = None
    BY <1>2 DEF Start, IndexInv, ServeInv
  <2> QED
    BY <2>1 DEF ServeInv
<1>3. CASE BeginStop \/ StopStep \/ UNCHANGED vars
  BY <1>3 DEF BeginStop, StopStep, WaitOver, SetFlag, Join, ClearBase, loopVars, vars, ServeInv
<1>4. CASE \/ \E th \in Threads : PushLocal(th) \/ PushOnBase(th)
           \/ \E th \in Threads, t \in Tasks : ScheduleOnBase(th, t)
           \/ \E th \in Threads, t \in Tasks, q \in Deques :
                Schedule(th, t, q) \/ ScheduleWithAffinity(th, t, q)
  <2>1. UNCHANGED <<main, stop, cur, pc>>
    BY <1>4 DEF PushLocal, PushOnBase, ScheduleOnBase, Schedule, ScheduleWithAffinity,
                loopVars
  <2> QED
    BY <2>1 DEF ServeInv
<1> QED
  BY <1>1, <1>2, <1>3, <1>4 DEF Next

(* The base queues and the deques never hold the same task.                *)
LEMMA QueuedAreFuncs == Types => Queued \subseteq Funcs
<1> SUFFICES ASSUME Types, NEW t \in Queued PROVE t \in Funcs
  OBVIOUS
<1>1. PICK q \in Deques : \E i \in DOMAIN deque[q] : deque[q][i] = t
  BY QueuedMeans
<1>2. deque[q] \in Seq(Funcs)
  BY DEF Types
<1> QED
  BY <1>1, <1>2

(* A step of a worker takes a queued task, ends one, or is no step of the  *)
(* pool at all.                                                            *)
LEMMA WorkerImplements ==
  ASSUME Inv, ServeInv, NEW w \in Workers,
         LoopStep(w) \/ Finish(w) \/ \E v \in Deques : Steal(w, v)
  PROVE  [Pool!Next]_(Pool!poolVars)
<1>1. /\ Types /\ IndexInv /\ TakeInv
      /\ UNCHANGED <<main, stop, base, call, lost>>
  BY DEF Inv, LoopStep, FindIndex, InsertIndex, Leave, Stay, PopLocal, WaitEnds, Finish,
         Steal
<1>2. Started /\ Started'
  <2>1. pc[w] # "none" /\ pc' \in [Workers -> {"none", "boot", "insert", "loop",
                                  "local", "steal", "wait", "run", "exited"}]
    BY <1>1, NextIndexInv DEF LoopStep, FindIndex, InsertIndex, Leave, Stay, PopLocal,
                              WaitEnds, Finish, Steal, Types, Next
  <2>2. pc'[w] # "none"
    BY <1>1 DEF LoopStep, FindIndex, InsertIndex, Leave, Stay, PopLocal,
                WaitEnds, Finish, Steal, Types
  <2> QED
    BY <2>1, <2>2 DEF Started
<1>3. ASSUME UNCHANGED <<deque, cur, done>> PROVE UNCHANGED Pool!poolVars
  BY <1>1, <1>2, <1>3 DEF Pool!poolVars, Queued, Running
<1>4. ASSUME NEW q \in Deques, deque[q] # <<>>, NEW t,
             \/ t = Last(deque[q]) /\ deque' = [deque EXCEPT ![q] = Front(deque[q])]
             \/ t = Head(deque[q]) /\ deque' = [deque EXCEPT ![q] = Tail(deque[q])],
             cur' = [cur EXCEPT ![w] = t], pc[w] # "run", done' = done
      PROVE  Pool!Next
  <2>1. t \in Queued /\ t \in Funcs /\ Queued' = Queued \ {t}
    BY <1>1, <1>4, QueuedAfterTake DEF TakeInv
  <2>2. t \notin base /\ t # None
    BY <1>1, <2>1, Constants DEF Types
  <2>3. /\ cur'[w] = t /\ cur[w] = None
        /\ \A v \in Workers \ {w} : cur'[v] = cur[v]
    BY <1>1, <1>4 DEF Types, ServeInv
  <2>4. Running' = Running \cup {t}
    BY <2>2, <2>3 DEF Running
  <2>5. Pool!Begin(t)
    BY <1>1, <1>2, <1>4, <2>1, <2>2, <2>4 DEF Pool!Begin
  <2>6. t \in Tasks
    BY <2>1 DEF Tasks
  <2> QED
    BY <2>5, <2>6 DEF Pool!Next
<1>5. CASE FindIndex(w) \/ InsertIndex(w) \/ Leave(w) \/ Stay(w) \/ WaitEnds(w)
  BY <1>3, <1>5 DEF FindIndex, InsertIndex, Leave, Stay, WaitEnds
<1>6. CASE PopLocal(w)
  <2>1. PICK q \in Deques : q = index[w]
    BY <1>1, <1>6 DEF PopLocal, IndexInv, Looked
  <2>2. CASE deque[q] = <<>>
    BY <1>3, <1>6, <2>1, <2>2 DEF PopLocal
  <2>3. CASE deque[q] # <<>>
    <3>1. /\ cur' = [cur EXCEPT ![w] = Last(deque[q])]
          /\ deque' = [deque EXCEPT ![q] = Front(deque[q])]
          /\ done' = done /\ pc[w] # "run"
      BY <1>6, <2>1, <2>3 DEF PopLocal
    <3> QED
      BY <1>4, <2>3, <3>1
  <2> QED
    BY <2>2, <2>3
<1>7. ASSUME NEW q \in Deques, Steal(w, q)
      PROVE  [Pool!Next]_(Pool!poolVars)
  <2>1. CASE deque[q] = <<>>
    BY <1>3, <1>7, <2>1 DEF Steal
  <2>2. CASE deque[q] # <<>>
    <3>1. /\ cur' = [cur EXCEPT ![w] = Head(deque[q])]
          /\ deque' = [deque EXCEPT ![q] = Tail(deque[q])]
          /\ done' = done /\ pc[w] # "run"
      BY <1>7, <2>2 DEF Steal
    <3> QED
      BY <1>4, <2>2, <3>1
  <2> QED
    BY <2>1, <2>2
<1>8. CASE Finish(w)
  <2>1. /\ cur' = [cur EXCEPT ![w] = None] /\ done' = done \cup {cur[w]}
        /\ deque' = deque /\ cur[w] \in Funcs /\ cur[w] # None
    BY <1>1, <1>8, Constants DEF Finish, Types
  <2>2. PICK t \in Tasks : t = cur[w]
    BY <2>1 DEF Tasks
  <2>3. t \in Running /\ Queued' = Queued
    BY <2>1, <2>2 DEF Running, Queued
  <2>4. cur'[w] = None /\ \A v \in Workers \ {w} : cur'[v] = cur[v] /\ cur[v] # t
    BY <1>1, <2>1, <2>2 DEF Types, TakeInv, CurOnce
  <2>5. Running' = Running \ {t}
    BY <2>2, <2>4 DEF Running
  <2>6. Pool!Finish(t)
    BY <1>1, <1>2, <2>1, <2>2, <2>3, <2>5 DEF Pool!Finish
  <2> QED
    BY <2>6 DEF Pool!Next
<1> QED
  BY <1>5, <1>6, <1>7, <1>8 DEF LoopStep

(* A submission is accepted when it reaches a deque or a base queue, and   *)
(* refused by the base for the flag or for the limit of the queue.         *)
LEMMA SubmitImplements ==
  ASSUME Inv, NEW th \in Threads,
         \/ PushLocal(th) \/ PushOnBase(th)
         \/ \E t \in Tasks : ScheduleOnBase(th, t)
         \/ \E t \in Tasks, q \in Deques :
              Schedule(th, t, q) \/ ScheduleWithAffinity(th, t, q)
  PROVE  [Pool!Next]_(Pool!poolVars)
<1>1. /\ Types /\ TakeInv
      /\ UNCHANGED <<stop, pc, cur, done>>
  BY DEF Inv, PushLocal, PushOnBase, ScheduleOnBase, Schedule, ScheduleWithAffinity,
         loopVars
<1>2. Running' = Running /\ Started' = Started
  BY <1>1 DEF Running, Started
<1>3. CASE PushLocal(th)
  <2>1. PICK q \in Deques, t \in Funcs : q = call[th].q /\ t = call[th].task
    BY <1>1, <1>3, PushHasDeque
  <2>2. /\ deque' = [deque EXCEPT ![q] = Append(deque[q], t)]
        /\ UNCHANGED <<base, lost>>
    BY <1>3, <2>1 DEF PushLocal
  <2>3. t \in InCall
    BY <2>1, Constants DEF InCall
  <2>4. Queued' = Queued \cup {t}
    BY <1>1, <2>2, <2>3, QueuedAfterPush DEF TakeInv, Apart
  <2>5. t \notin Pool!Known
    <3>1. t \notin base \cup lost
      BY <1>1, Constants DEF Types
    <3> QED
      BY <1>1, <2>3, <3>1 DEF Pool!Known, TakeInv, Apart
  <2>6. Pool!Accept(t)
    BY <1>1, <1>2, <2>2, <2>4, <2>5 DEF Pool!Accept
  <2>7. t \in Tasks
    BY DEF Tasks
  <2> QED
    BY <2>6, <2>7 DEF Pool!Next
<1>4. CASE PushOnBase(th)
  <2>1. PICK t \in Conts : t = call[th].task
    BY <1>4 DEF PushOnBase
  <2>2. t \in InCall /\ t \in Tasks
    BY <2>1, Constants DEF InCall
  <2>3. t \notin Pool!Known
    BY <1>1, <2>2 DEF Pool!Known, TakeInv, Apart
  <2>4. Queued' = Queued
    BY <1>4 DEF PushOnBase, Queued
  <2>5. Pool!Accept(t) \/ Pool!Refuse(t)
    BY <1>1, <1>2, <1>4, <2>1, <2>3, <2>4 DEF PushOnBase, Pool!Accept, Pool!Refuse
  <2> QED
    BY <2>2, <2>5 DEF Pool!Next
<1>5. ASSUME NEW t \in Tasks, ScheduleOnBase(th, t)
      PROVE  [Pool!Next]_(Pool!poolVars)
  <2>1. Queued' = Queued /\ base' = base /\ t \notin Pool!Known
    BY <1>5 DEF ScheduleOnBase, Queued, Outside, Pool!Known
  <2>2. CASE stop
    <3>1. Pool!Refuse(t)
      BY <1>1, <1>2, <1>5, <2>1, <2>2 DEF ScheduleOnBase, Pool!Refuse
    <3> QED
      BY <3>1 DEF Pool!Next
  <2>3. CASE ~stop
    BY <1>1, <1>2, <1>5, <2>1, <2>3 DEF ScheduleOnBase, Pool!poolVars
  <2> QED
    BY <2>2, <2>3
<1>6. CASE \E t \in Tasks, q \in Deques :
             Schedule(th, t, q) \/ ScheduleWithAffinity(th, t, q)
  <2>1. UNCHANGED <<deque, base, lost>>
    BY <1>6 DEF Schedule, ScheduleWithAffinity
  <2> QED
    BY <1>1, <1>2, <2>1 DEF Pool!poolVars, Queued
<1> QED
  BY <1>3, <1>4, <1>5, <1>6

(* The owner launches, closes, and discards what the base queues held.     *)
LEMMA OwnerImplements ==
  ASSUME Inv, ServeInv, Start \/ BeginStop \/ StopStep
  PROVE  [Pool!Next]_(Pool!poolVars)
<1>1. /\ Types /\ IndexInv
      /\ UNCHANGED <<deque, cur, done>>
  BY DEF Inv, Start, BeginStop, StopStep, WaitOver, SetFlag, Join, ClearBase, loopVars
<1>2. Queued' = Queued /\ Running' = Running
  BY <1>1 DEF Queued, Running
<1>3. CASE Start
  <2>1. ~Started /\ Started' /\ UNCHANGED <<stop, base, lost>>
    BY <1>1, <1>3, Constants DEF Start, IndexInv, Started
  <2>2. CASE stop
    BY <1>1, <1>2, <2>1, <2>2 DEF Pool!poolVars
  <2>3. CASE ~stop
    BY <1>1, <1>2, <2>1, <2>3 DEF Pool!Launch, Pool!Next
  <2> QED
    BY <2>2, <2>3
<1>4. CASE BeginStop \/ WaitOver \/ Join
  <2>1. Started' = Started /\ UNCHANGED <<stop, base, lost>>
    BY <1>4 DEF BeginStop, WaitOver, Join, loopVars, Started
  <2> QED
    BY <1>1, <1>2, <2>1 DEF Pool!poolVars
<1>5. CASE SetFlag
  <2>1. stop' /\ UNCHANGED <<base, lost>>
    BY <1>5 DEF SetFlag
  <2>2. CASE stop
    BY <1>1, <1>2, <2>1, <2>2 DEF Pool!poolVars
  <2>3. CASE ~stop
    BY <1>1, <1>2, <2>1, <2>3 DEF Pool!Close, Pool!Next
  <2> QED
    BY <2>2, <2>3
<1>6. CASE ClearBase
  <2>1. PICK S \in SUBSET base : base' = base \ S /\ lost' = lost \cup S
    BY <1>6 DEF ClearBase
  <2>2. stop /\ stop' = stop
    BY <1>6 DEF ClearBase, ServeInv
  <2>3. CASE S = {}
    <3>1. base' = base /\ lost' = lost
      BY <2>1, <2>3
    <3>2. Started' = Started
      BY <1>6 DEF ClearBase, loopVars, Started
    <3> QED
      BY <1>1, <1>2, <2>2, <3>1, <3>2 DEF Pool!poolVars
  <2>4. CASE S # {}
    <3>1. Queued \cap S = {} /\ S \in SUBSET Tasks
      BY <1>1, QueuedAreFuncs, Constants DEF Types, Tasks
    <3>2. Pool!Discard(S)
      BY <1>1, <1>2, <2>1, <2>2, <2>4, <3>1 DEF Pool!Discard
    <3> QED
      BY <3>1, <3>2 DEF Pool!Next
  <2> QED
    BY <2>3, <2>4
<1> QED
  BY <1>3, <1>4, <1>5, <1>6 DEF StopStep

(* Seen from outside, a WorkStealingScheduler is a TaskPool that does not  *)
(* drain: whoever shares an index with whom, a task is started once, by    *)
(* one worker, and nothing is thrown away before the flag is up.           *)
THEOREM Refinement == Spec => PoolSafe
<1>1. Init => Pool!Init /\ ServeInv
  <2> SUFFICES ASSUME Init PROVE Pool!Init /\ ServeInv
    OBVIOUS
  <2>1. Queued = {} /\ Running = {} /\ ~Started
    BY DEF Init, Queued, Running, Started, ToSet
  <2> QED
    BY <2>1 DEF Init, Pool!Init, ServeInv
<1>2. Inv /\ ServeInv /\ [Next]_vars => ServeInv'
  BY NextServeInv DEF Inv
<1>3. Inv /\ ServeInv /\ [Next]_vars => [Pool!Next]_(Pool!poolVars)
  <2> SUFFICES ASSUME Inv, ServeInv, [Next]_vars PROVE [Pool!Next]_(Pool!poolVars)
    OBVIOUS
  <2>1. CASE UNCHANGED vars
    BY <2>1 DEF vars, Pool!poolVars, Queued, Running, Started
  <2> QED
    BY <2>1, OwnerImplements, WorkerImplements, SubmitImplements DEF Next
<1> QED
  BY <1>1, <1>2, <1>3, Invariance, PTL DEF Spec, PoolSafe, Pool!SafeSpec

-----------------------------------------------------------------------------
(* AdvancedScheduler.  The two modules call what both schedulers inherit   *)
(* or share by the same names; no formula is about both systems.           *)

CONSTANTS Priority, MaxForeign
VARIABLES queue, time, posting, counter, foreign, id, victims

A == INSTANCE Advanced

(* What Advanced assumes of the constants it does not share.               *)
AdvAssumed == IsFiniteSet(Funcs) /\ Priority \in [Funcs -> 0 .. 3]

(* Counting is counting in both.                                           *)
LEMMA SameCount == \A S : A!Cardinality(S) = Cardinality(S)
BY DEF A!Cardinality, Cardinality

(* What the assumptions come to.                                           *)
LEMMA AdvConstants ==
  ASSUME AdvAssumed
  PROVE  /\ A!N \in Nat \ {0} /\ 0 \in A!Queues
         /\ \A n \in Nat : n % A!N \in A!Queues
         /\ IsFiniteSet(Funcs) /\ None \notin Funcs
         /\ Workers \subseteq A!Threads
         /\ Priority \in [Funcs -> 0 .. 3] /\ A!NoCall.task = None
<1>1. A!N \in Nat \ {0}
  BY Constants, SameCount DEF A!N
<1> QED
  BY <1>1, Constants DEF AdvAssumed, A!Queues, A!Threads, A!NoCall

(* Every set of numbers that is not empty has a least element.             *)
LEMMA Least ==
  ASSUME NEW S \in SUBSET Nat, S # {}
  PROVE  \E x \in S : \A y \in S : x <= y
<1>1. \E x \in S : \A y \in S : ~ (<<y, x>> \in OpToRel(<, Nat))
  BY NatLessThanWellFounded, WFMin
<1>2. PICK x \in S : \A y \in S : ~ (<<y, x>> \in OpToRel(<, Nat))
  BY <1>1
<1>3. ASSUME NEW y \in S PROVE x <= y
  <2>1. x \in Nat /\ y \in Nat
    OBVIOUS
  <2>2. ~ (y < x)
    BY <1>2, <2>1 DEF OpToRel
  <2> QED
    BY <2>1, <2>2
<1> QED
  BY <1>3

-----------------------------------------------------------------------------
(* The inductive invariant                                                 *)

(* The variables have their types; a thread without a task is not inside   *)
(* a call, and a worker has a task just while it runs it.                  *)
AdvTypes ==
  /\ main \in {"new", "serving", "join", "stopped"}
  /\ queue \in [A!Queues -> SUBSET Funcs] /\ time \in [Funcs -> Nat]
  /\ call \in [A!Threads -> [task : Funcs \cup {None}, next : Nat,
                           least : A!Queues, load : Int]]
  /\ counter \in Nat /\ id \in [Workers -> A!Queues]
  /\ pc \in [Workers ->
              {"none", "boot", "loop", "own", "steal", "run", "exited"}]
  /\ victims \in [Workers -> SUBSET A!Queues]
  /\ cur \in [Workers -> Funcs \cup {None}] /\ done \subseteq Funcs
  /\ \A th \in A!Threads : call[th].task = None => call[th] = A!NoCall
  /\ \A w \in Workers : cur[w] # None <=> pc[w] = "run"
  /\ main = "new" => \A w \in Workers : pc[w] = "none"

(* What the calls and the workers have in hand.                            *)
AdvInCall  == {t \in Funcs : \E th \in A!Threads : call[th].task = t}
AdvRunning == {t \in Funcs : \E w \in Workers : cur[w] = t}

(* A task is inside one call, in one queue, with one worker, ...           *)
AdvOnce ==
  /\ \A u, v \in A!Threads :
       call[u].task = call[v].task /\ u # v => call[u].task = None
  /\ \A p, q \in A!Queues : p # q => queue[p] \cap queue[q] = {}
  /\ \A v, w \in Workers : cur[v] = cur[w] /\ v # w => cur[v] = None

(* ... in one of these or done, and it is there just if it was submitted.  *)
AdvSomewhere ==
  /\ AdvInCall \cap (A!Queued \cup AdvRunning \cup done) = {}
  /\ A!Queued \cap (AdvRunning \cup done) = {} /\ AdvRunning \cap done = {}
  /\ A!Begun = AdvInCall \cup A!Queued \cup AdvRunning \cup done

(* No two tasks were submitted at the same time.                           *)
AdvOrdered ==
  /\ \A t \in A!Begun : time[t] <= Cardinality(A!Begun)
  /\ \A t, u \in A!Begun : time[t] = time[u] => t = u

(* The inductive invariant.                                                *)
AdvInv == AdvAssumed /\ AdvTypes /\ AdvOnce /\ AdvSomewhere /\ AdvOrdered

-----------------------------------------------------------------------------
(* Steps                                                                   *)

(* There is a first among the tasks of a queue, so top() returns one.      *)
LEMMA AdvTopIsThere ==
  ASSUME AdvInv, NEW q \in A!Queues, queue[q] # {}
  PROVE  A!Top(q) \in queue[q]
<1>1. /\ queue[q] \subseteq A!Begun /\ queue[q] \subseteq Funcs
      /\ \A t \in queue[q] : Priority[t] \in 0 .. 3 /\ time[t] \in Nat
  BY AdvConstants DEF AdvInv, AdvTypes, AdvSomewhere, A!Queued
<1>2. PICK a \in queue[q] : \A t \in queue[q] : Priority[t] <= Priority[a]
  <2> DEFINE S == {3 - Priority[t] : t \in queue[q]}
  <2>1. S \in SUBSET Nat /\ S # {}
    BY <1>1
  <2>2. PICK x \in S : \A y \in S : x <= y
    BY <2>1, Least
  <2>3. PICK a \in queue[q] : x = 3 - Priority[a]
    BY <2>2
  <2>4. ASSUME NEW t \in queue[q] PROVE Priority[t] <= Priority[a]
    <3>1. 3 - Priority[t] \in S
      OBVIOUS
    <3>2. 3 - Priority[a] <= 3 - Priority[t]
      BY <2>2, <2>3, <3>1
    <3> QED
      BY <1>1, <3>2
  <2> QED
    BY <2>4
<1>3. PICK b \in queue[q] :
        /\ Priority[b] = Priority[a]
        /\ \A t \in queue[q] : Priority[t] = Priority[a] => time[b] <= time[t]
  <2> DEFINE P == {t \in queue[q] : Priority[t] = Priority[a]}
             S == {time[t] : t \in P}
  <2>1. S \in SUBSET Nat /\ S # {}
    BY <1>1
  <2>2. PICK x \in S : \A y \in S : x <= y
    BY <2>1, Least
  <2>3. PICK b \in P : x = time[b]
    BY <2>2
  <2>4. ASSUME NEW t \in P PROVE time[b] <= time[t]
    <3>1. time[t] \in S
      OBVIOUS
    <3> QED
      BY <2>2, <2>3, <3>1
  <2> QED
    BY <2>3, <2>4
<1>4. ASSUME NEW u \in queue[q] \ {b}
      PROVE  \/ Priority[b] > Priority[u]
             \/ Priority[b] = Priority[u] /\ time[b] < time[u]
  <2>1. CASE Priority[u] = Priority[a]
    <3>1. time[b] <= time[u] /\ time[b] # time[u]
      BY <1>1, <1>3, <2>1 DEF AdvInv, AdvOrdered
    <3> QED
      BY <1>1, <1>3, <2>1, <3>1
  <2>2. CASE Priority[u] # Priority[a]
    <3>1. Priority[u] <= Priority[a]
      BY <1>2
    <3>2. Priority[u] \in Int /\ Priority[a] \in Int
      BY <1>1
    <3> QED
      BY <1>3, <2>2, <3>1, <3>2
  <2> QED
    BY <2>1, <2>2
<1>5. \E t \in queue[q] :
        \A u \in queue[q] \ {t} :
          \/ Priority[t] > Priority[u]
          \/ Priority[t] = Priority[u] /\ time[t] < time[u]
  BY <1>4
<1> QED
  BY <1>5 DEF A!Top

(* The loads of queues are numbers.                                        *)
LEMMA AdvLoadIsNumber ==
  ASSUME AdvAssumed, AdvTypes, NEW q \in A!Queues
  PROVE  A!Load(q) \in Nat
<1>1. queue[q] \in SUBSET Funcs
  BY DEF AdvTypes
<1> QED
  BY <1>1, AdvConstants, SameCount, FS_Subset, FS_CardinalityType DEF A!Load, AdvInv

(* A step that moves no task keeps everyone in place.                      *)
LEMMA AdvNothingMoves ==
  ASSUME AdvInv, AdvTypes', UNCHANGED <<queue, time, cur, done>>,
         \A th \in A!Threads : call'[th].task = call[th].task
  PROVE  AdvInv'
<1>1. /\ AdvInCall' = AdvInCall /\ AdvRunning' = AdvRunning
      /\ A!Queued' = A!Queued /\ A!Begun' = A!Begun
  BY DEF AdvInCall, AdvRunning, A!Queued, A!Begun
<1>2. AdvOnce'
  BY DEF AdvInv, AdvOnce
<1>3. AdvSomewhere' /\ AdvOrdered'
  BY <1>1 DEF AdvInv, AdvSomewhere, AdvOrdered
<1> QED
  BY <1>2, <1>3 DEF AdvInv

(* schedule_with_priority() takes a task from outside.                     *)
LEMMA AdvScheduleKeeps ==
  ASSUME AdvInv, NEW th \in A!Threads, NEW t \in Funcs, A!Schedule(th, t)
  PROVE  AdvInv'
<1>1. /\ call[th] = A!NoCall /\ t \notin A!Begun
      /\ time' = [time EXCEPT ![t] = Cardinality(A!Begun) + 1]
      /\ call' = [call EXCEPT ![th] =
                    [task |-> t, next |-> 1, least |-> 0, load |-> A!Load(0)]]
      /\ UNCHANGED <<main, queue, counter, id, pc, victims, cur, done>>
  BY SameCount DEF A!Schedule, A!CanCall, A!InCall, A!workerVars
<1>2. Cardinality(A!Begun) \in Nat /\ IsFiniteSet(A!Begun)
  <2>1. A!Begun \in SUBSET Funcs
    BY DEF A!Begun
  <2> QED
    BY <2>1, AdvConstants, FS_Subset, FS_CardinalityType DEF AdvInv
<1>3. PICK c \in Nat : c = Cardinality(A!Begun)
  BY <1>2
<1>4. /\ time'[t] = c + 1 /\ \A u \in Funcs \ {t} : time'[u] = time[u]
      /\ time' \in [Funcs -> Nat]
  BY <1>1, <1>3 DEF AdvInv, AdvTypes
<1>5. A!Begun' = A!Begun \cup {t}
  BY <1>3, <1>4 DEF A!Begun
<1>6. Cardinality(A!Begun') = c + 1
  BY <1>1, <1>2, <1>3, <1>5, FS_AddElement
<1>7. /\ call'[th].task = t /\ \A u \in A!Threads \ {th} : call'[u] = call[u]
      /\ t # None /\ call[th].task = None
  BY <1>1, AdvConstants DEF AdvInv, AdvTypes
<1>8. AdvTypes'
  <2>1. A!Load(0) \in Int
    BY AdvConstants, AdvLoadIsNumber DEF AdvInv
  <2>2. call' \in [A!Threads -> [task : Funcs \cup {None}, next : Nat,
                               least : A!Queues, load : Int]]
    BY <1>1, <2>1, AdvConstants DEF AdvInv, AdvTypes
  <2>3. \A u \in A!Threads : call'[u].task = None => call'[u] = A!NoCall
    BY <1>7 DEF AdvInv, AdvTypes
  <2> QED
    BY <1>1, <1>4, <2>2, <2>3 DEF AdvInv, AdvTypes
<1>9. \A u \in A!Threads : call[u].task # t
  BY <1>1 DEF AdvInv, AdvSomewhere, AdvInCall
<1>10. /\ AdvInCall' = AdvInCall \cup {t}
       /\ A!Queued' = A!Queued /\ AdvRunning' = AdvRunning
  <2>1. AdvInCall' = AdvInCall \cup {t}
    BY <1>7, AdvConstants DEF AdvInCall, AdvInv
  <2> QED
    BY <1>1, <2>1 DEF A!Queued, AdvRunning
<1>11. AdvOnce'
  BY <1>1, <1>7, <1>9 DEF AdvInv, AdvOnce
<1>12. AdvSomewhere'
  BY <1>1, <1>5, <1>10 DEF AdvInv, AdvSomewhere
<1>13. AdvOrdered'
  <2>1. \A u \in A!Begun : u \in Funcs /\ u # t /\ time[u] \in Nat /\ time[u] <= c
    BY <1>1, <1>3 DEF AdvInv, AdvTypes, AdvOrdered, A!Begun
  <2>2. \A u \in A!Begun' : time'[u] <= Cardinality(A!Begun')
    BY <1>3, <1>4, <1>5, <1>6, <2>1
  <2>3. \A u, v \in A!Begun' : time'[u] = time'[v] => u = v
    BY <1>3, <1>4, <1>5, <2>1 DEF AdvInv, AdvOrdered
  <2> QED
    BY <2>2, <2>3 DEF AdvOrdered
<1> QED
  BY <1>8, <1>11, <1>12, <1>13 DEF AdvInv

(* The push moves it from the call to the queue that was found.            *)
LEMMA AdvPushKeeps ==
  ASSUME AdvInv, NEW th \in A!Threads, A!Push(th)
  PROVE  AdvInv'
<1>1. PICK t \in Funcs, q \in A!Queues : t = call[th].task /\ q = call[th].least
  BY DEF AdvInv, AdvTypes, A!Push
<1>2. /\ queue' = [queue EXCEPT ![q] = queue[q] \cup {t}]
      /\ call' = [call EXCEPT ![th] = A!NoCall]
      /\ UNCHANGED <<main, time, counter, id, pc, victims, cur, done>>
  BY <1>1 DEF A!Push, A!workerVars
<1>3. /\ queue'[q] = queue[q] \cup {t}
      /\ \A p \in A!Queues \ {q} : queue'[p] = queue[p]
      /\ call'[th] = A!NoCall /\ \A u \in A!Threads \ {th} : call'[u] = call[u]
  BY <1>2 DEF AdvInv, AdvTypes
<1>4. t \in AdvInCall /\ t # None
  BY <1>1, AdvConstants DEF AdvInCall, AdvInv
<1>5. t \notin A!Queued \cup AdvRunning \cup done
  BY <1>4 DEF AdvInv, AdvSomewhere
<1>6. AdvTypes'
  <2>1. A!NoCall \in [task : Funcs \cup {None}, next : Nat,
                      least : A!Queues, load : Int]
    BY AdvConstants DEF A!NoCall, AdvInv
  <2>2. call' \in [A!Threads -> [task : Funcs \cup {None}, next : Nat,
                               least : A!Queues, load : Int]]
    BY <1>2, <2>1 DEF AdvInv, AdvTypes
  <2>3. \A u \in A!Threads : call'[u].task = None => call'[u] = A!NoCall
    BY <1>3 DEF AdvInv, AdvTypes
  <2>4. queue' \in [A!Queues -> SUBSET Funcs]
    BY <1>2 DEF AdvInv, AdvTypes
  <2> QED
    BY <1>2, <2>2, <2>3, <2>4 DEF AdvInv, AdvTypes
<1>7. AdvInCall' = AdvInCall \ {t}
  <2>1. \A u \in A!Threads \ {th} : call[u].task # t
    BY <1>1, <1>4 DEF AdvInv, AdvOnce
  <2> QED
    BY <1>1, <1>3, <2>1, AdvConstants DEF AdvInCall, AdvInv
<1>8. /\ A!Queued' = A!Queued \cup {t}
      /\ AdvRunning' = AdvRunning /\ A!Begun' = A!Begun
  BY <1>2, <1>3 DEF A!Queued, AdvRunning, A!Begun
<1>9. AdvOnce'
  <2>1. \A u, v \in A!Threads :
          call'[u].task = call'[v].task /\ u # v => call'[u].task = None
    BY <1>3, AdvConstants DEF AdvInv, AdvOnce
  <2>2. \A p \in A!Queues : t \notin queue[p]
    BY <1>5 DEF A!Queued
  <2>3. \A p, r \in A!Queues : p # r => queue'[p] \cap queue'[r] = {}
    BY <1>3, <2>2 DEF AdvInv, AdvOnce
  <2> QED
    BY <1>2, <2>1, <2>3 DEF AdvInv, AdvOnce
<1>10. AdvSomewhere' /\ AdvOrdered'
  BY <1>2, <1>4, <1>5, <1>7, <1>8 DEF AdvInv, AdvSomewhere, AdvOrdered
<1> QED
  BY <1>6, <1>9, <1>10 DEF AdvInv

(* An owner or a thief takes a task out of a queue and is the only one to  *)
(* have it.                                                                *)
LEMMA AdvTakeKeeps ==
  ASSUME AdvInv, NEW w \in Workers, NEW q \in A!Queues, queue[q] # {},
         pc[w] \in {"own", "steal"}, A!Take(w, q),
         victims' \in [Workers -> SUBSET A!Queues],
         UNCHANGED <<main, time, call, counter, id, done>>
  PROVE  AdvInv'
<1>1. PICK t \in queue[q] : t = A!Top(q)
  BY AdvTopIsThere
<1>2. /\ cur' = [cur EXCEPT ![w] = t] /\ pc' = [pc EXCEPT ![w] = "run"]
      /\ queue' = [queue EXCEPT ![q] = queue[q] \ {t}]
  BY <1>1 DEF A!Take
<1>3. /\ t \in Funcs /\ t # None /\ t \in A!Queued
      /\ cur[w] = None /\ main # "new"
  BY <1>1, AdvConstants DEF AdvInv, AdvTypes, A!Queued
<1>4. /\ cur'[w] = t /\ \A v \in Workers \ {w} : cur'[v] = cur[v]
      /\ pc'[w] = "run" /\ \A v \in Workers \ {w} : pc'[v] = pc[v]
      /\ queue'[q] = queue[q] \ {t}
      /\ \A p \in A!Queues \ {q} : queue'[p] = queue[p]
  BY <1>2 DEF AdvInv, AdvTypes
<1>5. AdvTypes'
  <2>1. queue' \in [A!Queues -> SUBSET Funcs]
    BY <1>2 DEF AdvInv, AdvTypes
  <2>2. /\ pc' \in [Workers ->
                     {"none", "boot", "loop", "own", "steal", "run", "exited"}]
        /\ cur' \in [Workers -> Funcs \cup {None}]
    BY <1>2, <1>3 DEF AdvInv, AdvTypes
  <2>3. \A v \in Workers : cur'[v] # None <=> pc'[v] = "run"
    BY <1>3, <1>4 DEF AdvInv, AdvTypes
  <2> QED
    BY <1>3, <2>1, <2>2, <2>3 DEF AdvInv, AdvTypes
<1>6. /\ AdvRunning' = AdvRunning \cup {t}
      /\ AdvInCall' = AdvInCall /\ A!Begun' = A!Begun
  <2>1. AdvRunning' = AdvRunning \cup {t}
    BY <1>3, <1>4, AdvConstants DEF AdvRunning, AdvInv
  <2> QED
    BY <2>1 DEF AdvInCall, A!Begun
<1>7. A!Queued' = A!Queued \ {t}
  <2>1. \A p \in A!Queues \ {q} : t \notin queue[p]
    BY <1>1 DEF AdvInv, AdvOnce
  <2> QED
    BY <1>4, <2>1 DEF A!Queued
<1>8. AdvOnce'
  <2>1. \A v \in Workers : cur[v] # t
    BY <1>3 DEF AdvInv, AdvSomewhere, AdvRunning
  <2>2. \A u, v \in Workers : cur'[u] = cur'[v] /\ u # v => cur'[u] = None
    BY <1>4, <2>1 DEF AdvInv, AdvOnce
  <2>3. \A p, r \in A!Queues : p # r => queue'[p] \cap queue'[r] = {}
    BY <1>4 DEF AdvInv, AdvOnce
  <2> QED
    BY <2>2, <2>3 DEF AdvInv, AdvOnce
<1>9. AdvSomewhere'
  BY <1>3, <1>6, <1>7 DEF AdvInv, AdvSomewhere
<1>10. AdvOrdered'
  BY <1>6 DEF AdvInv, AdvOrdered
<1> QED
  BY <1>5, <1>8, <1>9, <1>10 DEF AdvInv

(* A task that ends is done.                                               *)
LEMMA AdvFinishKeeps ==
  ASSUME AdvInv, NEW w \in Workers, A!Finish(w)
  PROVE  AdvInv'
<1>1. /\ pc[w] = "run" /\ done' = done \cup {cur[w]}
      /\ cur' = [cur EXCEPT ![w] = None] /\ pc' = [pc EXCEPT ![w] = "loop"]
      /\ UNCHANGED <<main, queue, time, call, counter, id, victims>>
  BY DEF A!Finish
<1>2. PICK t \in Funcs : t = cur[w] /\ t # None
  BY <1>1, AdvConstants DEF AdvInv, AdvTypes
<1>3. /\ cur'[w] = None /\ \A v \in Workers \ {w} : cur'[v] = cur[v]
      /\ pc'[w] = "loop" /\ \A v \in Workers \ {w} : pc'[v] = pc[v]
  BY <1>1 DEF AdvInv, AdvTypes
<1>4. AdvTypes'
  <2>1. /\ pc' \in [Workers ->
                     {"none", "boot", "loop", "own", "steal", "run", "exited"}]
        /\ cur' \in [Workers -> Funcs \cup {None}] /\ done' \subseteq Funcs
    BY <1>1, <1>2 DEF AdvInv, AdvTypes
  <2>2. \A v \in Workers : cur'[v] # None <=> pc'[v] = "run"
    BY <1>3 DEF AdvInv, AdvTypes
  <2>3. main # "new"
    BY <1>1 DEF AdvInv, AdvTypes
  <2> QED
    BY <1>1, <2>1, <2>2, <2>3 DEF AdvInv, AdvTypes
<1>5. t \in AdvRunning /\ done' = done \cup {t}
  BY <1>1, <1>2 DEF AdvRunning
<1>6. AdvRunning' = AdvRunning \ {t}
  <2>1. \A v \in Workers \ {w} : cur[v] # t
    BY <1>2 DEF AdvInv, AdvOnce
  <2> QED
    BY <1>2, <1>3, <2>1, AdvConstants DEF AdvRunning, AdvInv
<1>7. AdvInCall' = AdvInCall /\ A!Queued' = A!Queued /\ A!Begun' = A!Begun
  BY <1>1 DEF AdvInCall, A!Queued, A!Begun
<1>8. AdvOnce'
  BY <1>1, <1>3 DEF AdvInv, AdvOnce
<1>9. AdvSomewhere' /\ AdvOrdered'
  BY <1>1, <1>5, <1>6, <1>7 DEF AdvInv, AdvSomewhere, AdvOrdered
<1> QED
  BY <1>4, <1>8, <1>9 DEF AdvInv

(* A worker that moves no task keeps the types.                            *)
LEMMA AdvLoopKeeps ==
  ASSUME AdvInv, NEW w \in Workers,
         \/ A!GetThreadId(w) \/ A!TestFlag(w) \/ A!GiveUp(w)
         \/ A!PopOwn(w) /\ queue[id[w]] = {}
  PROVE  AdvInv'
<1>1. /\ UNCHANGED <<main, queue, time, call, cur, done>>
      /\ pc[w] \in {"boot", "loop", "own", "steal"}
      /\ \/ pc' = [pc EXCEPT ![w] = "loop"]
         \/ pc' = [pc EXCEPT ![w] = "own"]
         \/ pc' = [pc EXCEPT ![w] = "steal"]
         \/ pc' = [pc EXCEPT ![w] = "exited"]
  BY DEF A!GetThreadId, A!TestFlag, A!GiveUp, A!PopOwn
<1>2. /\ pc' \in [Workers ->
                   {"none", "boot", "loop", "own", "steal", "run", "exited"}]
      /\ pc'[w] # "run" /\ \A v \in Workers \ {w} : pc'[v] = pc[v]
  BY <1>1 DEF AdvInv, AdvTypes
<1>3. counter' \in Nat /\ id' \in [Workers -> A!Queues]
  <2>1. CASE A!GetThreadId(w)
    <3>1. counter % A!N \in A!Queues
      BY AdvConstants DEF AdvInv, AdvTypes
    <3> QED
      BY <2>1, <3>1 DEF A!GetThreadId, AdvInv, AdvTypes
  <2>2. CASE A!TestFlag(w) \/ A!GiveUp(w) \/ A!PopOwn(w)
    BY <2>2 DEF A!TestFlag, A!GiveUp, A!PopOwn, AdvInv, AdvTypes
  <2> QED
    BY <2>1, <2>2
<1>4. victims' \in [Workers -> SUBSET A!Queues]
  <2>1. CASE A!PopOwn(w) /\ queue[id[w]] = {}
    <3>1. victims' = [victims EXCEPT ![w] =
                        {q \in A!Queues \ {id[w]} : A!Load(q) > 1}]
      BY <2>1 DEF A!PopOwn
    <3> QED
      BY <3>1 DEF AdvInv, AdvTypes
  <2>2. CASE A!GetThreadId(w) \/ A!TestFlag(w) \/ A!GiveUp(w)
    BY <2>2 DEF A!GetThreadId, A!TestFlag, A!GiveUp, AdvInv, AdvTypes
  <2> QED
    BY <2>1, <2>2
<1>5. main # "new" /\ \A v \in Workers : cur'[v] # None <=> pc'[v] = "run"
  BY <1>1, <1>2 DEF AdvInv, AdvTypes
<1>6. AdvTypes'
  BY <1>1, <1>2, <1>3, <1>4, <1>5 DEF AdvInv, AdvTypes
<1> QED
  BY <1>1, <1>6, AdvNothingMoves

(* Reading the loads moves no task either.                                 *)
LEMMA AdvCompareKeeps ==
  ASSUME AdvInv, NEW th \in A!Threads, A!Compare(th)
  PROVE  AdvInv'
<1> DEFINE AdvCalls == [task : Funcs \cup {None}, next : Nat,
                        least : A!Queues, load : Int]
<1>1. PICK c \in AdvCalls : c = call[th]
  BY DEF AdvInv, AdvTypes
<1>2. /\ c # A!NoCall /\ c.next < A!N /\ c.next \in Nat /\ c.task # None
      /\ UNCHANGED <<main, queue, time, counter, id, pc, victims, cur, done>>
  BY <1>1 DEF A!Compare, A!workerVars, AdvInv, AdvTypes
<1>3. PICK d \in AdvCalls : d.task = c.task /\ call' = [call EXCEPT ![th] = d]
  <2>1. call' = [call EXCEPT ![th] =
                   IF A!Load(c.next) < c.load
                     THEN [c EXCEPT !.next = c.next + 1, !.least = c.next,
                                    !.load = A!Load(c.next)]
                     ELSE [c EXCEPT !.next = c.next + 1]]
    BY <1>1 DEF A!Compare
  <2>2. CASE A!Load(c.next) < c.load
    <3> DEFINE d == [c EXCEPT !.next = c.next + 1, !.least = c.next,
                              !.load = A!Load(c.next)]
    <3>1. PICK p \in A!Queues : p = c.next
      BY <1>2, AdvConstants DEF A!Queues, AdvInv
    <3>2. PICK n \in Int : n = A!Load(p)
      BY AdvLoadIsNumber DEF AdvInv
    <3>3. d = [c EXCEPT !.next = p + 1, !.least = p, !.load = n]
      BY <3>1, <3>2
    <3>4. p + 1 \in Nat
      BY <1>2, <3>1
    <3>5. d \in AdvCalls /\ d.task = c.task
      BY <3>3, <3>4
    <3> QED
      BY <2>1, <2>2, <3>5
  <2>3. CASE ~ (A!Load(c.next) < c.load)
    <3> DEFINE d == [c EXCEPT !.next = c.next + 1]
    <3>1. d \in AdvCalls /\ d.task = c.task
      BY <1>1, <1>2
    <3> QED
      BY <2>1, <2>3, <3>1
  <2> QED
    BY <2>2, <2>3
<1>4. /\ call'[th] = d /\ \A u \in A!Threads \ {th} : call'[u] = call[u]
      /\ call' \in [A!Threads -> AdvCalls]
  BY <1>3 DEF AdvInv, AdvTypes
<1>5. AdvTypes'
  <2>1. \A u \in A!Threads : call'[u].task = None => call'[u] = A!NoCall
    BY <1>2, <1>3, <1>4 DEF AdvInv, AdvTypes
  <2> QED
    BY <1>2, <1>4, <2>1 DEF AdvInv, AdvTypes
<1>6. \A u \in A!Threads : call'[u].task = call[u].task
  BY <1>1, <1>3, <1>4
<1> QED
  BY <1>2, <1>5, <1>6, AdvNothingMoves

(* Neither do the owner, other schedulers and the base class.              *)
LEMMA AdvOthersKeep ==
  ASSUME AdvInv,
         \/ A!Start \/ A!SetFlag \/ A!Join \/ A!ForeignDraw \/ UNCHANGED A!vars
         \/ \E th \in A!Threads : A!PushOnBase(th)
         \/ \E th \in A!Threads, t \in Conts : A!ScheduleOnBase(th, t)
  PROVE  AdvInv'
<1>1. UNCHANGED <<queue, time, call, cur, done>>
  BY DEF A!Start, A!SetFlag, A!Join, A!ForeignDraw, A!ScheduleOnBase, A!PushOnBase,
         A!workerVars, A!vars
<1>2. CASE A!Start
  <2>1. \A w \in Workers : pc'[w] = "boot" /\ cur[w] = None
    BY <1>2 DEF A!Start, AdvInv, AdvTypes
  <2>2. AdvTypes'
    BY <1>1, <1>2, <2>1 DEF A!Start, AdvInv, AdvTypes
  <2> QED
    BY <1>1, <2>2, AdvNothingMoves
<1>3. CASE \/ A!SetFlag \/ A!Join \/ A!ForeignDraw \/ UNCHANGED A!vars
           \/ \E th \in A!Threads : A!PushOnBase(th)
           \/ \E th \in A!Threads, t \in Conts : A!ScheduleOnBase(th, t)
  <2>1. /\ UNCHANGED <<id, pc, victims>> /\ counter' \in Nat
        /\ main' \in {main, "join", "stopped"}
    BY <1>3 DEF A!SetFlag, A!Join, A!ForeignDraw, A!ScheduleOnBase, A!PushOnBase,
                A!workerVars, A!vars, AdvInv, AdvTypes
  <2>2. AdvTypes'
    BY <1>1, <2>1 DEF AdvInv, AdvTypes
  <2> QED
    BY <1>1, <2>2, AdvNothingMoves
<1> QED
  BY <1>2, <1>3

(* It holds initially ...                                                  *)
LEMMA AdvInitInv == AdvAssumed /\ A!Init => AdvInv
<1> SUFFICES ASSUME AdvAssumed, A!Init PROVE AdvInv
  OBVIOUS
<1>1. AdvTypes
  <2>1. A!NoCall \in [task : Funcs \cup {None}, next : Nat,
                      least : A!Queues, load : Int]
    BY AdvConstants DEF A!NoCall, AdvInv
  <2>2. id \in [Workers -> A!Queues]
    BY AdvConstants DEF A!Init, AdvInv
  <2> QED
    BY <2>1, <2>2 DEF A!Init, AdvTypes
<1>2. AdvInCall = {} /\ AdvRunning = {} /\ A!Queued = {} /\ A!Begun = {} /\ done = {}
  BY AdvConstants DEF A!Init, AdvInCall, AdvRunning, A!Queued, A!Begun, AdvInv
<1>3. AdvOnce
  BY AdvConstants DEF A!Init, AdvOnce, AdvInv
<1> QED
  BY <1>1, <1>2, <1>3 DEF AdvInv, AdvSomewhere, AdvOrdered

(* ... and is preserved by every step.                                     *)
LEMMA AdvNextInv == AdvInv /\ [A!Next]_(A!vars) => AdvInv'
<1> SUFFICES ASSUME AdvInv, [A!Next]_(A!vars) PROVE AdvInv'
  OBVIOUS
<1>1. ASSUME NEW w \in Workers, A!Loop(w)
      PROVE  AdvInv'
  <2>1. CASE A!GetThreadId(w) \/ A!TestFlag(w) \/ A!GiveUp(w)
    BY <2>1, AdvLoopKeeps
  <2>2. CASE A!PopOwn(w)
    <3>1. CASE queue[id[w]] = {}
      BY <2>2, <3>1, AdvLoopKeeps
    <3>2. CASE queue[id[w]] # {}
      <4>1. PICK q \in A!Queues : q = id[w]
        BY DEF AdvInv, AdvTypes
      <4>2. /\ pc[w] = "own" /\ A!Take(w, q) /\ queue[q] # {} /\ UNCHANGED victims
            /\ UNCHANGED <<main, time, call, counter, id, done>>
        BY <2>2, <3>2, <4>1 DEF A!PopOwn
      <4>3. victims' \in [Workers -> SUBSET A!Queues]
        BY <4>2 DEF AdvInv, AdvTypes
      <4> QED
        BY <4>2, <4>3, AdvTakeKeeps
    <3> QED
      BY <3>1, <3>2
  <2>3. CASE A!Finish(w)
    BY <2>3, AdvFinishKeeps
  <2> QED
    BY <1>1, <2>1, <2>2, <2>3 DEF A!Loop
<1>2. ASSUME NEW w \in Workers, NEW q \in A!Queues, A!Steal(w, q)
      PROVE  AdvInv'
  <2>1. /\ pc[w] = "steal" /\ A!Take(w, q) /\ queue[q] # {}
        /\ victims' = [victims EXCEPT ![w] = {}]
        /\ UNCHANGED <<main, time, call, counter, id, done>>
    BY <1>2 DEF A!Steal
  <2>2. victims' \in [Workers -> SUBSET A!Queues]
    BY <2>1 DEF AdvInv, AdvTypes
  <2> QED
    BY <2>1, <2>2, AdvTakeKeeps
<1>3. CASE \/ \E th \in A!Threads : A!Compare(th) \/ A!Push(th)
           \/ \E th \in A!Threads, t \in Funcs : A!Schedule(th, t)
  BY <1>3, AdvCompareKeeps, AdvPushKeeps, AdvScheduleKeeps
<1>4. CASE \/ A!Start \/ A!SetFlag \/ A!Join \/ A!ForeignDraw \/ UNCHANGED A!vars
           \/ \E th \in A!Threads : A!PushOnBase(th)
           \/ \E th \in A!Threads, t \in Conts : A!ScheduleOnBase(th, t)
  BY <1>4, AdvOthersKeep
<1> QED
  BY <1>1, <1>2, <1>3, <1>4 DEF A!Next

(* The inductive invariant of Advanced.                                    *)
THEOREM AdvInvariance == AdvAssumed /\ A!SafeSpec => []AdvInv
<1>1. AdvAssumed /\ A!Init => AdvInv
  BY AdvInitInv
<1>2. AdvInv /\ [A!Next]_(A!vars) => AdvInv'
  BY AdvNextInv
<1> QED
  BY <1>1, <1>2, PTL DEF A!SafeSpec

(* A set in which any two elements are equal counts one, or none if empty. *)
LEMMA CountOfOne ==
  ASSUME NEW S, \A x, y \in S : x = y
  PROVE  Cardinality(S) = IF S = {} THEN 0 ELSE 1
<1>1. CASE S = {}
  BY <1>1, FS_EmptySet
<1>2. CASE S # {}
  <2>1. PICK x \in S : TRUE
    BY <1>2
  <2>2. S = {x}
    BY <2>1
  <2> QED
    BY <1>2, <2>2, FS_Singleton
<1> QED
  BY <1>1, <1>2

(* However submissions, owners and thieves interleave, a task that was     *)
(* submitted is in one place, and only such a task is anywhere.            *)
THEOREM AdvSingleTaker == AdvAssumed /\ A!SafeSpec => []A!InOnePlace
<1>1. AdvInv => A!InOnePlace
  <2> SUFFICES ASSUME AdvInv, NEW t \in Funcs
               PROVE  Cardinality({th \in A!Threads : call[th].task = t})
                        + Cardinality({q \in A!Queues : t \in queue[q]})
                        + Cardinality({w \in Workers : cur[w] = t})
                        + (IF t \in done THEN 1 ELSE 0)
                      = IF t \in A!Begun THEN 1 ELSE 0
    BY SameCount DEF A!InOnePlace
  <2> DEFINE C == {th \in A!Threads : call[th].task = t}
             Q == {q \in A!Queues : t \in queue[q]}
             R == {w \in Workers : cur[w] = t}
  <2>1. /\ \A x, y \in C : x = y
        /\ \A x, y \in Q : x = y
        /\ \A x, y \in R : x = y
    BY AdvConstants DEF AdvInv, AdvOnce
  <2>2. /\ C # {} <=> t \in AdvInCall
        /\ Q # {} <=> t \in A!Queued
        /\ R # {} <=> t \in AdvRunning
    BY DEF AdvInCall, A!Queued, AdvRunning
  <2>3. /\ Cardinality(C) = IF t \in AdvInCall THEN 1 ELSE 0
        /\ Cardinality(Q) = IF t \in A!Queued THEN 1 ELSE 0
        /\ Cardinality(R) = IF t \in AdvRunning THEN 1 ELSE 0
    <3> HIDE DEF C, Q, R
    <3>1. /\ Cardinality(C) = IF C = {} THEN 0 ELSE 1
          /\ Cardinality(Q) = IF Q = {} THEN 0 ELSE 1
          /\ Cardinality(R) = IF R = {} THEN 0 ELSE 1
      BY <2>1, CountOfOne
    <3> QED
      BY <2>2, <3>1
  <2> HIDE DEF C, Q, R
  <2>4. Cardinality(C) + Cardinality(Q) + Cardinality(R)
          + (IF t \in done THEN 1 ELSE 0) = IF t \in A!Begun THEN 1 ELSE 0
    BY <2>3 DEF AdvInv, AdvSomewhere
  <2> QED
    BY <2>4 DEF C, Q, R
<1> QED
  BY <1>1, AdvInvariance, PTL
-----------------------------------------------------------------------------
(* What this class promises of a TaskPool                                  *)

(* What the workers have in hand, as a set of either form.                 *)
LEMMA AdvSameRunning == AdvInv => A!Running = AdvRunning
BY AdvConstants DEF AdvInv, AdvTypes, A!Running, AdvRunning

(* Neither the owner nor other schedulers nor the base class touch a task: *)
(* the pool is launched, is closed, or does not notice.                    *)
LEMMA AdvOthersImplement ==
  ASSUME AdvInv,
         \/ A!Start \/ A!SetFlag \/ A!Join \/ A!ForeignDraw \/ UNCHANGED A!vars
         \/ \E th \in A!Threads : A!PushOnBase(th)
         \/ \E th \in A!Threads, t \in Conts : A!ScheduleOnBase(th, t)
  PROVE  [A!Pool!Next]_(A!Pool!poolVars)
<1>1. UNCHANGED <<queue, cur, done>>
  BY DEF A!Start, A!SetFlag, A!Join, A!ForeignDraw, A!ScheduleOnBase, A!PushOnBase,
         A!workerVars, A!vars
<1>2. A!Queued' = A!Queued /\ A!Running' = A!Running
  BY <1>1 DEF A!Queued, A!Running
<1>3. CASE A!Start
  <2>1. main = "new" /\ main' = "serving" /\ stop' = stop
    BY <1>3 DEF A!Start
  <2>2. CASE stop
    BY <1>1, <1>2, <2>1, <2>2 DEF A!Pool!poolVars
  <2>3. CASE ~stop
    BY <1>1, <1>2, <2>1, <2>3 DEF A!Pool!Launch, A!Pool!Next
  <2> QED
    BY <2>2, <2>3
<1>4. CASE A!SetFlag
  <2>1. stop'
    BY <1>4 DEF A!SetFlag
  <2>2. CASE stop
    BY <1>1, <1>2, <2>1, <2>2 DEF A!Pool!poolVars
  <2>3. CASE ~stop
    BY <1>1, <1>2, <2>1, <2>3 DEF A!Pool!Close, A!Pool!Next
  <2> QED
    BY <2>2, <2>3
<1>5. CASE \/ A!Join \/ A!ForeignDraw \/ UNCHANGED A!vars
           \/ \E th \in A!Threads : A!PushOnBase(th)
           \/ \E th \in A!Threads, t \in Conts : A!ScheduleOnBase(th, t)
  <2>1. stop' = stop /\ (main = "new" <=> main' = "new")
    BY <1>5 DEF A!Join, A!ForeignDraw, A!ScheduleOnBase, A!PushOnBase,
                A!workerVars, A!vars
  <2> QED
    BY <1>1, <1>2, <2>1 DEF A!Pool!poolVars
<1> QED
  BY <1>3, <1>4, <1>5

(* A task is accepted when it is pushed to a queue.                        *)
LEMMA AdvSubmitImplements ==
  ASSUME AdvInv, NEW th \in A!Threads,
         A!Compare(th) \/ A!Push(th) \/ \E t \in Funcs : A!Schedule(th, t)
  PROVE  [A!Pool!Next]_(A!Pool!poolVars)
<1>1. UNCHANGED <<main, stop, cur, done>>
  BY DEF A!Compare, A!Push, A!Schedule, A!workerVars
<1>2. A!Running' = A!Running
  BY <1>1 DEF A!Running
<1>3. CASE A!Compare(th) \/ \E t \in Funcs : A!Schedule(th, t)
  <2>1. A!Queued' = A!Queued
    BY <1>3 DEF A!Compare, A!Schedule, A!Queued
  <2> QED
    BY <1>1, <1>2, <2>1 DEF A!Pool!poolVars
<1>4. CASE A!Push(th)
  <2>1. call[th] # A!NoCall
    BY <1>4 DEF A!Push
  <2>2. PICK q \in A!Queues, t \in Funcs : q = call[th].least /\ t = call[th].task
    BY <2>1 DEF AdvInv, AdvTypes
  <2>3. queue' = [queue EXCEPT ![q] = queue[q] \cup {t}]
    BY <1>4, <2>2 DEF A!Push
  <2>4. A!Queued' = A!Queued \cup {t}
    BY <2>3 DEF A!Queued, AdvInv, AdvTypes
  <2>5. t \in AdvInCall
    BY <2>2 DEF AdvInCall
  <2>6. t \notin A!Pool!Known
    BY <2>5, AdvSameRunning DEF A!Pool!Known, AdvInv, AdvSomewhere
  <2>7. A!Pool!Accept(t)
    BY <1>1, <1>2, <2>4, <2>6 DEF A!Pool!Accept
  <2> QED
    BY <2>7 DEF A!Pool!Next
<1> QED
  BY <1>3, <1>4

(* An owner or a thief begins a queued task.                               *)
LEMMA AdvTakeImplements ==
  ASSUME AdvInv, NEW w \in Workers, NEW q \in A!Queues, queue[q] # {},
         pc[w] \in {"own", "steal"}, A!Take(w, q),
         UNCHANGED <<main, stop, done>>
  PROVE  A!Pool!Next
<1>1. PICK t \in queue[q] : t = A!Top(q)
  BY AdvTopIsThere
<1>2. /\ cur' = [cur EXCEPT ![w] = t]
      /\ queue' = [queue EXCEPT ![q] = queue[q] \ {t}]
  BY <1>1 DEF A!Take
<1>3. /\ t \in Funcs /\ t # None /\ t \in A!Queued
      /\ cur[w] = None /\ main # "new"
  BY <1>1, AdvConstants DEF AdvInv, AdvTypes, A!Queued
<1>4. /\ cur'[w] = t /\ \A v \in Workers \ {w} : cur'[v] = cur[v]
      /\ queue'[q] = queue[q] \ {t}
      /\ \A p \in A!Queues \ {q} : queue'[p] = queue[p] /\ t \notin queue[p]
  BY <1>1, <1>2 DEF AdvInv, AdvTypes, AdvOnce
<1>5. A!Running' = A!Running \cup {t}
  BY <1>3, <1>4 DEF A!Running
<1>6. A!Queued' = A!Queued \ {t}
  BY <1>4 DEF A!Queued
<1>7. A!Pool!Begin(t)
  BY <1>3, <1>5, <1>6 DEF A!Pool!Begin
<1> QED
  BY <1>3, <1>7 DEF A!Pool!Next

(* The other steps of a worker end a task or move none.                    *)
LEMMA AdvLoopImplements ==
  ASSUME AdvInv, NEW w \in Workers,
         A!Loop(w) \/ \E q \in A!Queues : A!Steal(w, q)
  PROVE  [A!Pool!Next]_(A!Pool!poolVars)
<1>1. UNCHANGED <<main, stop>>
  BY DEF A!Loop, A!Steal, A!GetThreadId, A!TestFlag, A!PopOwn, A!GiveUp, A!Finish
<1>2. ASSUME UNCHANGED <<queue, cur, done>> PROVE UNCHANGED A!Pool!poolVars
  BY <1>1, <1>2 DEF A!Pool!poolVars, A!Queued, A!Running
<1>3. CASE A!GetThreadId(w) \/ A!TestFlag(w) \/ A!GiveUp(w)
  BY <1>2, <1>3 DEF A!GetThreadId, A!TestFlag, A!GiveUp
<1>4. CASE A!PopOwn(w)
  <2>1. CASE queue[id[w]] = {}
    BY <1>2, <1>4, <2>1 DEF A!PopOwn
  <2>2. CASE queue[id[w]] # {}
    <3>1. PICK q \in A!Queues : q = id[w]
      BY DEF AdvInv, AdvTypes
    <3>2. pc[w] = "own" /\ A!Take(w, q) /\ queue[q] # {} /\ done' = done
      BY <1>4, <2>2, <3>1 DEF A!PopOwn
    <3> QED
      BY <1>1, <3>2, AdvTakeImplements
  <2> QED
    BY <2>1, <2>2
<1>5. CASE \E q \in A!Queues : A!Steal(w, q)
  <2>1. PICK q \in A!Queues : A!Steal(w, q)
    BY <1>5
  <2>2. pc[w] = "steal" /\ A!Take(w, q) /\ queue[q] # {} /\ done' = done
    BY <2>1 DEF A!Steal
  <2> QED
    BY <1>1, <2>2, AdvTakeImplements
<1>6. CASE A!Finish(w)
  <2>1. /\ pc[w] = "run" /\ done' = done \cup {cur[w]} /\ queue' = queue
        /\ cur' = [cur EXCEPT ![w] = None]
    BY <1>6 DEF A!Finish
  <2>2. PICK t \in Funcs : t = cur[w] /\ t # None
    BY <2>1, AdvConstants DEF AdvInv, AdvTypes
  <2>3. /\ cur'[w] = None
        /\ \A v \in Workers \ {w} : cur'[v] = cur[v] /\ cur[v] # t
    BY <2>1, <2>2 DEF AdvInv, AdvTypes, AdvOnce
  <2>4. t \in A!Running /\ A!Running' = A!Running \ {t} /\ A!Queued' = A!Queued
    BY <2>1, <2>2, <2>3 DEF A!Running, A!Queued
  <2>5. A!Pool!Finish(t)
    BY <1>1, <2>1, <2>2, <2>4 DEF A!Pool!Finish
  <2> QED
    BY <2>5 DEF A!Pool!Next
<1> QED
  BY <1>3, <1>4, <1>5, <1>6 DEF A!Loop

(* Seen from outside, an AdvancedScheduler is a TaskPool that does not     *)
(* drain and never refuses or discards: whatever id a worker draws, a task *)
(* that was pushed is started once, by one worker, and stays until then.   *)
THEOREM AdvRefinement == AdvAssumed /\ A!SafeSpec => A!PoolSafe
<1>1. AdvAssumed /\ A!Init => A!Pool!Init
  <2> SUFFICES ASSUME AdvAssumed, A!Init PROVE A!Pool!Init
    OBVIOUS
  <2>1. A!Queued = {} /\ A!Running = {}
    BY DEF A!Init, A!Queued, A!Running
  <2> QED
    BY <2>1 DEF A!Init, A!Pool!Init
<1>2. AdvInv /\ [A!Next]_(A!vars) => [A!Pool!Next]_(A!Pool!poolVars)
  <2> SUFFICES ASSUME AdvInv, [A!Next]_(A!vars)
               PROVE  [A!Pool!Next]_(A!Pool!poolVars)
    OBVIOUS
  <2>1. CASE \E w \in Workers : A!Loop(w) \/ \E q \in A!Queues : A!Steal(w, q)
    BY <2>1, AdvLoopImplements
  <2>2. CASE \/ \E th \in A!Threads : A!Compare(th) \/ A!Push(th)
             \/ \E th \in A!Threads, t \in Funcs : A!Schedule(th, t)
    BY <2>2, AdvSubmitImplements
  <2>3. CASE \/ A!Start \/ A!SetFlag \/ A!Join \/ A!ForeignDraw \/ UNCHANGED A!vars
             \/ \E th \in A!Threads : A!PushOnBase(th)
             \/ \E th \in A!Threads, t \in Conts : A!ScheduleOnBase(th, t)
    BY <2>3, AdvOthersImplement
  <2> QED
    BY <2>1, <2>2, <2>3 DEF A!Next
<1> QED
  BY <1>1, <1>2, AdvInvariance, PTL DEF A!SafeSpec, A!PoolSafe, A!Pool!SafeSpec
=============================================================================
