-------------------------- MODULE CoroutineProofs --------------------------
(***************************************************************************)
(* What holds of Coroutine for any number of coroutines: who resumes each, *)
(* what a resumed one finds, and what graceful_shutdown() may say.         *)
(***************************************************************************)
EXTENDS Coroutine, FiniteSetTheorems, TLAPS

(* The final awaiters that have c to resume.                               *)
Awaiters(c) == {d \in Coros : continuation[d] = c /\ pc[d] # "done"}

(* Holders without its sum: nobody has c, or exactly one has.              *)
NoHolder(c) == posted[c] = 0 /\ c \notin external /\ Awaiters(c) = {}

OneHolder(c) ==
  \/ posted[c] = 1 /\ c \notin external /\ Awaiters(c) = {}
  \/ posted[c] = 0 /\ c \in external /\ Awaiters(c) = {}
  \/ posted[c] = 0 /\ c \notin external /\ \E d \in Coros : Awaiters(c) = {d}

Waits(c) == pc[c] = "suspended" /\ c \notin refused

Places ==
  \A c \in Coros : /\ Waits(c) => OneHolder(c)
                   /\ ~Waits(c) => NoHolder(c)

(* A coroutine whose resumption was dropped stays suspended.               *)
Refusals == \A c \in refused : pc[c] = "suspended"

(* A Task has a continuation once it is awaited, and then the awaiter's.   *)
Links ==
  /\ \A c \in Coros :
       pc[c] \in {"unborn", "registering", "created"} => continuation[c] = None
  /\ \A p, c \in Coros : awaited[p] = c => continuation[c] = p

(* TypeOK without the bounds that follow from the rest.                    *)
Types ==
  /\ pc \in [Coros -> {"unborn", "registering", "created", "suspended",
                       "running", "leaving", "returning", "final", "done"}]
  /\ owner \in [Coros -> Coros \cup {None}]
  /\ schedulerPtr \in [Coros -> BOOLEAN]
  /\ continuation \in [Coros -> Coros \cup {None}]
  /\ onScheduler \in [Coros -> BOOLEAN]
  /\ posted \in [Coros -> Nat] /\ inQueue \subseteq Coros
  /\ external \subseteq Coros /\ refused \subseteq Coros
  /\ awaited \in [Coros -> Coros \cup {None}]
  /\ stopped \in BOOLEAN
  /\ registry \subseteq Coros /\ infos \subseteq Coros
  /\ created \in Nat /\ ended \in Nat
  /\ shutdown \in {"waiting", "forcing", "true", "false"}
  /\ doomed \subseteq Coros /\ destroyed \subseteq Coros
  /\ waits \in 0 .. MaxWaits

HoldInv == Types /\ Places /\ Refusals /\ Links

-----------------------------------------------------------------------------
(* The sum Holders                                                         *)

(* The sum is zero when nobody has c and one when exactly one has.         *)
LEMMA HoldersCount ==
  ASSUME Types, NEW c \in Coros
  PROVE  /\ NoHolder(c) => Holders(c) = 0
         /\ OneHolder(c) => Holders(c) = 1
<1>1. Holders(c) = posted[c] + (IF c \in external THEN 1 ELSE 0)
                     + Cardinality(Awaiters(c))
  BY DEF Holders, Awaiters
<1>2. Cardinality({}) = 0
  BY FS_EmptySet
<1>3. \A d \in Coros : Cardinality({d}) = 1
  BY FS_Singleton
<1>4. CASE Awaiters(c) = {}
  BY <1>1, <1>2, <1>4 DEF NoHolder, OneHolder
<1>5. CASE Awaiters(c) # {}
  <2>1. ~NoHolder(c)
    BY <1>5 DEF NoHolder
  <2>2. OneHolder(c) => posted[c] = 0 /\ c \notin external
                         /\ Cardinality(Awaiters(c)) = 1
    BY <1>3, <1>5 DEF OneHolder
  <2> QED
    BY <1>1, <2>1, <2>2
<1> QED
  BY <1>4, <1>5

(* Places says what HeldOnce says.                                         *)
LEMMA PlacesHeldOnce == Types /\ Places => HeldOnce
<1> SUFFICES ASSUME Types, Places, NEW c \in Coros
             PROVE  Holders(c) = IF pc[c] = "suspended" /\ c \notin refused
                                   THEN 1 ELSE 0
  BY DEF HeldOnce
<1> QED
  BY HoldersCount DEF Places, Waits

(* A coroutine keeps its holder if nothing that counts for it changes.     *)
LEMMA HolderKept ==
  ASSUME NEW c \in Coros, Places,
         posted'[c] = posted[c], c \in external' <=> c \in external,
         Awaiters(c)' = Awaiters(c), Waits(c)' <=> Waits(c)
  PROVE  /\ Waits(c)' => OneHolder(c)'
         /\ ~Waits(c)' => NoHolder(c)'
<1>1. /\ NoHolder(c)' <=> NoHolder(c)
      /\ OneHolder(c)' <=> OneHolder(c)
  BY DEF NoHolder, OneHolder
<1> QED
  BY <1>1 DEF Places

(* Who holds what is as before when the places are.                        *)
LEMMA PlacesUnchanged ==
  ASSUME Places, UNCHANGED <<posted, external, refused, continuation>>,
         \A c \in Coros : /\ pc'[c] = "suspended" <=> pc[c] = "suspended"
                          /\ pc'[c] = "done" <=> pc[c] = "done"
  PROVE  Places'
<1> SUFFICES ASSUME NEW c \in Coros
             PROVE  /\ Waits(c)' => OneHolder(c)'
                    /\ ~Waits(c)' => NoHolder(c)'
  BY DEF Places
<1>1. Awaiters(c)' = Awaiters(c)
  BY DEF Awaiters
<1>2. Waits(c)' <=> Waits(c)
  BY DEF Waits
<1> QED
  BY <1>1, <1>2, HolderKept

-----------------------------------------------------------------------------
(* Every step keeps HoldInv                                                *)

(* In the initial state nobody waits and nobody is held.                   *)
LEMMA InitHoldInv == Init => HoldInv
<1> SUFFICES ASSUME Init PROVE HoldInv
  OBVIOUS
<1>1. Types
  <2>1. waits \in 0 .. MaxWaits
    BY CoroutineAssumption DEF Init
  <2> QED
    BY <2>1 DEF Init, Types
<1>2. Places
  BY CoroutineAssumption DEF Init, Places, Waits, NoHolder, Awaiters
<1>3. Refusals /\ Links
  BY CoroutineAssumption DEF Init, Refusals, Links
<1> QED
  BY <1>1, <1>2, <1>3 DEF HoldInv

(* Creation: a coroutine that has not begun is in no place.                *)
LEMMA CreationHoldInv ==
  ASSUME HoldInv, NEW c \in Coros, NEW p \in Coros \cup {None},
         Create(p, c) \/ RegisterInfo(c)
  PROVE  HoldInv'
<1>1. Types /\ Places /\ Refusals /\ Links
  BY DEF HoldInv
<1>2. Types'
  <2>1. CASE Create(p, c)
    BY <1>1, <2>1 DEF Types, Create, runVars, cleanupVars
  <2>2. CASE RegisterInfo(c)
    BY <1>1, <2>2 DEF Types, RegisterInfo, promiseVars, runVars, cleanupVars
  <2> QED
    BY <2>1, <2>2
<1>3. /\ UNCHANGED <<posted, external, refused, continuation, awaited, stopped>>
      /\ pc[c] \in {"unborn", "registering"}
      /\ pc'[c] \in {"registering", "created"}
      /\ \A d \in Coros \ {c} : pc'[d] = pc[d]
  BY <1>1 DEF Types, Create, RegisterInfo, runVars, promiseVars
<1>4. Places'
  BY <1>1, <1>3, PlacesUnchanged
<1>5. Refusals' /\ Links'
  BY <1>1, <1>3 DEF Refusals, Links, Types
<1> QED
  BY <1>2, <1>4, <1>5 DEF HoldInv

(* A coroutine in no place is posted, ...                                  *)
LEMMA AcceptHolds ==
  ASSUME NEW c \in Coros, NEW s \in BOOLEAN, Types, Accept(c, s),
         c \notin refused, posted[c] = 0,
         c \notin external', Awaiters(c)' = {}, pc'[c] = "suspended"
  PROVE  /\ Waits(c)' /\ OneHolder(c)'
         /\ refused' = refused
         /\ \A d \in Coros \ {c} : posted'[d] = posted[d]
<1>1. posted' = [posted EXCEPT ![c] = posted[c] + 1] /\ refused' = refused
  BY DEF Accept
<1>2. posted'[c] = 1 /\ \A d \in Coros \ {c} : posted'[d] = posted[d]
  BY <1>1 DEF Types
<1>3. OneHolder(c)'
  BY <1>2 DEF OneHolder
<1>4. Waits(c)'
  BY <1>1 DEF Waits
<1> QED
  BY <1>1, <1>2, <1>3, <1>4

(* ... or, if the scheduler drops it, among those that are forgotten.      *)
LEMMA PostHolds ==
  ASSUME NEW c \in Coros, NEW s \in BOOLEAN, Types, Post(c, s),
         c \notin refused, posted[c] = 0,
         c \notin external', Awaiters(c)' = {}, pc'[c] = "suspended"
  PROVE  /\ Waits(c)' => OneHolder(c)'
         /\ ~Waits(c)' => NoHolder(c)'
         /\ refused \subseteq refused' /\ refused' \subseteq refused \cup {c}
         /\ \A d \in Coros \ {c} : posted'[d] = posted[d]
<1>1. CASE Drop(c)
  <2>1. posted' = posted /\ refused' = refused \cup {c}
    BY <1>1 DEF Drop
  <2>2. NoHolder(c)' /\ ~Waits(c)'
    BY <2>1 DEF NoHolder, Waits
  <2> QED
    BY <2>1, <2>2
<1>2. CASE Accept(c, s)
  BY <1>2, AcceptHolds
<1> QED
  BY <1>1, <1>2 DEF Post

(* The variables that Accept and Drop write have their types.              *)
LEMMA PostTypes ==
  ASSUME NEW c \in Coros, NEW s \in BOOLEAN, Types, Accept(c, s) \/ Post(c, s)
  PROVE  /\ posted' \in [Coros -> Nat] /\ inQueue' \subseteq Coros
         /\ refused' \subseteq Coros
<1>1. CASE Accept(c, s)
  BY <1>1 DEF Types, Accept
<1>2. CASE Drop(c)
  BY <1>2 DEF Types, Drop
<1> QED
  BY <1>1, <1>2 DEF Post

(* A Task begins: by Scheduler::schedule, or because it is awaited.        *)
LEMMA ScheduleHoldInv ==
  ASSUME HoldInv, NEW c \in Coros, Schedule(c)
  PROVE  HoldInv'
<1>1. Types /\ Places /\ Refusals /\ Links
  BY DEF HoldInv
<1>2. Types'
  <2>1. /\ posted' \in [Coros -> Nat] /\ inQueue' \subseteq Coros
        /\ refused' \subseteq Coros
    BY <1>1, PostTypes DEF Schedule
  <2> QED
    BY <1>1, <2>1 DEF Types, Schedule, promiseVars, registryVars, cleanupVars
<1>3. /\ UNCHANGED <<external, continuation, awaited, stopped>>
      /\ pc[c] = "created" /\ pc'[c] = "suspended" /\ Accept(c, TRUE)
      /\ \A d \in Coros \ {c} : pc'[d] = pc[d]
  BY <1>1 DEF Types, Schedule, promiseVars
<1>4. NoHolder(c) /\ c \notin refused
  BY <1>1, <1>3 DEF Places, Waits, Refusals
<1>5. \A d \in Coros : Awaiters(d)' = Awaiters(d)
  BY <1>3 DEF Awaiters
<1>6. /\ Waits(c)' /\ OneHolder(c)'
      /\ refused' = refused
      /\ \A d \in Coros \ {c} : posted'[d] = posted[d]
  BY <1>1, <1>3, <1>4, <1>5, AcceptHolds DEF NoHolder
<1>7. Places'
  <2> SUFFICES ASSUME NEW d \in Coros, d # c
               PROVE  /\ Waits(d)' => OneHolder(d)'
                      /\ ~Waits(d)' => NoHolder(d)'
    BY <1>6 DEF Places
  <2>1. Waits(d)' <=> Waits(d)
    BY <1>3, <1>6 DEF Waits
  <2> QED
    BY <1>1, <1>3, <1>5, <1>6, <2>1, HolderKept
<1>8. Refusals' /\ Links'
  BY <1>1, <1>3, <1>6 DEF Refusals, Links, Types
<1> QED
  BY <1>2, <1>7, <1>8 DEF HoldInv

(* co_await of a Task: its final awaiter is what the awaiting one is in.   *)
LEMMA AwaitHoldInv ==
  ASSUME HoldInv, NEW c \in Coros, NEW p \in Coros, Await(p, c)
  PROVE  HoldInv'
<1>1. Types /\ Places /\ Refusals /\ Links
  BY DEF HoldInv
<1>2. Types'
  <2>1. /\ posted' \in [Coros -> Nat] /\ inQueue' \subseteq Coros
        /\ refused' \subseteq Coros
    <3>1. onScheduler[p] \in BOOLEAN
      BY <1>1 DEF Types
    <3> QED
      BY <1>1, <3>1, PostTypes DEF Await
  <2>2. /\ schedulerPtr' \in [Coros -> BOOLEAN]
        /\ onScheduler' \in [Coros -> BOOLEAN]
    BY <1>1 DEF Types, Await
  <2>3. /\ pc' \in [Coros -> {"unborn", "registering", "created", "suspended",
                              "running", "leaving", "returning", "final",
                              "done"}]
        /\ continuation' \in [Coros -> Coros \cup {None}]
        /\ awaited' \in [Coros -> Coros \cup {None}]
    BY <1>1 DEF Types, Await
  <2> QED
    BY <1>1, <2>1, <2>2, <2>3 DEF Types, Await, registryVars, cleanupVars
<1>3. /\ UNCHANGED <<external, stopped>>
      /\ pc[c] = "created" /\ pc[p] = "running" /\ c # p
      /\ pc'[c] = "suspended" /\ pc'[p] = "suspended"
      /\ continuation'[c] = p /\ awaited'[p] = c
      /\ Post(c, onScheduler[p]) /\ onScheduler[p] \in BOOLEAN
      /\ \A d \in Coros \ {c} : continuation'[d] = continuation[d]
      /\ \A d \in Coros \ {p} : awaited'[d] = awaited[d]
      /\ \A d \in Coros \ {c, p} : pc'[d] = pc[d]
  BY <1>1 DEF Types, Await, InBody
<1>4. /\ NoHolder(c) /\ c \notin refused
      /\ NoHolder(p) /\ p \notin refused
      /\ continuation[c] = None /\ None \notin Coros
  BY <1>1, <1>3, CoroutineAssumption DEF Places, Waits, Refusals, Links
<1>5. /\ Awaiters(p)' = {c}
      /\ \A d \in Coros \ {p} : Awaiters(d)' = Awaiters(d)
  <2>1. Awaiters(p) = {}
    BY <1>4 DEF NoHolder
  <2>2. \A d \in Coros \ {c} : pc'[d] = "done" <=> pc[d] = "done"
    BY <1>3
  <2>3. Awaiters(p)' = {c}
    BY <1>3, <2>1, <2>2 DEF Awaiters
  <2>4. \A d \in Coros \ {p} : Awaiters(d)' = Awaiters(d)
    BY <1>3, <1>4, <2>2 DEF Awaiters
  <2> QED
    BY <2>3, <2>4
<1>6. /\ Waits(c)' => OneHolder(c)'
      /\ ~Waits(c)' => NoHolder(c)'
      /\ refused \subseteq refused' /\ refused' \subseteq refused \cup {c}
      /\ \A d \in Coros \ {c} : posted'[d] = posted[d]
  <2>1. Awaiters(c)' = {}
    BY <1>3, <1>4, <1>5 DEF NoHolder
  <2> QED
    BY <1>1, <1>3, <1>4, <2>1, PostHolds DEF NoHolder
<1>7. Places'
  <2>1. Waits(p)' /\ OneHolder(p)'
    <3>1. Waits(p)'
      BY <1>3, <1>4, <1>6 DEF Waits
    <3>2. posted'[p] = 0 /\ p \notin external'
      BY <1>3, <1>4, <1>6 DEF NoHolder
    <3> QED
      BY <1>5, <3>1, <3>2 DEF OneHolder
  <2>2. SUFFICES ASSUME NEW d \in Coros, d # c, d # p
                 PROVE  /\ Waits(d)' => OneHolder(d)'
                        /\ ~Waits(d)' => NoHolder(d)'
    BY <1>6, <2>1 DEF Places
  <2>3. Waits(d)' <=> Waits(d)
    BY <1>3, <1>6, <2>2 DEF Waits
  <2> QED
    BY <1>1, <1>3, <1>5, <1>6, <2>2, <2>3, HolderKept
<1>8. Refusals'
  BY <1>1, <1>2, <1>3, <1>4, <1>6 DEF Refusals, Types
<1>9. Links'
  <2>1. \A d \in Coros : awaited[d] # c
    BY <1>1, <1>4 DEF Links
  <2> QED
    BY <1>1, <1>3, <2>1 DEF Links, Types
<1> QED
  BY <1>2, <1>7, <1>8, <1>9 DEF HoldInv

(* A coroutine that waits for something else is held there, ...            *)
LEMMA WaitElsewhereHoldInv ==
  ASSUME HoldInv, NEW c \in Coros, WaitElsewhere(c)
  PROVE  HoldInv'
<1>1. Types /\ Places /\ Refusals /\ Links
  BY DEF HoldInv
<1>2. Types'
  <2>1. waits' \in 0 .. MaxWaits
    BY <1>1, CoroutineAssumption DEF Types, WaitElsewhere
  <2> QED
    BY <1>1, <2>1 DEF Types, WaitElsewhere, promiseVars, registryVars, cleanupVars
<1>3. /\ UNCHANGED <<posted, refused, continuation, awaited, stopped>>
      /\ pc[c] = "running" /\ pc'[c] = "suspended"
      /\ external' = external \cup {c}
      /\ \A d \in Coros \ {c} : pc'[d] = pc[d]
  BY <1>1 DEF Types, WaitElsewhere, InBody, promiseVars
<1>4. NoHolder(c) /\ c \notin refused
  BY <1>1, <1>3 DEF Places, Waits, Refusals
<1>5. \A d \in Coros : Awaiters(d)' = Awaiters(d)
  BY <1>3 DEF Awaiters
<1>6. OneHolder(c)' /\ Waits(c)'
  BY <1>3, <1>4, <1>5 DEF NoHolder, OneHolder, Waits
<1>7. Places'
  <2> SUFFICES ASSUME NEW d \in Coros, d # c
               PROVE  /\ Waits(d)' => OneHolder(d)'
                      /\ ~Waits(d)' => NoHolder(d)'
    BY <1>6 DEF Places
  <2>1. Waits(d)' <=> Waits(d)
    BY <1>3 DEF Waits
  <2> QED
    BY <1>1, <1>3, <1>5, <2>1, HolderKept
<1>8. Refusals' /\ Links'
  BY <1>1, <1>3, <1>4 DEF Refusals, Links, Types
<1> QED
  BY <1>2, <1>7, <1>8 DEF HoldInv

(* ... and no longer once it is posted; ...                                *)
LEMMA ExternalDoneHoldInv ==
  ASSUME HoldInv, NEW c \in Coros, ExternalDone(c)
  PROVE  HoldInv'
<1>1. Types /\ Places /\ Refusals /\ Links
  BY DEF HoldInv
<1>2. PICK s \in BOOLEAN, r \in BOOLEAN :
        onScheduler' = [onScheduler EXCEPT ![c] = r] /\ Post(c, s)
  BY DEF ExternalDone
<1>3. Types'
  <2>1. /\ posted' \in [Coros -> Nat] /\ inQueue' \subseteq Coros
        /\ refused' \subseteq Coros
    BY <1>1, <1>2, PostTypes
  <2>2. onScheduler' \in [Coros -> BOOLEAN]
    BY <1>1, <1>2 DEF Types
  <2> QED
    BY <1>1, <2>1, <2>2 DEF Types, ExternalDone, promiseVars, registryVars,
                            cleanupVars
<1>4. /\ UNCHANGED <<pc, continuation, awaited, stopped>>
      /\ c \in external /\ external' = external \ {c}
  BY DEF ExternalDone, promiseVars
<1>5. /\ Waits(c) /\ posted[c] = 0 /\ Awaiters(c) = {}
  BY <1>1, <1>4 DEF Places, NoHolder, OneHolder
<1>6. \A d \in Coros : Awaiters(d)' = Awaiters(d)
  BY <1>4 DEF Awaiters
<1>7. /\ Waits(c)' => OneHolder(c)'
      /\ ~Waits(c)' => NoHolder(c)'
      /\ refused \subseteq refused' /\ refused' \subseteq refused \cup {c}
      /\ \A d \in Coros \ {c} : posted'[d] = posted[d]
  <2>1. c \notin refused /\ pc'[c] = "suspended"
    BY <1>4, <1>5 DEF Waits
  <2>2. c \notin external' /\ Awaiters(c)' = {}
    BY <1>4, <1>5, <1>6
  <2> QED
    BY <1>1, <1>2, <1>5, <2>1, <2>2, PostHolds
<1>8. Places'
  <2> SUFFICES ASSUME NEW d \in Coros, d # c
               PROVE  /\ Waits(d)' => OneHolder(d)'
                      /\ ~Waits(d)' => NoHolder(d)'
    BY <1>7 DEF Places
  <2>1. Waits(d)' <=> Waits(d)
    BY <1>4, <1>7 DEF Waits
  <2> QED
    BY <1>1, <1>4, <1>6, <1>7, <2>1, HolderKept
<1>9. Refusals' /\ Links'
  BY <1>1, <1>4, <1>5, <1>7 DEF Refusals, Links, Waits
<1> QED
  BY <1>3, <1>8, <1>9 DEF HoldInv

(* ... the function that is called has it no longer either.                *)
LEMMA ResumeHoldInv ==
  ASSUME HoldInv, NEW c \in Coros, Resume(c)
  PROVE  HoldInv'
<1>1. Types /\ Places /\ Refusals /\ Links
  BY DEF HoldInv
<1>2. /\ UNCHANGED <<external, refused, continuation, stopped>>
      /\ pc[c] = "suspended" /\ pc'[c] = "running"
      /\ posted[c] > 0 /\ posted'[c] = posted[c] - 1
      /\ awaited'[c] = None
      /\ \A d \in Coros \ {c} :
           pc'[d] = pc[d] /\ posted'[d] = posted[d] /\ awaited'[d] = awaited[d]
  BY <1>1 DEF Types, Resume, promiseVars
<1>3. posted[c] = 1 /\ c \notin external /\ Awaiters(c) = {} /\ Waits(c)
  BY <1>1, <1>2 DEF Places, NoHolder, OneHolder
<1>4. Types'
  <2>1. posted' \in [Coros -> Nat]
    BY <1>1, <1>3 DEF Types, Resume
  <2> QED
    BY <1>1, <2>1 DEF Types, Resume, promiseVars, registryVars, cleanupVars
<1>5. \A d \in Coros : Awaiters(d)' = Awaiters(d)
  BY <1>2 DEF Awaiters
<1>6. NoHolder(c)' /\ ~Waits(c)'
  BY <1>2, <1>3, <1>5 DEF NoHolder, Waits
<1>7. Places'
  <2> SUFFICES ASSUME NEW d \in Coros, d # c
               PROVE  /\ Waits(d)' => OneHolder(d)'
                      /\ ~Waits(d)' => NoHolder(d)'
    BY <1>6 DEF Places
  <2>1. Waits(d)' <=> Waits(d)
    BY <1>2 DEF Waits
  <2> QED
    BY <1>1, <1>2, <1>5, <2>1, HolderKept
<1>8. Refusals' /\ Links'
  BY <1>1, <1>2, <1>3, CoroutineAssumption DEF Refusals, Links, Waits, Types
<1> QED
  BY <1>4, <1>7, <1>8 DEF HoldInv

(* A function that is discarded has it no longer, and nobody else has.     *)
LEMMA DiscardHoldInv ==
  ASSUME HoldInv, NEW c \in Coros, Discard(c)
  PROVE  HoldInv'
<1>1. Types /\ Places /\ Refusals /\ Links
  BY DEF HoldInv
<1>2. /\ UNCHANGED <<pc, external, continuation, awaited>>
      /\ refused' = refused \cup {c}
      /\ posted[c] > 0 /\ posted'[c] = posted[c] - 1
      /\ \A d \in Coros \ {c} : posted'[d] = posted[d]
  BY <1>1 DEF Types, Discard, promiseVars
<1>3. posted[c] = 1 /\ c \notin external /\ Awaiters(c) = {} /\ Waits(c)
  BY <1>1, <1>2 DEF Places, NoHolder, OneHolder
<1>4. Types'
  <2>1. posted' \in [Coros -> Nat]
    BY <1>1, <1>3 DEF Types, Discard
  <2> QED
    BY <1>1, <2>1 DEF Types, Discard, promiseVars, registryVars, cleanupVars
<1>5. \A d \in Coros : Awaiters(d)' = Awaiters(d)
  BY <1>2 DEF Awaiters
<1>6. NoHolder(c)' /\ ~Waits(c)'
  BY <1>2, <1>3, <1>5 DEF NoHolder, Waits
<1>7. Places'
  <2> SUFFICES ASSUME NEW d \in Coros, d # c
               PROVE  /\ Waits(d)' => OneHolder(d)'
                      /\ ~Waits(d)' => NoHolder(d)'
    BY <1>6 DEF Places
  <2>1. Waits(d)' <=> Waits(d)
    BY <1>2 DEF Waits
  <2> QED
    BY <1>1, <1>2, <1>5, <2>1, HolderKept
<1>8. Refusals' /\ Links'
  BY <1>1, <1>2, <1>3 DEF Refusals, Links, Waits
<1> QED
  BY <1>4, <1>7, <1>8 DEF HoldInv

(* The steps of final_suspend() hold nobody and release nobody.            *)
LEMMA UnregisterHoldInv ==
  ASSUME HoldInv, NEW c \in Coros,
         Unregister(c) \/ UnregisterInfo(c) \/ FinalSuspend(c)
  PROVE  HoldInv'
<1>1. Types /\ Places /\ Refusals /\ Links
  BY DEF HoldInv
<1>2. Types'
  <2>1. CASE Unregister(c)
    BY <1>1, <2>1 DEF Types, Unregister, promiseVars, runVars, cleanupVars
  <2>2. CASE UnregisterInfo(c)
    BY <1>1, <2>2 DEF Types, UnregisterInfo, promiseVars, runVars, cleanupVars
  <2>3. CASE FinalSuspend(c)
    BY <1>1, <2>3 DEF Types, FinalSuspend, promiseVars, runVars, registryVars,
                      cleanupVars
  <2> QED
    BY <2>1, <2>2, <2>3
<1>3. /\ UNCHANGED <<posted, external, refused, continuation, awaited, stopped>>
      /\ pc[c] \in {"running", "leaving", "returning"}
      /\ pc'[c] \in {"leaving", "returning", "final"}
      /\ \A d \in Coros \ {c} : pc'[d] = pc[d]
  BY <1>1 DEF Types, Unregister, UnregisterInfo, FinalSuspend, InBody, runVars,
              promiseVars
<1>4. Places'
  BY <1>1, <1>3, PlacesUnchanged
<1>5. Refusals' /\ Links'
  BY <1>1, <1>3 DEF Refusals, Links, Types
<1> QED
  BY <1>2, <1>4, <1>5 DEF HoldInv

(* Only the final awaiter has the continuation it is about to resume.      *)
LEMMA AwaiterWaits ==
  ASSUME HoldInv, NEW c \in Coros, NEW p \in Coros,
         continuation[c] = p, pc[c] = "final"
  PROVE  /\ Waits(p) /\ posted[p] = 0 /\ p \notin external
         /\ Awaiters(p) = {c} /\ p # c
<1>1. c \in Awaiters(p)
  BY DEF Awaiters
<1> QED
  BY <1>1 DEF HoldInv, Places, NoHolder, OneHolder, Waits

(* The final awaiter passes its continuation on, or runs it itself.        *)
LEMMA FinalAwaitHoldInv ==
  ASSUME HoldInv, NEW c \in Coros, FinalAwait(c)
  PROVE  HoldInv'
<1>1. Types /\ Places /\ Refusals /\ Links
  BY DEF HoldInv
<1>2. CASE continuation[c] = None
  <2>1. /\ UNCHANGED <<onScheduler, posted, inQueue, refused, awaited,
                        external, continuation, stopped>>
        /\ pc[c] = "final" /\ pc'[c] = "done"
        /\ \A d \in Coros \ {c} : pc'[d] = pc[d]
    BY <1>1, <1>2 DEF FinalAwait, Types, promiseVars
  <2>2. Types'
    BY <1>1, <1>2 DEF Types, FinalAwait, promiseVars, registryVars, cleanupVars
  <2>3. Places'
    <3> SUFFICES ASSUME NEW d \in Coros
                 PROVE  /\ Waits(d)' => OneHolder(d)'
                        /\ ~Waits(d)' => NoHolder(d)'
      BY DEF Places
    <3>1. Awaiters(d)' = Awaiters(d)
      BY <1>2, <2>1, CoroutineAssumption DEF Awaiters
    <3>2. Waits(d)' <=> Waits(d)
      BY <2>1 DEF Waits
    <3> QED
      BY <1>1, <2>1, <3>1, <3>2, HolderKept
  <2>4. Refusals' /\ Links'
    BY <1>1, <2>1 DEF Refusals, Links, Types
  <2> QED
    BY <2>2, <2>3, <2>4 DEF HoldInv
<1>3. CASE continuation[c] # None
  <2>1. PICK p \in Coros : continuation[c] = p
    BY <1>1, <1>3 DEF Types
  <2>2. pc[c] = "final"
    BY DEF FinalAwait
  <2>3. /\ Waits(p) /\ posted[p] = 0 /\ p \notin external
        /\ Awaiters(p) = {c} /\ p # c
    BY <2>1, <2>2, AwaiterWaits
  <2>4. /\ UNCHANGED <<external, continuation, stopped>>
        /\ pc'[c] = "done"
        /\ \A d \in Coros \ {c, p} : pc'[d] = pc[d]
    BY <1>1, <1>3, <2>1 DEF FinalAwait, Types, promiseVars
  <2>5. \/ /\ pc'[p] = "running" /\ UNCHANGED <<posted, inQueue, refused>>
           /\ awaited' = [awaited EXCEPT ![p] = None]
        \/ /\ pc'[p] = pc[p] /\ awaited' = awaited
           /\ Post(p, onScheduler[c])
    BY <1>1, <1>3, <2>1, <2>3 DEF FinalAwait, Types
  <2>6. Types'
    <3>1. /\ posted' \in [Coros -> Nat] /\ inQueue' \subseteq Coros
          /\ refused' \subseteq Coros
      <4>1. onScheduler[c] \in BOOLEAN
        BY <1>1 DEF Types
      <4> QED
        BY <1>1, <2>1, <2>5, <4>1, PostTypes DEF Types
    <3>2. /\ pc' \in [Coros -> {"unborn", "registering", "created",
                        "suspended", "running", "leaving", "returning",
                        "final", "done"}]
          /\ onScheduler' \in [Coros -> BOOLEAN]
      BY <1>1, <1>3, <2>1 DEF Types, FinalAwait
    <3>3. awaited' \in [Coros -> Coros \cup {None}]
      BY <1>1, <2>5 DEF Types
    <3> QED
      BY <1>1, <3>1, <3>2, <3>3 DEF Types, FinalAwait, promiseVars,
                                    registryVars, cleanupVars
  <2>7. /\ Awaiters(p)' = {}
        /\ \A d \in Coros \ {p} : Awaiters(d)' = Awaiters(d)
    <3>1. pc[p] # "done" /\ pc'[p] # "done"
      BY <2>3, <2>5 DEF Waits
    <3>2. \A d \in Coros \ {c} : pc'[d] = "done" <=> pc[d] = "done"
      BY <2>4, <3>1
    <3> QED
      BY <2>2, <2>3, <2>4, <3>2 DEF Awaiters
  <2>8. /\ Waits(p)' => OneHolder(p)'
        /\ ~Waits(p)' => NoHolder(p)'
        /\ refused \subseteq refused' /\ refused' \subseteq refused \cup {p}
        /\ \A d \in Coros \ {p} : posted'[d] = posted[d]
    <3>1. CASE pc'[p] = "running" /\ UNCHANGED <<posted, refused>>
      BY <1>1, <2>3, <2>4, <2>7, <3>1 DEF NoHolder, Waits, Refusals
    <3>2. CASE pc'[p] = pc[p] /\ Post(p, onScheduler[c])
      <4>1. p \notin refused /\ pc'[p] = "suspended"
        BY <2>3, <3>2 DEF Waits
      <4>2. onScheduler[c] \in BOOLEAN
        BY <1>1 DEF Types
      <4> QED
        BY <1>1, <2>3, <2>4, <2>7, <3>2, <4>1, <4>2, PostHolds
    <3> QED
      BY <2>5, <3>1, <3>2
  <2>9. Places'
    <3> SUFFICES ASSUME NEW d \in Coros, d # p
                 PROVE  /\ Waits(d)' => OneHolder(d)'
                        /\ ~Waits(d)' => NoHolder(d)'
      BY <2>8 DEF Places
    <3>1. Waits(d)' <=> Waits(d)
      BY <2>2, <2>4, <2>8 DEF Waits
    <3> QED
      BY <1>1, <2>4, <2>7, <2>8, <3>1, HolderKept
  <2>10. Refusals'
    <3>1. p \notin refused /\ c \notin refused /\ pc[p] = "suspended"
      BY <1>1, <2>2, <2>3 DEF Waits, Refusals
    <3> QED
      BY <1>1, <2>4, <2>5, <2>6, <2>8, <3>1 DEF Refusals, Types
  <2>11. Links'
    <3>1. pc[p] = "suspended" /\ pc'[p] \in {"running", "suspended"}
      BY <2>3, <2>5 DEF Waits
    <3>2. \A d \in Coros : awaited'[d] \in Coros => awaited'[d] = awaited[d]
      BY <1>1, <2>5, CoroutineAssumption DEF Types
    <3> QED
      BY <1>1, <2>2, <2>4, <3>1, <3>2 DEF Links
  <2> QED
    BY <2>6, <2>9, <2>10, <2>11 DEF HoldInv
<1> QED
  BY <1>2, <1>3

(* The scheduler's stop and the clean-ups leave the coroutines alone.      *)
LEMMA OwnerHoldInv ==
  ASSUME HoldInv,
         \/ StopScheduler \/ AllEnded \/ Collect \/ ForceCleanup \/ CheckLeaks
  PROVE  HoldInv'
<1>1. Types /\ Places /\ Refusals /\ Links
  BY DEF HoldInv
<1>2. Types'
  <2>1. CASE StopScheduler
    BY <1>1, <2>1 DEF Types, StopScheduler, promiseVars, runVars, registryVars,
                      cleanupVars
  <2>2. CASE AllEnded
    BY <1>1, <2>2 DEF Types, AllEnded, promiseVars, runVars, registryVars
  <2>3. CASE Collect
    BY <1>1, <2>3 DEF Types, Collect, promiseVars, runVars
  <2>4. CASE ForceCleanup
    BY <1>1, <2>4 DEF Types, ForceCleanup, Destroy, promiseVars, runVars
  <2>5. CASE CheckLeaks
    BY <1>1, <2>5 DEF Types, CheckLeaks, Destroy, promiseVars, runVars
  <2> QED
    BY <2>1, <2>2, <2>3, <2>4, <2>5
<1>3. UNCHANGED <<pc, posted, external, refused, continuation, awaited>>
  BY DEF StopScheduler, AllEnded, Collect, ForceCleanup, CheckLeaks, runVars,
         promiseVars
<1>4. Places'
  BY <1>1, <1>3, PlacesUnchanged
<1>5. Refusals' /\ Links'
  BY <1>1, <1>3 DEF Refusals, Links
<1> QED
  BY <1>2, <1>4, <1>5 DEF HoldInv

(* HoldInv is inductive.                                                   *)
LEMMA NextHoldInv == HoldInv /\ [Next]_vars => HoldInv'
<1> SUFFICES ASSUME HoldInv, [Next]_vars PROVE HoldInv'
  OBVIOUS
<1>1. CASE \E c \in Coros : Step(c)
  BY <1>1, CreationHoldInv, ResumeHoldInv, ExternalDoneHoldInv,
     UnregisterHoldInv, FinalAwaitHoldInv DEF Step
<1>2. CASE \E c \in Coros : Schedule(c) \/ WaitElsewhere(c) \/ Discard(c)
  BY <1>2, ScheduleHoldInv, WaitElsewhereHoldInv, DiscardHoldInv
<1>3. CASE \E c \in Coros, p \in Coros \cup {None} : Create(p, c)
  BY <1>3, CreationHoldInv
<1>4. CASE \E c \in Coros, p \in Coros : Await(p, c)
  BY <1>4, AwaitHoldInv
<1>5. CASE StopScheduler \/ AllEnded \/ Collect \/ ForceCleanup \/ CheckLeaks
  BY <1>5, OwnerHoldInv
<1>6. CASE UNCHANGED vars
  <2>1. Places'
    <3>1. \A c \in Coros : Awaiters(c)' = Awaiters(c) /\ (Waits(c)' <=> Waits(c))
      BY <1>6 DEF Awaiters, Waits, vars, promiseVars, runVars
    <3> QED
      BY <1>6, <3>1 DEF HoldInv, Places, NoHolder, OneHolder, vars, runVars
  <2> QED
    BY <1>6, <2>1 DEF HoldInv, Types, Refusals, Links, vars, promiseVars,
                      runVars, registryVars, cleanupVars
<1> QED
  BY <1>1, <1>2, <1>3, <1>4, <1>5, <1>6 DEF Next

-----------------------------------------------------------------------------
(* The totals                                                              *)

(* Coroutines the second registry has seen, and those that have left it.   *)
Begun == {c \in Coros : pc[c] \notin {"unborn", "registering"}}
Ended == {c \in Coros : pc[c] \in {"returning", "final", "done"}}

(* The totals count them, and as long as graceful_shutdown() waits the     *)
(* registry has those of the first that are not of the second.             *)
CountInv ==
  /\ created = Cardinality(Begun)
  /\ shutdown = "waiting" => infos = Begun \ Ended /\ ended = Cardinality(Ended)

(* Both sets are finite, and adding a coroutine adds one to their sizes.   *)
LEMMA TotalsAreNumbers ==
  /\ IsFiniteSet(Begun) /\ Cardinality(Begun) \in 0 .. Cardinality(Coros)
  /\ IsFiniteSet(Ended) /\ Cardinality(Ended) \in Nat
<1>1. IsFiniteSet(Coros)
  BY CoroutineAssumption
<1>2. Begun \subseteq Coros /\ Ended \subseteq Coros
  BY DEF Begun, Ended
<1>3. /\ IsFiniteSet(Begun) /\ Cardinality(Begun) <= Cardinality(Coros)
      /\ IsFiniteSet(Ended)
  BY <1>1, <1>2, FS_Subset
<1> QED
  BY <1>1, <1>3, FS_CardinalityType

(* A step that moves nobody past the registry or to its end.               *)
LEMMA TotalsKept ==
  ASSUME CountInv, created' = created,
         \A c \in Coros :
           /\ pc'[c] \in {"unborn", "registering"} <=>
                pc[c] \in {"unborn", "registering"}
           /\ pc'[c] \in {"returning", "final", "done"} <=>
                pc[c] \in {"returning", "final", "done"},
         shutdown' = "waiting" => UNCHANGED <<shutdown, infos, ended>>
  PROVE  CountInv'
<1>1. Begun' = Begun /\ Ended' = Ended
  BY DEF Begun, Ended
<1>2. created' = Cardinality(Begun')
  BY <1>1 DEF CountInv
<1> QED
  BY <1>1, <1>2 DEF CountInv

(* CountInv is inductive, given who can be resumed.                        *)
LEMMA StepCountInv ==
  ASSUME HoldInv, CountInv, NEW c \in Coros, Step(c)
  PROVE  CountInv'
<1>1. Types
  BY DEF HoldInv
<1>2. CASE RegisterInfo(c)
  <2>1. /\ pc[c] = "registering" /\ pc' = [pc EXCEPT ![c] = "created"]
        /\ infos' = infos \cup {c} /\ created' = created + 1
        /\ UNCHANGED <<ended, shutdown>>
    BY <1>2 DEF RegisterInfo, cleanupVars
  <2>2. Begun' = Begun \cup {c} /\ c \notin Begun /\ Ended' = Ended /\ c \notin Ended
    BY <1>1, <2>1 DEF Types, Begun, Ended
  <2>3. Cardinality(Begun \cup {c}) = Cardinality(Begun) + 1
    BY <2>2, TotalsAreNumbers, FS_AddElement
  <2>4. created' = Cardinality(Begun')
    BY <2>1, <2>2, <2>3 DEF CountInv
  <2>5. infos = Begun \ Ended => infos' = Begun' \ Ended'
    BY <2>1, <2>2
  <2> QED
    BY <2>1, <2>2, <2>4, <2>5 DEF CountInv
<1>3. CASE UnregisterInfo(c)
  <2>1. /\ pc[c] = "leaving" /\ pc' = [pc EXCEPT ![c] = "returning"]
        /\ infos' = infos \ {c} /\ ended' = IF c \in infos THEN ended + 1 ELSE ended
        /\ UNCHANGED <<created, shutdown>>
    BY <1>3 DEF UnregisterInfo, cleanupVars
  <2>2. Begun' = Begun /\ c \in Begun /\ Ended' = Ended \cup {c} /\ c \notin Ended
    BY <1>1, <2>1 DEF Types, Begun, Ended
  <2>3. Cardinality(Ended \cup {c}) = Cardinality(Ended) + 1
    BY <2>2, TotalsAreNumbers, FS_AddElement
  <2>4. created' = Cardinality(Begun')
    BY <2>1, <2>2 DEF CountInv
  <2>5. ASSUME shutdown = "waiting"
        PROVE  infos' = Begun' \ Ended' /\ ended' = Cardinality(Ended')
    <3>1. infos = Begun \ Ended /\ ended = Cardinality(Ended) /\ c \in infos
      BY <2>2, <2>5 DEF CountInv
    <3>2. infos' = Begun' \ Ended'
      BY <2>1, <2>2, <3>1
    <3>3. ended' = Cardinality(Ended')
      BY <2>1, <2>2, <2>3, <3>1
    <3> QED
      BY <3>2, <3>3
  <2> QED
    BY <2>1, <2>4, <2>5 DEF CountInv
<1>4. CASE Resume(c) \/ ExternalDone(c) \/ Unregister(c) \/ FinalSuspend(c)
  <2>1. UNCHANGED <<infos, created, ended, shutdown>>
    BY <1>4 DEF Resume, ExternalDone, Unregister, FinalSuspend, registryVars,
                cleanupVars
  <2>2. \/ pc' = pc
        \/ /\ pc[c] \in {"suspended", "running"}
           /\ pc'[c] \in {"running", "leaving"}
           /\ \A d \in Coros \ {c} : pc'[d] = pc[d]
        \/ /\ pc[c] = "returning" /\ pc'[c] = "final"
           /\ \A d \in Coros \ {c} : pc'[d] = pc[d]
    BY <1>1, <1>4 DEF Types, Resume, ExternalDone, Unregister, FinalSuspend,
                      InBody
  <2> QED
    BY <2>1, <2>2, TotalsKept
<1>5. CASE FinalAwait(c)
  <2>1. UNCHANGED <<infos, created, ended, shutdown>>
    BY <1>5 DEF FinalAwait, registryVars, cleanupVars
  <2>2. pc[c] = "final"
    BY <1>5 DEF FinalAwait
  <2>3. CASE continuation[c] = None
    <3>1. pc'[c] = "done" /\ \A d \in Coros \ {c} : pc'[d] = pc[d]
      BY <1>1, <1>5, <2>3 DEF FinalAwait, Types
    <3> QED
      BY <2>1, <2>2, <3>1, TotalsKept
  <2>4. CASE continuation[c] # None
    <3>1. PICK p \in Coros : continuation[c] = p
      BY <1>1, <2>4 DEF Types
    <3>2. pc[p] = "suspended"
      BY <2>2, <3>1, AwaiterWaits DEF Waits
    <3>3. /\ pc'[c] = "done" /\ pc'[p] \in {"suspended", "running"}
          /\ \A d \in Coros \ {c, p} : pc'[d] = pc[d]
      BY <1>1, <1>5, <2>2, <2>4, <3>1, <3>2 DEF FinalAwait, Types
    <3> QED
      BY <2>1, <2>2, <3>2, <3>3, TotalsKept
  <2> QED
    BY <2>3, <2>4
<1> QED
  BY <1>2, <1>3, <1>4, <1>5 DEF Step

(* CountInv is inductive.                                                  *)
LEMMA NextCountInv == HoldInv /\ CountInv /\ [Next]_vars => CountInv'
<1> SUFFICES ASSUME HoldInv, CountInv, [Next]_vars PROVE CountInv'
  OBVIOUS
<1>1. Types
  BY DEF HoldInv
<1>2. CASE \E c \in Coros : Step(c)
  BY <1>2, StepCountInv
<1>3. ASSUME NEW c \in Coros, Schedule(c) \/ WaitElsewhere(c) \/ Discard(c)
      PROVE  CountInv'
  <2>1. UNCHANGED <<infos, created, ended, shutdown>>
    BY <1>3 DEF Schedule, WaitElsewhere, Discard, registryVars, cleanupVars
  <2>2. \/ pc' = pc
        \/ /\ pc[c] \in {"created", "running"} /\ pc'[c] = "suspended"
           /\ \A d \in Coros \ {c} : pc'[d] = pc[d]
    BY <1>1, <1>3 DEF Types, Schedule, WaitElsewhere, Discard, InBody
  <2> QED
    BY <2>1, <2>2, TotalsKept
<1>4. ASSUME NEW c \in Coros, NEW p \in Coros \cup {None}, Create(p, c)
      PROVE  CountInv'
  <2>1. UNCHANGED <<infos, created, ended, shutdown>>
    BY <1>4 DEF Create, cleanupVars
  <2>2. /\ pc[c] = "unborn" /\ pc'[c] = "registering"
        /\ \A d \in Coros \ {c} : pc'[d] = pc[d]
    BY <1>1, <1>4 DEF Types, Create
  <2> QED
    BY <2>1, <2>2, TotalsKept
<1>5. ASSUME NEW c \in Coros, NEW p \in Coros, Await(p, c)
      PROVE  CountInv'
  <2>1. UNCHANGED <<infos, created, ended, shutdown>>
    BY <1>5 DEF Await, registryVars, cleanupVars
  <2>2. /\ pc[c] = "created" /\ pc[p] = "running"
        /\ pc'[c] = "suspended" /\ pc'[p] = "suspended"
        /\ \A d \in Coros \ {c, p} : pc'[d] = pc[d]
    BY <1>1, <1>5 DEF Types, Await, InBody
  <2> QED
    BY <2>1, <2>2, TotalsKept
<1>6. CASE StopScheduler \/ AllEnded \/ Collect \/ ForceCleanup \/ CheckLeaks
  <2>1. /\ UNCHANGED <<pc, created>>
        /\ shutdown' = "waiting" => UNCHANGED <<shutdown, infos, ended>>
    BY <1>6 DEF StopScheduler, AllEnded, Collect, ForceCleanup, CheckLeaks,
                registryVars, cleanupVars
  <2> QED
    BY <2>1, TotalsKept
<1>7. CASE UNCHANGED vars
  BY <1>7, TotalsKept DEF vars, registryVars, cleanupVars
<1> QED
  BY <1>2, <1>3, <1>4, <1>5, <1>6, <1>7 DEF Next

-----------------------------------------------------------------------------
(* The theorems                                                            *)

Inv == HoldInv /\ CountInv

(* Nobody has been created, ended or registered in the initial state.      *)
LEMMA InitInv == Init => Inv
<1> SUFFICES ASSUME Init PROVE CountInv
  BY InitHoldInv DEF Inv
<1>1. Begun = {} /\ Ended = {}
  BY DEF Init, Begun, Ended
<1>2. Cardinality({}) = 0
  BY FS_EmptySet
<1> QED
  BY <1>1, <1>2 DEF Init, CountInv

(* The inductive invariant of Coroutine.                                   *)
THEOREM Invariance == SafeSpec => []Inv
<1>1. Inv /\ [Next]_vars => Inv'
  BY NextHoldInv, NextCountInv DEF Inv
<1> QED
  BY InitInv, <1>1, PTL DEF SafeSpec

(* The variables have their types; in particular no two functions that     *)
(* resume the same coroutine wait at once, and the total of created        *)
(* coroutines does not exceed their number.                                *)
THEOREM Typing == SafeSpec => []TypeOK
<1>1. Inv => TypeOK
  <2> SUFFICES ASSUME Inv PROVE TypeOK
    OBVIOUS
  <2>1. posted \in [Coros -> 0 .. 1]
    <3>1. \A c \in Coros : posted[c] \in 0 .. 1
      BY DEF Inv, HoldInv, Places, NoHolder, OneHolder
    <3> QED
      BY <3>1 DEF Inv, HoldInv, Types
  <2>2. created \in 0 .. Cardinality(Coros)
    BY TotalsAreNumbers DEF Inv, CountInv
  <2> QED
    BY <2>1, <2>2 DEF TypeOK, Types, Inv, HoldInv
<1> QED
  BY <1>1, Invariance, PTL

(* Whatever suspends a coroutine leaves exactly one who will resume it,    *)
(* until the scheduler drops the function that was to do so.               *)
THEOREM OneResumption == SafeSpec => []HeldOnce
<1>1. Inv => HeldOnce
  BY PlacesHeldOnce DEF Inv, HoldInv
<1> QED
  BY <1>1, Invariance, PTL

(* A coroutine that awaited a Task is only resumed when the result is in.  *)
THEOREM ResultThere == SafeSpec => []ResultReady
<1>1. Inv => ResultReady
  <2> SUFFICES ASSUME Inv, NEW p \in Coros, NEW c \in Coros,
                      awaited[p] = c, posted[p] > 0
               PROVE  Done(c)
    BY DEF ResultReady
  <2>1. continuation[c] = p
    BY DEF Inv, HoldInv, Links
  <2>2. Awaiters(p) = {}
    BY DEF Inv, HoldInv, Places, NoHolder, OneHolder
  <2> QED
    BY <2>1, <2>2 DEF Awaiters, Done
<1> QED
  BY <1>1, Invariance, PTL

(* When graceful_shutdown() says true nobody waits, runs its body or is    *)
(* yet to begin, and the totals are equal.                                 *)
THEOREM Completeness == SafeSpec => GracefulIsComplete
<1>1. Inv /\ AllEnded =>
        /\ \A c \in Coros : \/ pc[c] \in {"unborn", "registering", "returning"}
                           \/ Done(c)
        /\ created = ended
  <2> SUFFICES ASSUME Inv, AllEnded
               PROVE  /\ \A c \in Coros :
                           \/ pc[c] \in {"unborn", "registering", "returning"}
                           \/ Done(c)
                      /\ created = ended
    OBVIOUS
  <2>1. Begun \ Ended = {} /\ ended = Cardinality(Ended)
    BY DEF Inv, CountInv, AllEnded
  <2>2. Ended \subseteq Begun
    BY DEF Ended, Begun
  <2>3. Begun = Ended
    BY <2>1, <2>2
  <2>4. \A c \in Coros : \/ pc[c] \in {"unborn", "registering", "returning"}
                        \/ Done(c)
    BY <2>3 DEF Begun, Ended, Done
  <2> QED
    BY <2>1, <2>3, <2>4 DEF Inv, CountInv
<1> QED
  BY <1>1, Invariance, PTL DEF GracefulIsComplete
=============================================================================
