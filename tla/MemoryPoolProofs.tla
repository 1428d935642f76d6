-------------------------- MODULE MemoryPoolProofs --------------------------
(***************************************************************************)
(* What holds of MemoryPool for every size of chunk, list, cache and       *)
(* stack: the statistics are right until a block is given to free(), and   *)
(* that takes as many blocks held at once as BrokenByPeak says.            *)
(***************************************************************************)
EXTENDS MemoryPool, FiniteSetTheorems, TLAPS

(* Both disjuncts bound the blocks of the pool by those in use before the  *)
(* last chunk was added: one is added only when the list is empty.         *)
Bounded ==
  \/ Len(freeBlocks) + Cardinality(held) <= BlocksPerChunk
  \/ Len(freeBlocks) + Cardinality(held) + 1 <= BlocksPerChunk + peak

(* The blocks on the list, those handed out, and the statistics of both.   *)
BlockInv ==
  /\ BlocksInOnePlace /\ allocated = Cardinality(held)
  /\ Cardinality(held) <= peak /\ Bounded

(* The same of the stacks: cached once or in use, and counted.             *)
StackInv ==
  /\ CachedOnce /\ InCache \cap InUse = {}
  /\ \A s \in Sizes : Len(freeStacks[s]) <= MaxCached
  /\ allocatedStacks = Cardinality(InUse)
  /\ totalMemory = CachedMemory + HeldMemory

(* The inductive invariant; nothing is said of a damaged heap but how it   *)
(* came about.                                                             *)
Inv == TypeOK /\ (~broken => BlockInv /\ StackInv) /\ BrokenByPeak

-----------------------------------------------------------------------------
(* Blocks                                                                  *)

(* Blocks are finitely many, and so are those that are held.               *)
LEMMA HeldFinite ==
  ASSUME held \in SUBSET Blocks
  PROVE  IsFiniteSet(held) /\ Cardinality(held) \in Nat
<1>1. /\ IsFiniteSet(1 .. MaxChunks) /\ IsFiniteSet(1 .. BlocksPerChunk)
  BY FS_Interval, MemoryPoolAssumption
<1>2. IsFiniteSet(Blocks)
  BY <1>1, FS_Product DEF Blocks
<1> QED
  BY <1>2, FS_Subset, FS_CardinalityType

(* A new chunk is a list of blocks of that chunk.                          *)
LEMMA ChunkIsList ==
  ASSUME NEW c \in 1 .. MaxChunks
  PROVE  /\ ChunkBlocks(c) \in Seq(Blocks) /\ Len(ChunkBlocks(c)) = BlocksPerChunk
         /\ DOMAIN ChunkBlocks(c) = 1 .. BlocksPerChunk
         /\ \A i \in 1 .. BlocksPerChunk : ChunkBlocks(c)[i] = <<c, i>>
<1>1. BlocksPerChunk \in Nat
  BY MemoryPoolAssumption
<1>2. \A i \in 1 .. BlocksPerChunk : <<c, i>> \in Blocks
  BY DEF Blocks
<1> QED
  BY <1>1, <1>2 DEF ChunkBlocks

(* Handing out the back of a list keeps BlockInv, whether the list is the  *)
(* pool's or a new chunk.                                                  *)
LEMMA TakeBackKeeps ==
  ASSUME TypeOK, BlockInv, NEW list \in Seq(Blocks), list # <<>>,
         NEW n \in 1 .. MaxChunks, chunks <= n, TakeBack(list, n),
         \A i, j \in DOMAIN list : list[i] = list[j] => i = j,
         \A i \in DOMAIN list : list[i] \notin held \cup dropped /\ list[i][1] <= n,
         \/ Len(list) <= BlocksPerChunk
         \/ Len(list) + Cardinality(held) + 1 <= BlocksPerChunk + peak
  PROVE  TypeOK' /\ BlockInv'
<1> DEFINE L == Len(list)
           b == list[L]
<1>1. /\ L \in Nat \ {0} /\ L \in DOMAIN list /\ DOMAIN list = 1 .. L
      /\ b \in Blocks /\ b \notin held \cup dropped /\ b[1] <= n
  OBVIOUS
<1>2. /\ SubSeq(list, 1, L - 1) \in Seq(Blocks)
      /\ Len(SubSeq(list, 1, L - 1)) = L - 1
      /\ DOMAIN SubSeq(list, 1, L - 1) = 1 .. L - 1
      /\ \A i \in 1 .. L - 1 : SubSeq(list, 1, L - 1)[i] = list[i]
  BY <1>1
<1>3. /\ held' = held \cup {b} /\ freeBlocks' = SubSeq(list, 1, L - 1)
      /\ allocated' = allocated + 1 /\ chunks' = n
      /\ peak' = IF Cardinality(held') > peak THEN Cardinality(held') ELSE peak
      /\ UNCHANGED <<dropped, large, broken, freeStacks, stackOf>>
  BY DEF TakeBack, stackVars
<1> HIDE DEF b, L
<1>4. /\ IsFiniteSet(held) /\ Cardinality(held) \in Nat
      /\ held' \in SUBSET Blocks /\ Cardinality(held') = Cardinality(held) + 1
  <2>1. IsFiniteSet(held) /\ Cardinality(held) \in Nat
    BY HeldFinite DEF TypeOK
  <2>2. Cardinality(held \cup {b}) = Cardinality(held) + 1
    BY <1>1, <2>1, FS_AddElement
  <2> QED
    BY <1>1, <1>3, <2>1, <2>2 DEF TypeOK
<1>5. /\ peak \in Nat /\ peak' \in Nat /\ peak <= peak'
      /\ Cardinality(held) + 1 <= peak'
  BY <1>3, <1>4 DEF TypeOK
<1>6. TypeOK'
  <2>1. allocated' \in Nat /\ chunks' \in 1 .. MaxChunks /\ freeBlocks' \in Seq(Blocks)
    BY <1>2, <1>3 DEF TypeOK
  <2> QED
    BY <1>3, <1>4, <1>5, <2>1 DEF TypeOK
<1>7. allocated' = Cardinality(held') /\ Cardinality(held') <= peak'
  BY <1>3, <1>4, <1>5 DEF BlockInv
<1>8. Bounded'
  <2>1. Len(freeBlocks') = L - 1
    BY <1>2, <1>3
  <2>2. L - 1 + (Cardinality(held) + 1) + 1 <= BlocksPerChunk + peak'
    <3>1. \/ L <= BlocksPerChunk
          \/ L + Cardinality(held) + 1 <= BlocksPerChunk + peak
      BY DEF L
    <3> QED
      BY <1>1, <1>4, <1>5, <3>1, MemoryPoolAssumption
  <2> QED
    BY <1>4, <2>1, <2>2 DEF Bounded
<1>9. BlocksInOnePlace'
  <2>1. /\ DOMAIN freeBlocks' = 1 .. L - 1
        /\ \A i \in 1 .. L - 1 :
             i \in DOMAIN list /\ freeBlocks'[i] = list[i] /\ list[i] # b
    <3>1. \A i \in 1 .. L - 1 : i \in DOMAIN list /\ i # L
      BY <1>1
    <3>2. \A i \in DOMAIN list : i # L => list[i] # b
      BY <1>1 DEF b
    <3> QED
      BY <1>2, <1>3, <3>1, <3>2
  <2>2. \A i, j \in DOMAIN freeBlocks' : freeBlocks'[i] = freeBlocks'[j] => i = j
    BY <2>1
  <2>3. \A i \in DOMAIN freeBlocks' : /\ freeBlocks'[i] \notin held' \cup dropped'
                                      /\ freeBlocks'[i][1] <= chunks'
    BY <1>3, <2>1
  <2>4. held' \cap dropped' = {}
    BY <1>1, <1>3 DEF BlockInv, BlocksInOnePlace
  <2>5. \A x \in held' \cup dropped' : x[1] <= chunks'
    <3>1. \A x \in held \cup dropped : x[1] <= chunks /\ x[1] \in Nat
      BY DEF BlockInv, BlocksInOnePlace, TypeOK, Blocks
    <3>2. chunks \in Nat /\ n \in Nat
      BY DEF TypeOK
    <3>3. \A x \in held \cup dropped : x[1] <= n
      BY <3>1, <3>2
    <3> QED
      BY <1>1, <1>3, <3>3
  <2> QED
    BY <2>2, <2>3, <2>4, <2>5 DEF BlocksInOnePlace
<1> QED
  BY <1>6, <1>7, <1>8, <1>9 DEF BlockInv

(* An allocation hands out the back of the list, of a new chunk's if the   *)
(* pool's is empty.                                                        *)
LEMMA AllocateKeeps ==
  ASSUME TypeOK, BlockInv, Allocate
  PROVE  TypeOK' /\ BlockInv'
<1>1. CASE freeBlocks # <<>>
  <2>1. TakeBack(freeBlocks, chunks)
    BY <1>1 DEF Allocate
  <2>2. /\ freeBlocks \in Seq(Blocks) /\ chunks \in 1 .. MaxChunks /\ chunks <= chunks
        /\ Len(freeBlocks) \in Nat
    BY DEF TypeOK
  <2>3. /\ \A i, j \in DOMAIN freeBlocks : freeBlocks[i] = freeBlocks[j] => i = j
        /\ \A i \in DOMAIN freeBlocks : /\ freeBlocks[i] \notin held \cup dropped
                                        /\ freeBlocks[i][1] <= chunks
    BY DEF BlockInv, BlocksInOnePlace
  <2>4. \/ Len(freeBlocks) <= BlocksPerChunk
        \/ Len(freeBlocks) + Cardinality(held) + 1 <= BlocksPerChunk + peak
    <3>1. Cardinality(held) \in Nat
      BY HeldFinite DEF TypeOK
    <3> QED
      BY <2>2, <3>1, MemoryPoolAssumption DEF BlockInv, Bounded
  <2> QED
    BY <1>1, <2>1, <2>2, <2>3, <2>4, TakeBackKeeps
<1>2. CASE freeBlocks = <<>>
  <2> DEFINE c == chunks + 1
             list == ChunkBlocks(c)
  <2>1. chunks < MaxChunks /\ TakeBack(list, c)
    BY <1>2 DEF Allocate
  <2>2. c \in 1 .. MaxChunks /\ chunks <= c /\ chunks \in Nat /\ c \in Nat
    BY <2>1, MemoryPoolAssumption DEF TypeOK
  <2> HIDE DEF c
  <2>3. /\ list \in Seq(Blocks) /\ Len(list) = BlocksPerChunk
        /\ DOMAIN list = 1 .. BlocksPerChunk
        /\ \A i \in 1 .. BlocksPerChunk : list[i] = <<c, i>>
    BY <2>2, ChunkIsList
  <2> HIDE DEF list
  <2>4. list # <<>> /\ Len(list) <= BlocksPerChunk
    BY <2>3, MemoryPoolAssumption
  <2>5. \A i, j \in DOMAIN list : list[i] = list[j] => i = j
    BY <2>3
  <2>6. \A i \in DOMAIN list : list[i] \notin held \cup dropped /\ list[i][1] <= c
    <3>1. \A x \in held \cup dropped : x[1] <= chunks
      BY DEF BlockInv, BlocksInOnePlace
    <3>2. \A i \in DOMAIN list : list[i][1] = c
      BY <2>3
    <3>3. ~(c <= chunks) /\ c <= c
      BY <2>2 DEF c
    <3> QED
      BY <3>1, <3>2, <3>3
  <2> QED
    BY <2>1, <2>2, <2>3, <2>4, <2>5, <2>6, TakeBackKeeps
<1> QED
  BY <1>1, <1>2

(* Giving a block back keeps BlockInv, or breaks the pool after the peak.  *)
LEMMA DeallocateKeeps ==
  ASSUME TypeOK, BlockInv, NEW b \in Blocks, Deallocate(b)
  PROVE  TypeOK' /\ (~broken' => BlockInv') /\ BrokenByPeak'
<1>1. /\ b \in held /\ ~broken /\ held' = held \ {b}
      /\ UNCHANGED <<chunks, dropped, large, peak, freeStacks, stackOf>>
      /\ freeBlocks \in Seq(Blocks) /\ Len(freeBlocks) \in Nat
  BY DEF Deallocate, stackVars, TypeOK
<1>2. /\ Cardinality(held) \in Nat /\ Cardinality(held') \in Nat
      /\ Cardinality(held') = Cardinality(held) - 1
  <2>1. IsFiniteSet(held) /\ Cardinality(held) \in Nat
    BY HeldFinite DEF TypeOK
  <2>2. IsFiniteSet(held \ {b}) /\ Cardinality(held \ {b}) = Cardinality(held) - 1
    BY <1>1, <2>1, FS_RemoveElement
  <2> QED
    BY <1>1, <2>1, <2>2, FS_CardinalityType
<1>3. CASE Len(freeBlocks) < MaxFree
  <2> DEFINE L == Len(freeBlocks)
  <2>1. /\ freeBlocks' = Append(freeBlocks, b) /\ allocated' = allocated - 1
        /\ broken' = broken
    BY <1>3 DEF Deallocate
  <2>2. /\ freeBlocks' \in Seq(Blocks) /\ Len(freeBlocks') = L + 1
        /\ DOMAIN freeBlocks = 1 .. L /\ DOMAIN freeBlocks' = 1 .. L + 1
        /\ freeBlocks'[L + 1] = b
        /\ \A i \in 1 .. L : freeBlocks'[i] = freeBlocks[i]
    BY <1>1, <2>1
  <2> HIDE DEF L
  <2>3. allocated' = Cardinality(held') /\ Cardinality(held') <= peak'
    BY <1>1, <1>2, <2>1 DEF BlockInv, TypeOK
  <2>4. TypeOK'
    BY <1>1, <1>2, <2>1, <2>2, <2>3 DEF TypeOK
  <2>5. Bounded'
    <3>1. Len(freeBlocks') + Cardinality(held') = Len(freeBlocks) + Cardinality(held)
      BY <1>1, <1>2, <2>2 DEF L
    <3> QED
      BY <1>1, <3>1 DEF BlockInv, Bounded
  <2>6. BlocksInOnePlace'
    <3>1. /\ \A i \in 1 .. L : i \in DOMAIN freeBlocks
          /\ \A i \in 1 .. L + 1 : i \in 1 .. L \/ i = L + 1
      BY <1>1, <2>2 DEF L
    <3>2. \A i \in 1 .. L : freeBlocks'[i] # b
      BY <1>1, <2>2 DEF BlockInv, BlocksInOnePlace
    <3>3. \A i, j \in DOMAIN freeBlocks' : freeBlocks'[i] = freeBlocks'[j] => i = j
      BY <2>2, <3>1, <3>2 DEF BlockInv, BlocksInOnePlace
    <3>4. \A i \in DOMAIN freeBlocks' : /\ freeBlocks'[i] \notin held' \cup dropped'
                                        /\ freeBlocks'[i][1] <= chunks'
      BY <1>1, <2>2, <3>1 DEF BlockInv, BlocksInOnePlace
    <3>5. /\ held' \cap dropped' = {}
          /\ \A x \in held' \cup dropped' : x[1] <= chunks'
      BY <1>1 DEF BlockInv, BlocksInOnePlace
    <3> QED
      BY <3>3, <3>4, <3>5 DEF BlocksInOnePlace
  <2> QED
    BY <1>1, <2>1, <2>3, <2>4, <2>5, <2>6 DEF BlockInv, BrokenByPeak
<1>4. CASE ~(Len(freeBlocks) < MaxFree)
  <2>1. broken' = TRUE /\ UNCHANGED <<freeBlocks, allocated>>
    BY <1>4 DEF Deallocate
  <2>2. TypeOK'
    BY <1>1, <2>1 DEF TypeOK
  <2>3. Cardinality(held) \in Nat \ {0} /\ peak \in Nat
    BY <1>2 DEF TypeOK
  <2>4. peak + BlocksPerChunk > MaxFree + 1
    BY <1>1, <1>4, <2>3, MemoryPoolAssumption DEF BlockInv, Bounded
  <2> QED
    BY <1>1, <2>1, <2>2, <2>4 DEF BrokenByPeak
<1> QED
  BY <1>3, <1>4

(* Dropping blocks from the list loses no block that is held.              *)
LEMMA ShrinkKeeps ==
  ASSUME TypeOK, BlockInv, ShrinkToFit
  PROVE  TypeOK' /\ BlockInv'
<1> DEFINE keep == MaxFree \div 2
           L == Len(freeBlocks)
<1>1. /\ keep \in Nat /\ L \in Nat /\ keep < L /\ freeBlocks \in Seq(Blocks)
      /\ DOMAIN freeBlocks = 1 .. L
  BY MemoryPoolAssumption DEF ShrinkToFit, TypeOK
<1>2. /\ freeBlocks' = SubSeq(freeBlocks, 1, keep)
      /\ dropped' = dropped \cup {freeBlocks[i] : i \in keep + 1 .. L}
      /\ UNCHANGED <<chunks, allocated, held, large, peak, broken, freeStacks, stackOf>>
  BY DEF ShrinkToFit, stackVars
<1> HIDE DEF keep, L
<1>3. /\ \A i \in 1 .. keep : i \in DOMAIN freeBlocks /\ i \notin keep + 1 .. L
      /\ \A i \in keep + 1 .. L : i \in DOMAIN freeBlocks
  BY <1>1
<1>4. /\ freeBlocks' \in Seq(Blocks) /\ Len(freeBlocks') = keep
      /\ DOMAIN freeBlocks' = 1 .. keep
      /\ \A i \in 1 .. keep : freeBlocks'[i] = freeBlocks[i]
  <2>1. keep <= Len(freeBlocks)
    BY <1>1 DEF L
  <2> QED
    BY <1>1, <1>2, <2>1
<1>5. TypeOK'
  <2>1. \A i \in DOMAIN freeBlocks : freeBlocks[i] \in Blocks
    BY <1>1
  <2>2. dropped' \in SUBSET Blocks
    BY <1>2, <1>3, <2>1 DEF TypeOK
  <2> QED
    BY <1>2, <1>4, <2>2 DEF TypeOK
<1>6. Bounded'
  <2>1. Cardinality(held) \in Nat /\ peak \in Nat
    BY HeldFinite DEF TypeOK
  <2>2. keep <= Len(freeBlocks) /\ Len(freeBlocks) \in Nat
    BY <1>1 DEF L
  <2> QED
    BY <1>1, <1>2, <1>4, <2>1, <2>2, MemoryPoolAssumption DEF BlockInv, Bounded
<1>7. BlocksInOnePlace'
  <2>1. \A i, j \in DOMAIN freeBlocks' : freeBlocks'[i] = freeBlocks'[j] => i = j
    BY <1>3, <1>4 DEF BlockInv, BlocksInOnePlace
  <2>2. \A i \in 1 .. keep, j \in keep + 1 .. L : freeBlocks[i] # freeBlocks[j]
    BY <1>3 DEF BlockInv, BlocksInOnePlace
  <2>3. \A i \in DOMAIN freeBlocks' : /\ freeBlocks'[i] \notin held' \cup dropped'
                                      /\ freeBlocks'[i][1] <= chunks'
    BY <1>2, <1>3, <1>4, <2>2 DEF BlockInv, BlocksInOnePlace
  <2>4. /\ held' \cap dropped' = {}
        /\ \A x \in held' \cup dropped' : x[1] <= chunks'
    BY <1>2, <1>3 DEF BlockInv, BlocksInOnePlace
  <2> QED
    BY <2>1, <2>3, <2>4 DEF BlocksInOnePlace
<1> QED
  BY <1>2, <1>5, <1>6, <1>7 DEF BlockInv

-----------------------------------------------------------------------------
(* Sums                                                                    *)

(* The pairs that Total counts.                                            *)
(* The pairs Total counts.                                                 *)
Pairs(f) == UNION {{x} \X (1 .. f[x]) : x \in DOMAIN f}

(* What a pair is.                                                         *)
LEMMA PairsMeans ==
  ASSUME NEW f, NEW p
  PROVE  p \in Pairs(f) <=> \E x \in DOMAIN f : p \in {x} \X (1 .. f[x])
BY DEF Pairs

(* The sum of a bounded function on a finite set is a number.              *)
LEMMA TotalIsNumber ==
  ASSUME NEW f, NEW D, D = DOMAIN f, NEW M \in Nat, IsFiniteSet(D),
         \A x \in D : f[x] \in 0 .. M
  PROVE  IsFiniteSet(Pairs(f)) /\ Total(f) \in Nat
<1>1. Pairs(f) \subseteq D \X (1 .. M)
  <2> SUFFICES ASSUME NEW p \in Pairs(f) PROVE p \in D \X (1 .. M)
    OBVIOUS
  <2>1. PICK x \in D : p \in {x} \X (1 .. f[x])
    BY PairsMeans
  <2>2. PICK i \in 1 .. f[x] : p = <<x, i>>
    BY <2>1
  <2>3. i \in 1 .. M
    BY <2>2
  <2> QED
    BY <2>2, <2>3
<1>2. IsFiniteSet(1 .. M)
  BY FS_Interval
<1>3. IsFiniteSet(D \X (1 .. M))
  BY <1>2, FS_Product
<1> QED
  BY <1>1, <1>3, FS_Subset, FS_CardinalityType DEF Total, Pairs

(* Nothing adds up to nothing.                                             *)
LEMMA TotalOfNone ==
  ASSUME NEW f, DOMAIN f = {}
  PROVE  Total(f) = 0
<1>1. Pairs(f) = {}
  BY DEF Pairs
<1> QED
  BY <1>1, FS_EmptySet DEF Total, Pairs

(* One argument more adds its value.                                       *)
LEMMA TotalAdds ==
  ASSUME NEW f, NEW g, NEW x, NEW M \in Nat, IsFiniteSet(DOMAIN f),
         x \notin DOMAIN f, DOMAIN g = DOMAIN f \cup {x},
         \A y \in DOMAIN f : g[y] = f[y],
         \A y \in DOMAIN g : g[y] \in 0 .. M
  PROVE  Total(g) = Total(f) + g[x] /\ Total(f) \in Nat
<1>1. g[x] \in Nat
  OBVIOUS
<1>2. Pairs(g) = Pairs(f) \cup ({x} \X (1 .. g[x]))
  BY DEF Pairs
<1>3. Pairs(f) \cap ({x} \X (1 .. g[x])) = {}
  <2> SUFFICES ASSUME NEW p \in Pairs(f), p \in {x} \X (1 .. g[x]) PROVE FALSE
    OBVIOUS
  <2>1. PICK y \in DOMAIN f : p \in {y} \X (1 .. f[y])
    BY PairsMeans
  <2> QED
    BY <2>1
<1>4. IsFiniteSet(Pairs(f)) /\ Total(f) \in Nat
  BY TotalIsNumber
<1>5. /\ IsFiniteSet({x} \X (1 .. g[x]))
      /\ Cardinality({x} \X (1 .. g[x])) = g[x]
  <2>1. IsFiniteSet({x}) /\ Cardinality({x}) = 1
    BY FS_Singleton
  <2>2. IsFiniteSet(1 .. g[x]) /\ Cardinality(1 .. g[x]) = g[x]
    BY <1>1, FS_Interval
  <2>3. /\ IsFiniteSet({x} \X (1 .. g[x]))
        /\ Cardinality({x} \X (1 .. g[x])) = 1 * g[x]
    BY <2>1, <2>2, FS_Product
  <2> QED
    BY <1>1, <2>3
<1>6. Cardinality(Pairs(g)) = Cardinality(Pairs(f)) + g[x]
  <2>1. Cardinality({}) = 0
    BY FS_EmptySet
  <2>2. Cardinality(Pairs(f) \cup ({x} \X (1 .. g[x]))) =
          Cardinality(Pairs(f)) + Cardinality({x} \X (1 .. g[x])) - Cardinality({})
    BY <1>3, <1>4, <1>5, FS_Union
  <2>3. Cardinality(Pairs(f)) \in Nat
    BY <1>4, FS_CardinalityType
  <2> QED
    BY <1>1, <1>2, <1>5, <2>1, <2>2, <2>3
<1> QED
  BY <1>4, <1>6 DEF Total, Pairs

-----------------------------------------------------------------------------
(* Stacks                                                                  *)

(* CachedMemory and HeldMemory, of any contents.                           *)
SlotsOf(F) == {e \in Sizes \X (1 .. MaxCached) : e[2] <= Len(F[e[1]])}
CachedIn(F) == Total([e \in SlotsOf(F) |-> e[1]])
UsedIn(S) == {k \in Stacks : S[k] # 0}
HeldIn(S) == Total([k \in UsedIn(S) |-> Clamp(S[k])])

(* Caches are sequences of stacks, sizes are positive, a clamped size is a *)
(* key.                                                                    *)
LEMMA StackFacts ==
  /\ MaxSize \in Nat /\ MaxCached \in Nat
  /\ \A n \in Requests : Clamp(n) \in Sizes /\ n \in Nat \ {0}
  /\ \A n \in Nat : Clamp(n) \in 0 .. MaxSize
  /\ Sizes \subseteq 0 .. MaxSize
  /\ \A F : IsFiniteSet(SlotsOf(F))
  /\ \A S : IsFiniteSet(UsedIn(S))
<1>1. /\ MaxSize \in Nat /\ MaxCached \in Nat /\ MinSize \in Nat /\ MinSize <= MaxSize
      /\ \A n \in Requests : n \in Nat \ {0}
  BY MemoryPoolAssumption
<1>2. \A n \in Nat : Clamp(n) \in 0 .. MaxSize
  BY <1>1 DEF Clamp
<1>3. Sizes \subseteq 0 .. MaxSize
  BY <1>1, <1>2 DEF Sizes
<1>4. IsFiniteSet(Sizes) /\ IsFiniteSet(1 .. MaxCached)
  <2>1. IsFiniteSet(0 .. MaxSize) /\ IsFiniteSet(1 .. MaxCached)
    BY <1>1, FS_Interval
  <2> QED
    BY <1>3, <2>1, FS_Subset
<1>5. IsFiniteSet(Sizes \X (1 .. MaxCached))
  BY <1>4, FS_Product
<1>6. \A F : IsFiniteSet(SlotsOf(F))
  <2> SUFFICES ASSUME NEW F PROVE IsFiniteSet(SlotsOf(F))
    OBVIOUS
  <2>1. SlotsOf(F) \in SUBSET (Sizes \X (1 .. MaxCached))
    BY DEF SlotsOf
  <2> QED
    BY <1>5, <2>1, FS_Subset
<1>7. \A S : IsFiniteSet(UsedIn(S))
  <2> SUFFICES ASSUME NEW S PROVE IsFiniteSet(UsedIn(S))
    OBVIOUS
  <2>1. UsedIn(S) \in SUBSET Stacks
    BY DEF UsedIn
  <2> QED
    BY <2>1, FS_Subset, MemoryPoolAssumption
<1> QED
  BY <1>1, <1>2, <1>3, <1>6, <1>7 DEF Sizes

(* A stack more in the cache of a size is that much more memory.           *)
LEMMA CacheGrows ==
  ASSUME NEW F \in [Sizes -> Seq(Stacks)], NEW G \in [Sizes -> Seq(Stacks)],
         NEW s \in Sizes, Len(G[s]) = Len(F[s]) + 1, Len(G[s]) <= MaxCached,
         \A r \in Sizes \ {s} : G[r] = F[r]
  PROVE  CachedIn(G) = CachedIn(F) + s /\ CachedIn(F) \in Nat
<1> DEFINE x == <<s, Len(G[s])>>
           f == [e \in SlotsOf(F) |-> e[1]]
           g == [e \in SlotsOf(G) |-> e[1]]
<1>1. /\ Len(F[s]) \in Nat /\ Len(G[s]) \in 1 .. MaxCached
      /\ x \in Sizes \X (1 .. MaxCached) /\ x[1] = s /\ x[2] = Len(G[s])
  <2>1. F[s] \in Seq(Stacks) /\ G[s] \in Seq(Stacks) /\ MaxCached \in Nat
    BY StackFacts
  <2>2. Len(F[s]) \in Nat /\ Len(G[s]) \in 1 .. MaxCached
    BY <2>1
  <2> QED
    BY <2>2
<1>2. x \notin SlotsOf(F) /\ SlotsOf(G) = SlotsOf(F) \cup {x}
  <2>1. x \notin SlotsOf(F) /\ x \in SlotsOf(G)
    BY <1>1 DEF SlotsOf
  <2>2. ASSUME NEW e \in Sizes \X (1 .. MaxCached), e # x
        PROVE  e \in SlotsOf(G) <=> e \in SlotsOf(F)
    <3>1. e[1] \in Sizes /\ e[2] \in Nat /\ e = <<e[1], e[2]>>
      BY <2>2
    <3>2. CASE e[1] = s
      <4>1. e[2] # Len(G[s])
        BY <2>2, <3>1, <3>2
      <4>2. e[2] <= Len(G[s]) <=> e[2] <= Len(F[s])
        BY <1>1, <3>1, <4>1
      <4> QED
        BY <3>2, <4>2 DEF SlotsOf
    <3>3. CASE e[1] # s
      BY <3>1, <3>3 DEF SlotsOf
    <3> QED
      BY <3>2, <3>3
  <2> QED
    BY <2>1, <2>2 DEF SlotsOf
<1>3. /\ DOMAIN f = SlotsOf(F) /\ DOMAIN g = DOMAIN f \cup {x} /\ x \notin DOMAIN f
      /\ \A e \in DOMAIN f : g[e] = f[e]
      /\ g[x] = s
  BY <1>1, <1>2
<1>4. \A e \in DOMAIN g : g[e] \in 0 .. MaxSize
  BY StackFacts DEF SlotsOf
<1> HIDE DEF f, g, x
<1>5. Total(g) = Total(f) + g[x] /\ Total(f) \in Nat
  <2>1. MaxSize \in Nat /\ IsFiniteSet(DOMAIN f)
    BY <1>3, StackFacts
  <2> QED
    BY <1>3, <1>4, <2>1, TotalAdds
<1> QED
  BY <1>3, <1>5 DEF f, g, CachedIn

(* A stack more in use is its size more memory.                            *)
LEMMA UseGrows ==
  ASSUME NEW S \in [Stacks -> Requests \cup {0}], NEW T \in [Stacks -> Requests \cup {0}],
         NEW k \in Stacks, S[k] = 0, T[k] # 0, \A j \in Stacks \ {k} : T[j] = S[j]
  PROVE  /\ HeldIn(T) = HeldIn(S) + Clamp(T[k]) /\ HeldIn(S) \in Nat
         /\ Cardinality(UsedIn(T)) = Cardinality(UsedIn(S)) + 1
         /\ Cardinality(UsedIn(S)) \in Nat
<1> DEFINE f == [j \in UsedIn(S) |-> Clamp(S[j])]
           g == [j \in UsedIn(T) |-> Clamp(T[j])]
<1>1. k \notin UsedIn(S) /\ UsedIn(T) = UsedIn(S) \cup {k}
  BY DEF UsedIn
<1>2. /\ DOMAIN f = UsedIn(S) /\ DOMAIN g = DOMAIN f \cup {k} /\ k \notin DOMAIN f
      /\ \A j \in DOMAIN f : g[j] = f[j]
      /\ g[k] = Clamp(T[k])
  BY <1>1 DEF UsedIn
<1>3. \A j \in DOMAIN g : g[j] \in 0 .. MaxSize
  <2>1. \A j \in UsedIn(T) : T[j] \in Nat
    BY StackFacts DEF UsedIn
  <2> QED
    BY <2>1, StackFacts
<1> HIDE DEF f, g
<1>4. Total(g) = Total(f) + g[k] /\ Total(f) \in Nat
  BY <1>2, <1>3, StackFacts, TotalAdds
<1>5. /\ Cardinality(UsedIn(T)) = Cardinality(UsedIn(S)) + 1
      /\ Cardinality(UsedIn(S)) \in Nat
  BY <1>1, StackFacts, FS_AddElement, FS_CardinalityType
<1> QED
  BY <1>2, <1>4, <1>5 DEF f, g, HeldIn

(* They are what the statistics are compared with.                         *)
LEMMA MemoryMeans ==
  /\ CachedMemory = CachedIn(freeStacks) /\ HeldMemory = HeldIn(stackOf)
  /\ InUse = UsedIn(stackOf)
BY DEF CachedMemory, CacheSlots, CachedIn, SlotsOf, HeldMemory, HeldIn, InUse, UsedIn

(* What the caches take up is a number.                                    *)
LEMMA CachedIsNumber == CachedMemory \in Nat
<1> DEFINE f == [e \in SlotsOf(freeStacks) |-> e[1]]
<1>1. \A e \in SlotsOf(freeStacks) : f[e] \in 0 .. MaxSize
  BY StackFacts DEF SlotsOf
<1>2. IsFiniteSet(SlotsOf(freeStacks)) /\ MaxSize \in Nat
  BY StackFacts
<1>3. DOMAIN f = SlotsOf(freeStacks)
  OBVIOUS
<1> HIDE DEF f
<1>4. Total(f) \in Nat
  BY <1>1, <1>2, <1>3, TotalIsNumber
<1> QED
  BY <1>4, MemoryMeans DEF f, CachedIn

(* A stack is cached if it is at some place of some cache.                 *)
LEMMA InCacheMeans ==
  \A k : k \in InCache <=>
    \E s \in Sizes : \E i \in DOMAIN freeStacks[s] : freeStacks[s][i] = k
BY DEF InCache

(* A stack popped from a cache is in no cache any more, ...                *)
LEMMA CachePop ==
  ASSUME freeStacks \in [Sizes -> Seq(Stacks)], CachedOnce,
         NEW s \in Sizes, freeStacks[s] # <<>>,
         NEW k, k = freeStacks[s][Len(freeStacks[s])],
         freeStacks' = [freeStacks EXCEPT ![s] =
                          SubSeq(freeStacks[s], 1, Len(freeStacks[s]) - 1)]
  PROVE  /\ freeStacks' \in [Sizes -> Seq(Stacks)]
         /\ Len(freeStacks[s]) = Len(freeStacks'[s]) + 1
         /\ \A r \in Sizes \ {s} : freeStacks[r] = freeStacks'[r]
         /\ CachedOnce' /\ k \in InCache \ InCache' /\ InCache' \subseteq InCache
<1> DEFINE L == Len(freeStacks[s])
<1>1. /\ freeStacks[s] \in Seq(Stacks) /\ L \in Nat \ {0}
      /\ DOMAIN freeStacks[s] = 1 .. L /\ L \in DOMAIN freeStacks[s]
  OBVIOUS
<1>2. /\ SubSeq(freeStacks[s], 1, L - 1) \in Seq(Stacks)
      /\ Len(SubSeq(freeStacks[s], 1, L - 1)) = L - 1
      /\ DOMAIN SubSeq(freeStacks[s], 1, L - 1) = 1 .. L - 1
      /\ \A i \in 1 .. L - 1 : SubSeq(freeStacks[s], 1, L - 1)[i] = freeStacks[s][i]
  BY <1>1
<1>3. /\ freeStacks'[s] = SubSeq(freeStacks[s], 1, L - 1)
      /\ \A r \in Sizes \ {s} : freeStacks'[r] = freeStacks[r]
      /\ freeStacks' \in [Sizes -> Seq(Stacks)]
  BY <1>2
<1>4. k = freeStacks[s][L] /\ Len(freeStacks[s]) = Len(freeStacks'[s]) + 1
  BY <1>1, <1>2, <1>3
<1> HIDE DEF L
<1>5. \A r \in Sizes : \A i \in DOMAIN freeStacks'[r] :
        /\ i \in DOMAIN freeStacks[r] /\ freeStacks'[r][i] = freeStacks[r][i]
        /\ r = s => i # L
  <2>1. \A i \in 1 .. L - 1 : i \in 1 .. L /\ i # L
    BY <1>1
  <2> QED
    BY <1>1, <1>2, <1>3, <2>1
<1>6. CachedOnce'
  BY <1>5 DEF CachedOnce
<1>7. k \in InCache
  BY <1>1, <1>4, InCacheMeans
<1>8. ASSUME NEW x \in InCache' PROVE x \in InCache /\ x # k
  <2>1. PICK r \in Sizes : \E i \in DOMAIN freeStacks'[r] : freeStacks'[r][i] = x
    BY <1>8 DEF InCache
  <2>2. PICK i \in DOMAIN freeStacks[r] : freeStacks[r][i] = x /\ (r = s => i # L)
    BY <1>5, <2>1
  <2>3. x # k
    BY <1>1, <1>4, <2>2 DEF CachedOnce
  <2> QED
    BY <2>2, <2>3, InCacheMeans
<1> QED
  BY <1>3, <1>4, <1>6, <1>7, <1>8

(* ... and one pushed on a cache is in that one only.                      *)
LEMMA CachePush ==
  ASSUME freeStacks \in [Sizes -> Seq(Stacks)], CachedOnce,
         NEW s \in Sizes, NEW k \in Stacks, k \notin InCache,
         freeStacks' = [freeStacks EXCEPT ![s] = Append(freeStacks[s], k)]
  PROVE  /\ freeStacks' \in [Sizes -> Seq(Stacks)]
         /\ Len(freeStacks'[s]) = Len(freeStacks[s]) + 1
         /\ \A r \in Sizes \ {s} : freeStacks'[r] = freeStacks[r]
         /\ CachedOnce' /\ InCache' \subseteq InCache \cup {k}
<1> DEFINE L == Len(freeStacks[s])
<1>1. /\ freeStacks[s] \in Seq(Stacks) /\ L \in Nat
      /\ DOMAIN freeStacks[s] = 1 .. L
  OBVIOUS
<1>2. /\ Append(freeStacks[s], k) \in Seq(Stacks)
      /\ Len(Append(freeStacks[s], k)) = L + 1
      /\ DOMAIN Append(freeStacks[s], k) = 1 .. L + 1
      /\ Append(freeStacks[s], k)[L + 1] = k
      /\ \A i \in 1 .. L : Append(freeStacks[s], k)[i] = freeStacks[s][i]
  BY <1>1
<1>3. /\ freeStacks'[s] = Append(freeStacks[s], k)
      /\ \A r \in Sizes \ {s} : freeStacks'[r] = freeStacks[r]
      /\ freeStacks' \in [Sizes -> Seq(Stacks)]
  BY <1>2
<1>4. Len(freeStacks'[s]) = Len(freeStacks[s]) + 1
  BY <1>2, <1>3
<1> HIDE DEF L
<1>5. \A r \in Sizes : \A i \in DOMAIN freeStacks'[r] :
        \/ r = s /\ i = L + 1 /\ freeStacks'[r][i] = k
        \/ i \in DOMAIN freeStacks[r] /\ freeStacks'[r][i] = freeStacks[r][i]
  <2>1. \A i \in 1 .. L + 1 : i \in 1 .. L \/ i = L + 1
    BY <1>1
  <2> QED
    BY <1>1, <1>2, <1>3, <2>1
<1>6. \A r \in Sizes : \A i \in DOMAIN freeStacks[r] : freeStacks[r][i] # k
  BY InCacheMeans
<1>7. CachedOnce'
  BY <1>5, <1>6 DEF CachedOnce
<1>8. ASSUME NEW x \in InCache' PROVE x \in InCache \cup {k}
  <2>1. PICK r \in Sizes : \E i \in DOMAIN freeStacks'[r] : freeStacks'[r][i] = x
    BY <1>8 DEF InCache
  <2> QED
    BY <1>5, <2>1, InCacheMeans
<1> QED
  BY <1>3, <1>4, <1>7, <1>8

(* A stack comes from the cache of its size, or from the system.           *)
LEMMA AllocateStackKeeps ==
  ASSUME TypeOK, StackInv, NEW n \in Requests, NEW k \in Stacks, AllocateStack(n, k)
  PROVE  TypeOK' /\ StackInv'
<1>1. PICK s \in Sizes : s = Clamp(n) /\ s \in Nat /\ n # 0
  BY StackFacts
<1>2. /\ freeStacks \in [Sizes -> Seq(Stacks)]
      /\ stackOf \in [Stacks -> Requests \cup {0}]
      /\ stackOf' = [stackOf EXCEPT ![k] = n] /\ allocatedStacks' = allocatedStacks + 1
      /\ UNCHANGED blockVars
  BY DEF TypeOK, AllocateStack
<1>3. /\ stackOf' \in [Stacks -> Requests \cup {0}] /\ stackOf'[k] = n
      /\ \A j \in Stacks \ {k} : stackOf'[j] = stackOf[j]
  BY <1>2
<1>4. /\ CachedOnce /\ InCache \cap InUse = {}
      /\ \A r \in Sizes : Len(freeStacks[r]) <= MaxCached
      /\ allocatedStacks = Cardinality(InUse)
      /\ totalMemory = CachedMemory + HeldMemory
  BY DEF StackInv
<1>5. InUse' \subseteq InUse \cup {k}
  BY <1>3 DEF InUse
<1>6. ASSUME stackOf[k] = 0
      PROVE  /\ HeldMemory' = HeldMemory + s /\ HeldMemory \in Nat
             /\ allocatedStacks' = Cardinality(InUse')
  <2>1. /\ HeldIn(stackOf') = HeldIn(stackOf) + Clamp(stackOf'[k])
        /\ HeldIn(stackOf) \in Nat
        /\ Cardinality(UsedIn(stackOf')) = Cardinality(UsedIn(stackOf)) + 1
    BY <1>1, <1>2, <1>3, <1>6, UseGrows
  <2>2. /\ HeldMemory = HeldIn(stackOf) /\ HeldMemory' = HeldIn(stackOf')
        /\ InUse = UsedIn(stackOf) /\ InUse' = UsedIn(stackOf')
    BY DEF HeldMemory, HeldIn, InUse, UsedIn
  <2> QED
    BY <1>1, <1>2, <1>3, <1>4, <2>1, <2>2
<1>7. CASE freeStacks[s] # <<>>
  <2>1. /\ k = freeStacks[s][Len(freeStacks[s])] /\ totalMemory' = totalMemory
        /\ freeStacks' = [freeStacks EXCEPT ![s] =
                            SubSeq(freeStacks[s], 1, Len(freeStacks[s]) - 1)]
    BY <1>1, <1>7 DEF AllocateStack
  <2>2. /\ freeStacks' \in [Sizes -> Seq(Stacks)]
        /\ Len(freeStacks[s]) = Len(freeStacks'[s]) + 1
        /\ \A r \in Sizes \ {s} : freeStacks[r] = freeStacks'[r]
        /\ CachedOnce' /\ k \in InCache \ InCache' /\ InCache' \subseteq InCache
    BY <1>2, <1>4, <1>7, <2>1, CachePop
  <2>3. stackOf[k] = 0
    BY <1>4, <2>2 DEF InUse
  <2>4. CachedMemory = CachedMemory' + s /\ CachedMemory' \in Nat
    <3>1. CachedIn(freeStacks) = CachedIn(freeStacks') + s /\ CachedIn(freeStacks') \in Nat
      BY <1>2, <1>4, <2>2, CacheGrows
    <3> QED
      BY <3>1 DEF CachedMemory, CacheSlots, CachedIn, SlotsOf
  <2>5. totalMemory' = CachedMemory' + HeldMemory'
    BY <1>1, <1>4, <1>6, <2>1, <2>3, <2>4
  <2>6. \A r \in Sizes : Len(freeStacks'[r]) <= MaxCached
    <3>1. Len(freeStacks'[s]) \in Nat /\ Len(freeStacks[s]) <= MaxCached
      BY <1>4, <2>2
    <3>3. MaxCached \in Nat
      BY StackFacts
    <3>2. Len(freeStacks'[s]) <= MaxCached
      BY <2>2, <3>1, <3>3
    <3> QED
      BY <1>4, <2>2, <3>2
  <2>7. InCache' \cap InUse' = {}
    BY <1>4, <1>5, <2>2
  <2> QED
    BY <1>2, <1>3, <1>6, <2>2, <2>3, <2>5, <2>6, <2>7 DEF TypeOK, StackInv, blockVars
<1>8. CASE freeStacks[s] = <<>>
  <2>1. /\ stackOf[k] = 0 /\ k \notin InCache /\ totalMemory' = totalMemory + s
        /\ freeStacks' = freeStacks
    BY <1>1, <1>8 DEF AllocateStack
  <2>2. /\ CachedMemory' = CachedMemory /\ InCache' = InCache /\ CachedOnce'
    BY <1>4, <2>1 DEF CachedMemory, CacheSlots, InCache, CachedOnce
  <2>3. CachedMemory \in Nat
    BY CachedIsNumber
  <2>4. totalMemory' = CachedMemory' + HeldMemory'
    BY <1>1, <1>4, <1>6, <2>1, <2>2, <2>3
  <2> QED
    BY <1>2, <1>3, <1>4, <1>5, <1>6, <2>1, <2>2, <2>4 DEF TypeOK, StackInv, blockVars
<1> QED
  BY <1>7, <1>8

(* A stack given back goes to the cache of its size, or to the system.     *)
LEMMA DeallocateStackKeeps ==
  ASSUME TypeOK, StackInv, NEW k \in Stacks, DeallocateStack(k)
  PROVE  TypeOK' /\ StackInv'
<1>1. PICK s \in Sizes : s = Clamp(stackOf[k]) /\ s \in Nat
  BY StackFacts DEF DeallocateStack, TypeOK
<1>2. /\ freeStacks \in [Sizes -> Seq(Stacks)]
      /\ stackOf \in [Stacks -> Requests \cup {0}] /\ stackOf[k] # 0
      /\ stackOf' = [stackOf EXCEPT ![k] = 0] /\ allocatedStacks' = allocatedStacks - 1
      /\ UNCHANGED blockVars
  BY DEF TypeOK, DeallocateStack
<1>3. /\ stackOf' \in [Stacks -> Requests \cup {0}] /\ stackOf'[k] = 0
      /\ \A j \in Stacks \ {k} : stackOf[j] = stackOf'[j]
  BY <1>2
<1>4. /\ CachedOnce /\ InCache \cap InUse = {}
      /\ \A r \in Sizes : Len(freeStacks[r]) <= MaxCached
      /\ allocatedStacks = Cardinality(InUse)
      /\ totalMemory = CachedMemory + HeldMemory
  BY DEF StackInv
<1>5. InUse' \subseteq InUse \ {k} /\ k \in InUse
  BY <1>2, <1>3 DEF InUse
<1>6. /\ HeldMemory = HeldMemory' + s /\ HeldMemory' \in Nat
      /\ allocatedStacks' = Cardinality(InUse')
  <2>1. /\ HeldIn(stackOf) = HeldIn(stackOf') + Clamp(stackOf[k])
        /\ HeldIn(stackOf') \in Nat
        /\ Cardinality(UsedIn(stackOf)) = Cardinality(UsedIn(stackOf')) + 1
        /\ Cardinality(UsedIn(stackOf')) \in Nat
    <3>1. /\ stackOf' \in [Stacks -> Requests \cup {0}]
          /\ stackOf \in [Stacks -> Requests \cup {0}]
          /\ stackOf'[k] = 0 /\ stackOf[k] # 0
          /\ \A j \in Stacks \ {k} : stackOf[j] = stackOf'[j]
      BY <1>2, <1>3
    <3> QED
      BY <3>1, UseGrows
  <2>2. /\ HeldMemory = HeldIn(stackOf) /\ HeldMemory' = HeldIn(stackOf')
        /\ InUse = UsedIn(stackOf) /\ InUse' = UsedIn(stackOf')
    BY DEF HeldMemory, HeldIn, InUse, UsedIn
  <2> QED
    BY <1>1, <1>2, <1>4, <2>1, <2>2
<1>7. CachedMemory \in Nat
  BY CachedIsNumber
<1>8. CASE Len(freeStacks[s]) < MaxCached
  <2>1. /\ freeStacks' = [freeStacks EXCEPT ![s] = Append(freeStacks[s], k)]
        /\ totalMemory' = totalMemory
    BY <1>1, <1>8 DEF DeallocateStack
  <2>2. k \notin InCache
    BY <1>4, <1>5
  <2>3. /\ freeStacks' \in [Sizes -> Seq(Stacks)]
        /\ Len(freeStacks'[s]) = Len(freeStacks[s]) + 1
        /\ \A r \in Sizes \ {s} : freeStacks'[r] = freeStacks[r]
        /\ CachedOnce' /\ InCache' \subseteq InCache \cup {k}
    BY <1>2, <1>4, <2>1, <2>2, CachePush
  <2>4. Len(freeStacks'[s]) <= MaxCached
    <3>1. Len(freeStacks[s]) \in Nat /\ MaxCached \in Nat
      BY <1>2, StackFacts
    <3> QED
      BY <1>8, <2>3, <3>1
  <2>5. CachedMemory' = CachedMemory + s
    <3>1. CachedIn(freeStacks') = CachedIn(freeStacks) + s
      BY <1>2, <2>3, <2>4, CacheGrows
    <3> QED
      BY <3>1 DEF CachedMemory, CacheSlots, CachedIn, SlotsOf
  <2>6. totalMemory' = CachedMemory' + HeldMemory'
    BY <1>1, <1>4, <1>6, <1>7, <2>1, <2>5
  <2>7. \A r \in Sizes : Len(freeStacks'[r]) <= MaxCached
    BY <1>4, <2>3, <2>4
  <2>8. InCache' \cap InUse' = {}
    BY <1>4, <1>5, <2>3
  <2> QED
    BY <1>2, <1>3, <1>6, <2>3, <2>6, <2>7, <2>8 DEF TypeOK, StackInv, blockVars
<1>9. CASE ~(Len(freeStacks[s]) < MaxCached)
  <2>1. freeStacks' = freeStacks /\ totalMemory' = totalMemory - s
    BY <1>1, <1>9 DEF DeallocateStack
  <2>2. /\ CachedMemory' = CachedMemory /\ InCache' = InCache /\ CachedOnce'
    BY <1>4, <2>1 DEF CachedMemory, CacheSlots, InCache, CachedOnce
  <2>3. totalMemory' = CachedMemory' + HeldMemory'
    BY <1>1, <1>4, <1>6, <1>7, <2>1, <2>2
  <2> QED
    BY <1>2, <1>3, <1>4, <1>5, <1>6, <2>1, <2>2, <2>3 DEF TypeOK, StackInv, blockVars
<1> QED
  BY <1>8, <1>9

(* Clearing the caches takes just their share out of the total.            *)
LEMMA ClearCacheKeeps ==
  ASSUME TypeOK, StackInv, ClearCache
  PROVE  TypeOK' /\ StackInv'
<1>1. /\ freeStacks' = [s \in Sizes |-> <<>>]
      /\ totalMemory' = totalMemory - CachedMemory
      /\ UNCHANGED <<blockVars, allocatedStacks, stackOf>>
  BY DEF ClearCache
<1>2. /\ freeStacks' \in [Sizes -> Seq(Stacks)]
      /\ \A s \in Sizes : Len(freeStacks'[s]) = 0 /\ DOMAIN freeStacks'[s] = {}
  BY <1>1
<1>3. TypeOK'
  BY <1>1, <1>2 DEF TypeOK, blockVars
<1>4. CachedOnce' /\ InCache' = {}
  BY <1>2 DEF CachedOnce, InCache
<1>5. /\ InUse' = InUse /\ HeldMemory' = HeldMemory
  BY <1>1 DEF InUse, HeldMemory
<1>6. CachedMemory' = 0
  <2>1. SlotsOf(freeStacks') = {}
    BY <1>2 DEF SlotsOf
  <2>2. CachedIn(freeStacks') = 0
    BY <2>1, TotalOfNone DEF CachedIn
  <2> QED
    BY <2>2 DEF CachedMemory, CacheSlots, CachedIn, SlotsOf
<1>7. HeldMemory \in Nat
  <2> DEFINE f == [k \in UsedIn(stackOf) |-> Clamp(stackOf[k])]
  <2>1. \A k \in UsedIn(stackOf) : f[k] \in 0 .. MaxSize
    BY StackFacts DEF UsedIn, TypeOK
  <2>2. IsFiniteSet(UsedIn(stackOf)) /\ MaxSize \in Nat
    BY StackFacts
  <2>3. DOMAIN f = UsedIn(stackOf)
    OBVIOUS
  <2> HIDE DEF f
  <2>4. Total(f) \in Nat
    BY <2>1, <2>2, <2>3, TotalIsNumber
  <2> QED
    BY <2>4, MemoryMeans DEF f, HeldIn
<1>8. totalMemory' = CachedMemory' + HeldMemory'
  BY <1>1, <1>5, <1>6, <1>7, CachedIsNumber DEF StackInv
<1>9. \A s \in Sizes : Len(freeStacks'[s]) <= MaxCached
  BY <1>2, StackFacts
<1> QED
  BY <1>1, <1>3, <1>4, <1>5, <1>8, <1>9 DEF StackInv

-----------------------------------------------------------------------------
(* The theorems                                                            *)

(* The pool starts with the blocks of one chunk and no stacks.             *)
LEMMA InitInv == Init => Inv
<1> SUFFICES ASSUME Init PROVE Inv
  OBVIOUS
<1>1. /\ chunks = 1 /\ freeBlocks = ChunkBlocks(1) /\ held = {} /\ dropped = {}
      /\ allocated = 0 /\ peak = 0 /\ ~broken /\ allocatedStacks = 0 /\ totalMemory = 0
      /\ large = 0 /\ broken \in BOOLEAN
      /\ freeStacks = [s \in Sizes |-> <<>>] /\ stackOf = [k \in Stacks |-> 0]
  BY DEF Init
<1>2. 1 \in 1 .. MaxChunks /\ 0 \in 0 .. MaxLarge
  BY MemoryPoolAssumption
<1>3. /\ freeBlocks \in Seq(Blocks) /\ Len(freeBlocks) = BlocksPerChunk
      /\ DOMAIN freeBlocks = 1 .. BlocksPerChunk
      /\ \A i \in 1 .. BlocksPerChunk : freeBlocks[i] = <<1, i>>
  BY <1>1, <1>2, ChunkIsList
<1>4. TypeOK
  BY <1>1, <1>2, <1>3 DEF TypeOK
<1>5. Cardinality({}) = 0
  BY FS_EmptySet
<1>6. BlocksInOnePlace
  BY <1>1, <1>3 DEF BlocksInOnePlace
<1>7. BlockInv
  <2>1. Len(freeBlocks) + Cardinality(held) <= BlocksPerChunk
    BY <1>1, <1>3, <1>5, MemoryPoolAssumption
  <2> QED
    BY <1>1, <1>5, <1>6, <2>1 DEF BlockInv, Bounded
<1>8. StackInv
  <2>1. \A s \in Sizes : Len(freeStacks[s]) = 0 /\ DOMAIN freeStacks[s] = {}
    BY <1>1
  <2>2. CachedOnce /\ InCache = {}
    BY <2>1 DEF CachedOnce, InCache
  <2>3. InUse = {}
    BY <1>1 DEF InUse
  <2>4. CachedMemory = 0
    <3>1. CacheSlots = {}
      BY <2>1 DEF CacheSlots
    <3> QED
      BY <3>1, TotalOfNone DEF CachedMemory
  <2>5. HeldMemory = 0
    BY <2>3, TotalOfNone DEF HeldMemory
  <2>6. \A s \in Sizes : Len(freeStacks[s]) <= MaxCached
    BY <2>1, StackFacts
  <2> QED
    BY <1>1, <1>5, <2>2, <2>3, <2>4, <2>5, <2>6 DEF StackInv
<1> QED
  BY <1>1, <1>4, <1>7, <1>8 DEF Inv, BrokenByPeak

(* Inv is inductive: blocks and stacks do not share anything.              *)
LEMMA NextInv == Inv /\ [Next]_vars => Inv'
<1> SUFFICES ASSUME Inv, [Next]_vars PROVE Inv'
  OBVIOUS
<1>1. TypeOK /\ (~broken => BlockInv /\ StackInv) /\ BrokenByPeak
  BY DEF Inv
<1>2. ASSUME UNCHANGED stackVars
      PROVE  StackInv => StackInv'
  <2>1. /\ CachedMemory' = CachedMemory /\ HeldMemory' = HeldMemory
        /\ InCache' = InCache /\ InUse' = InUse
    BY <1>2 DEF stackVars, CachedMemory, CacheSlots, HeldMemory, InCache, InUse
  <2> QED
    BY <1>2, <2>1 DEF StackInv, CachedOnce, stackVars
<1>3. ASSUME UNCHANGED blockVars
      PROVE  (BlockInv => BlockInv') /\ BrokenByPeak'
  BY <1>1, <1>3 DEF BlockInv, BlocksInOnePlace, Bounded, BrokenByPeak, blockVars
<1>4. CASE Allocate
  <2>1. ~broken /\ broken' = broken /\ UNCHANGED stackVars
    BY <1>4 DEF Allocate, TakeBack
  <2> QED
    BY <1>1, <1>2, <1>4, <2>1, AllocateKeeps DEF Inv, BrokenByPeak
<1>5. CASE AllocateLarge \/ DeallocateLarge
  <2>1. /\ ~broken /\ large' \in 0 .. MaxLarge
        /\ UNCHANGED <<chunks, freeBlocks, allocated, held, dropped, peak, broken, stackVars>>
    BY <1>1, <1>5, MemoryPoolAssumption DEF AllocateLarge, DeallocateLarge, TypeOK
  <2>2. TypeOK'
    BY <1>1, <2>1 DEF TypeOK, stackVars
  <2>3. BlockInv'
    BY <1>1, <2>1 DEF BlockInv, BlocksInOnePlace, Bounded
  <2> QED
    BY <1>1, <1>2, <2>1, <2>2, <2>3 DEF Inv, BrokenByPeak
<1>6. CASE ShrinkToFit
  <2>1. ~broken /\ broken' = broken /\ UNCHANGED stackVars
    BY <1>6 DEF ShrinkToFit
  <2> QED
    BY <1>1, <1>2, <1>6, <2>1, ShrinkKeeps DEF Inv, BrokenByPeak
<1>7. CASE ClearCache
  <2>1. ~broken /\ UNCHANGED blockVars
    BY <1>7 DEF ClearCache
  <2> QED
    BY <1>1, <1>3, <1>7, <2>1, ClearCacheKeeps DEF Inv
<1>8. ASSUME NEW b \in Blocks, Deallocate(b)
      PROVE  Inv'
  <2>1. ~broken /\ UNCHANGED stackVars
    BY <1>8 DEF Deallocate
  <2> QED
    BY <1>1, <1>2, <1>8, <2>1, DeallocateKeeps DEF Inv
<1>9. ASSUME NEW n \in Requests, NEW k \in Stacks, AllocateStack(n, k)
      PROVE  Inv'
  <2>1. ~broken /\ UNCHANGED blockVars
    BY <1>9 DEF AllocateStack
  <2> QED
    BY <1>1, <1>3, <1>9, <2>1, AllocateStackKeeps DEF Inv
<1>10. ASSUME NEW k \in Stacks, DeallocateStack(k)
       PROVE  Inv'
  <2>1. ~broken /\ UNCHANGED blockVars
    BY <1>10 DEF DeallocateStack
  <2> QED
    BY <1>1, <1>3, <1>10, <2>1, DeallocateStackKeeps DEF Inv
<1>11. CASE UNCHANGED vars
  <2>1. UNCHANGED blockVars /\ UNCHANGED stackVars /\ broken' = broken
    BY <1>11 DEF vars, blockVars
  <2>2. TypeOK'
    BY <1>1, <2>1 DEF TypeOK, blockVars, stackVars
  <2> QED
    BY <1>1, <1>2, <1>3, <2>1, <2>2 DEF Inv
<1> QED
  BY <1>4, <1>5, <1>6, <1>7, <1>8, <1>9, <1>10, <1>11 DEF Next

(* The inductive invariant of MemoryPool.                                  *)
THEOREM Invariance == Spec => []Inv
<1> QED
  BY InitInv, NextInv, PTL DEF Spec

(* The variables have their types.                                         *)
THEOREM Typing == Spec => []TypeOK
<1>1. Inv => TypeOK
  BY DEF Inv
<1> QED
  BY <1>1, Invariance, PTL

(* As long as the heap is undamaged every block and every stack is in one  *)
(* place, and the three statistics, sums of sizes included, are exact.     *)
THEOREM Bookkeeping == Spec => []Accounting
<1>1. Inv => Accounting
  BY DEF Inv, BlockInv, StackInv, Accounting
<1> QED
  BY <1>1, Invariance, PTL

(* A block is given to free() only after more than MaxFree + 1 less one    *)
(* chunk were held at once.                                                *)
THEOREM Breakage == Spec => []BrokenByPeak
<1>1. Inv => BrokenByPeak
  BY DEF Inv
<1> QED
  BY <1>1, Invariance, PTL
=============================================================================
