----------------------------- MODULE MemoryPool -----------------------------
(***************************************************************************)
(* MemoryPool<BlockSize> and CoroutineStackPool.  Every operation of       *)
(* either is one critical section, so an action is a whole operation, of   *)
(* any thread.  What is modelled of an address is where it came from: a    *)
(* block is <<chunk, index>>; a stack is a number and has the size it was  *)
(* allocated with.  Clients give back what they hold, once, with the size  *)
(* they asked for.                                                         *)
(***************************************************************************)
EXTENDS Naturals, Sequences, FiniteSets

CONSTANTS
  BlocksPerChunk,     (* blocks_per_chunk_: 256                            *)
  MaxFree,            (* max_free_blocks_: 512                             *)
  MaxChunks,          (* bound: the system has no memory for more, ...     *)
  MaxLarge,           (* bound: ... for larger blocks, ...                 *)
  Stacks,             (* bound: ... or for other stacks                    *)
  MinSize, MaxSize,   (* MIN_STACK_SIZE, MAX_STACK_SIZE                    *)
  Requests,           (* the stack sizes clients ask for                   *)
  MaxCached           (* max_cached_stacks_per_size_: 50                   *)

ASSUME MemoryPoolAssumption ==
  /\ BlocksPerChunk \in Nat \ {0} /\ MaxFree \in Nat /\ MaxChunks \in Nat \ {0}
  /\ BlocksPerChunk <= MaxFree
  /\ MaxLarge \in Nat /\ IsFiniteSet(Stacks)
  /\ MinSize \in Nat /\ MaxSize \in Nat /\ MinSize <= MaxSize
  /\ Requests \subseteq Nat \ {0} /\ MaxCached \in Nat

VARIABLES
  chunks,           (* chunks_.size()                                      *)
  freeBlocks,       (* free_blocks_                                        *)
  allocated,        (* allocated_blocks_                                   *)
  held,             (* blocks the clients hold                             *)
  dropped,          (* blocks shrink_pool() forgot                         *)
  large,            (* larger blocks the clients hold                      *)
  peak,             (* history: the most blocks ever held at once          *)
  broken,           (* a block was given to free(): the heap is damaged    *)
  freeStacks,       (* free_stacks_                                        *)
  allocatedStacks,  (* allocated_stacks_                                   *)
  totalMemory,      (* total_allocated_memory_                             *)
  stackOf           (* the size of each stack a client holds, 0: none      *)

blockVars == <<chunks, freeBlocks, allocated, held, dropped, large, peak,
               broken>>
stackVars == <<freeStacks, allocatedStacks, totalMemory, stackOf>>
vars == <<blockVars, stackVars>>

Blocks == (1 .. MaxChunks) \X (1 .. BlocksPerChunk)

ChunkBlocks(c) == [i \in 1 .. BlocksPerChunk |-> <<c, i>>]

(* std::clamp *)
Clamp(n) == IF n < MinSize THEN MinSize ELSE IF n > MaxSize THEN MaxSize ELSE n
Sizes == {Clamp(n) : n \in Requests}

InCache ==
  UNION {{freeStacks[s][i] : i \in DOMAIN freeStacks[s]} : s \in Sizes}

(* The pool starts with a chunk.                                           *)
Init ==
  /\ chunks = 1 /\ freeBlocks = ChunkBlocks(1)
  /\ allocated = 0 /\ held = {} /\ dropped = {} /\ large = 0
  /\ peak = 0 /\ broken = FALSE
  /\ freeStacks = [s \in Sizes |-> <<>>]
  /\ allocatedStacks = 0 /\ totalMemory = 0
  /\ stackOf = [k \in Stacks |-> 0]
-----------------------------------------------------------------------------
(* MemoryPool                                                              *)

(* Breaks Accounting: the block handed out stays at the end of the list.   *)
TakeBackOnly(list, n) ==
  /\ held' = held \cup {list[Len(list)]}
  /\ freeBlocks' = list
  /\ allocated' = allocated + 1
  /\ chunks' = n
  /\ peak' = IF Cardinality(held') > peak THEN Cardinality(held') ELSE peak
  /\ UNCHANGED <<dropped, large, broken, stackVars>>

(* The last block of the list is handed out.                               *)
TakeBack(list, n) ==
  /\ held' = held \cup {list[Len(list)]}
  /\ freeBlocks' = SubSeq(list, 1, Len(list) - 1)
  /\ allocated' = allocated + 1
  /\ chunks' = n
  /\ peak' = IF Cardinality(held') > peak THEN Cardinality(held') ELSE peak
  /\ UNCHANGED <<dropped, large, broken, stackVars>>

(* Breaks BrokenByPeak: a chunk is added while there are blocks left.      *)
AllocateEager ==
  /\ ~broken /\ chunks < MaxChunks
  /\ TakeBack(freeBlocks \o ChunkBlocks(chunks + 1), chunks + 1)

(* An empty list is filled from a new chunk first; when there is no memory *)
(* for it the caller gets a null pointer and nothing changes.              *)
Allocate ==
  /\ ~broken
  /\ IF freeBlocks # <<>> THEN TakeBack(freeBlocks, chunks)
     ELSE /\ chunks < MaxChunks
          /\ TakeBack(ChunkBlocks(chunks + 1), chunks + 1)

(* Whatever lies in a chunk, and finds the list full, goes to free().      *)
Deallocate(b) ==
  /\ ~broken /\ b \in held
  /\ held' = held \ {b}
  /\ IF Len(freeBlocks) < MaxFree
       THEN /\ freeBlocks' = Append(freeBlocks, b)
            /\ allocated' = allocated - 1
            /\ UNCHANGED broken
       ELSE /\ broken' = TRUE
            /\ UNCHANGED <<freeBlocks, allocated>>
  /\ UNCHANGED <<chunks, dropped, large, peak, stackVars>>

(* More than BlockSize bytes, or more than one object of a PoolAllocator:  *)
(* posix_memalign and free, and no count.                                  *)
AllocateLarge ==
  /\ ~broken /\ large < MaxLarge /\ large' = large + 1
  /\ UNCHANGED <<chunks, freeBlocks, allocated, held, dropped, peak, broken,
                 stackVars>>

DeallocateLarge ==
  /\ ~broken /\ large > 0 /\ large' = large - 1
  /\ UNCHANGED <<chunks, freeBlocks, allocated, held, dropped, peak, broken,
                 stackVars>>

(* Half of MaxFree blocks are kept, the others belong to nobody from then  *)
(* on: their chunks live as long as the pool.                              *)
ShrinkToFit ==
  LET keep == MaxFree \div 2 IN
  /\ ~broken /\ Len(freeBlocks) > keep
  /\ freeBlocks' = SubSeq(freeBlocks, 1, keep)
  /\ dropped' = dropped \cup
                  {freeBlocks[i] : i \in keep + 1 .. Len(freeBlocks)}
  /\ UNCHANGED <<chunks, allocated, held, large, peak, broken, stackVars>>

-----------------------------------------------------------------------------
(* CoroutineStackPool                                                      *)

(* From the cache of that size, or from the system.                        *)
AllocateStack(n, k) ==
  LET size == Clamp(n)
      cache == freeStacks[size]
  IN /\ ~broken
     /\ IF cache # <<>>
          THEN /\ k = cache[Len(cache)]
               /\ freeStacks' = [freeStacks EXCEPT ![size] =
                                   SubSeq(cache, 1, Len(cache) - 1)]
               /\ UNCHANGED totalMemory
          ELSE /\ stackOf[k] = 0 /\ k \notin InCache
               /\ totalMemory' = totalMemory + size
               /\ UNCHANGED freeStacks
     /\ allocatedStacks' = allocatedStacks + 1
     /\ stackOf' = [stackOf EXCEPT ![k] = n]
     /\ UNCHANGED blockVars

DeallocateStack(k) ==
  LET size == Clamp(stackOf[k]) IN
  /\ ~broken /\ stackOf[k] # 0
  /\ IF Len(freeStacks[size]) < MaxCached
       THEN /\ freeStacks' = [freeStacks EXCEPT ![size] = Append(@, k)]
            /\ UNCHANGED totalMemory
       ELSE /\ totalMemory' = totalMemory - size
            /\ UNCHANGED freeStacks
  /\ allocatedStacks' = allocatedStacks - 1
  /\ stackOf' = [stackOf EXCEPT ![k] = 0]
  /\ UNCHANGED blockVars

(* The sum of a function's values, as the number of pairs of an argument   *)
(* and a number up to its value.                                           *)
Total(f) == Cardinality(UNION {{x} \X (1 .. f[x]) : x \in DOMAIN f})

(* What the cached stacks take up, by the key each is kept under.          *)
CacheSlots ==
  {e \in Sizes \X (1 .. MaxCached) : e[2] <= Len(freeStacks[e[1]])}

CachedMemory == Total([e \in CacheSlots |-> e[1]])

ClearCache ==
  /\ ~broken /\ InCache # {}
  /\ freeStacks' = [s \in Sizes |-> <<>>]
  /\ totalMemory' = totalMemory - CachedMemory
  /\ UNCHANGED <<blockVars, allocatedStacks, stackOf>>
-----------------------------------------------------------------------------
Next ==
  \/ Allocate \/ AllocateLarge \/ DeallocateLarge \/ ShrinkToFit \/ ClearCache
  \/ \E b \in Blocks : Deallocate(b)
  \/ \E n \in Requests, k \in Stacks : AllocateStack(n, k)
  \/ \E k \in Stacks : DeallocateStack(k)

Spec == Init /\ [][Next]_vars
-----------------------------------------------------------------------------
TypeOK ==
  /\ chunks \in 1 .. MaxChunks
  /\ freeBlocks \in Seq(Blocks)
  /\ allocated \in Nat
  /\ held \in SUBSET Blocks /\ dropped \in SUBSET Blocks
  /\ large \in 0 .. MaxLarge /\ peak \in Nat /\ broken \in BOOLEAN
  /\ freeStacks \in [Sizes -> Seq(Stacks)]
  /\ stackOf \in [Stacks -> Requests \cup {0}]

InUse == {k \in Stacks : stackOf[k] # 0}

HeldMemory == Total([k \in InUse |-> Clamp(stackOf[k])])

(* A block of a chunk is in the list once, or held, or dropped.            *)
BlocksInOnePlace ==
  /\ \A i, j \in DOMAIN freeBlocks : freeBlocks[i] = freeBlocks[j] => i = j
  /\ \A i \in DOMAIN freeBlocks : freeBlocks[i] \notin held \cup dropped
  /\ held \cap dropped = {}
  /\ \A b \in held \cup dropped : b[1] <= chunks
  /\ \A i \in DOMAIN freeBlocks : freeBlocks[i][1] <= chunks

CachedOnce ==
  \A r, s \in Sizes : \A i \in DOMAIN freeStacks[r], j \in DOMAIN freeStacks[s] :
    freeStacks[r][i] = freeStacks[s][j] => r = s /\ i = j

(* No client is given a block or a stack that another holds or that is     *)
(* offered twice, and the three statistics are what they say they are.     *)
(* This is so until the pool damages the heap.                             *)
Accounting ==
  ~broken =>
    /\ BlocksInOnePlace
    /\ allocated = Cardinality(held)
    /\ CachedOnce /\ InCache \cap InUse = {}
    /\ allocatedStacks = Cardinality(InUse)
    /\ totalMemory = CachedMemory + HeldMemory

(* deallocate() gives an address inside a chunk to free() only if many     *)
(* blocks were held at some time: more than 257 of them, as it is built.   *)
BrokenByPeak == broken => peak + BlocksPerChunk > MaxFree + 1
=============================================================================
