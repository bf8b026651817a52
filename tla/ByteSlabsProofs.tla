-------------------------- MODULE ByteSlabsProofs --------------------------
(***************************************************************************)
(* Proofs about ByteSlabs, for every number of requests, chunks and slabs, *)
(* every slab size and every set of sizes.                                 *)
(***************************************************************************)
EXTENDS MCByteSlabs, FiniteSetTheorems, WellFoundedInduction, TLAPS

-----------------------------------------------------------------------------
(* Arithmetic of slabs. *)

LEMMA DivMod ==
  ASSUME NEW x \in Nat
  PROVE  /\ x \div SlabSize \in Nat
         /\ x % SlabSize \in 0 .. SlabSize - 1
         /\ x = (x \div SlabSize) * SlabSize + (x % SlabSize)
  BY SlabAssumption, Z3

LEMMA NextBase ==
  ASSUME NEW i \in Int
  PROVE  i * SlabSize \in Int /\ (i + 1) * SlabSize = i * SlabSize + SlabSize
  BY SlabAssumption, Z3

LEMMA BaseType == \A s \in Slabs : Base(s) \in Nat
  BY SlabAssumption, Z3 DEF Base, Slabs

(* Slabs do not overlap. *)
LEMMA BaseMonotone ==
  ASSUME NEW i \in Nat, NEW j \in Nat, i < j
  PROVE  i * SlabSize + SlabSize <= j * SlabSize
  BY SlabAssumption, Z3

(* Every byte lies in a slab. *)
LEMMA ByteHasSlab ==
  ASSUME NEW x \in Nat, x < SlabCount * SlabSize
  PROVE  \E s \in Slabs : Base(s) <= x /\ x < Base(s) + SlabSize
<1> DEFINE q == x \div SlabSize
<1>1. /\ q \in Nat /\ q * SlabSize \in Int
      /\ x % SlabSize \in 0 .. SlabSize - 1 /\ x = q * SlabSize + (x % SlabSize)
  BY DivMod, NextBase, SlabAssumption
<1>2. q * SlabSize <= x /\ x < q * SlabSize + SlabSize
  BY <1>1, SlabAssumption
<1>3. q < SlabCount
  <2> SUFFICES ASSUME q >= SlabCount PROVE FALSE
    BY <1>1, SlabAssumption
  <2> HIDE DEF q
  <2>1. q * SlabSize >= SlabCount * SlabSize
    BY <1>1, SlabAssumption, Z3
  <2> QED BY <2>1, <1>1, <1>2, NextBase, SlabAssumption
<1>4. q \in Slabs
  BY <1>1, <1>3, SlabAssumption DEF Slabs
<1> QED BY <1>2, <1>4 DEF Base

(* The slabs of a call hold its bytes and leave a tail of SlabFree bytes. *)
LEMMA SlabsOfCall ==
  ASSUME NEW size \in Nat
  PROVE  /\ SlabsNeeded(size) \in Nat
         /\ SlabFree(size) \in 0 .. SlabSize - 1
         /\ SlabsNeeded(size) * SlabSize = size + SlabFree(size)
<1>1. CASE size % SlabSize = 0
  <2>1. SlabSize % SlabSize = 0
    BY SlabAssumption, Z3
  <2>2. SlabFree(size) = 0
    BY <1>1, <2>1, SlabAssumption DEF SlabFree
  <2> QED BY <2>2, DivMod, <1>1, SlabAssumption DEF SlabsNeeded
<1>2. CASE size % SlabSize # 0
  <2>1. SlabSize - (size % SlabSize) \in 1 .. SlabSize - 1
    BY <1>2, DivMod, SlabAssumption
  <2>2. \A y \in 1 .. SlabSize - 1 : y % SlabSize = y
    BY SlabAssumption, Z3
  <2>3. SlabFree(size) = SlabSize - (size % SlabSize)
    BY <2>1, <2>2, SlabAssumption DEF SlabFree
  <2>4. SlabsNeeded(size) = (size \div SlabSize) + 1
    BY <2>1, <2>3, SlabAssumption DEF SlabsNeeded
  <2>5. size \div SlabSize \in Nat
    BY DivMod
  <2>6. SlabsNeeded(size) * SlabSize = (size \div SlabSize) * SlabSize + SlabSize
    BY <2>4, <2>5, NextBase
  <2>7. /\ (size \div SlabSize) * SlabSize \in Int /\ size % SlabSize \in Int
        /\ size = (size \div SlabSize) * SlabSize + (size % SlabSize)
    BY <2>5, DivMod, NextBase
  <2>8. SlabsNeeded(size) * SlabSize = size + SlabFree(size)
    BY <2>3, <2>6, <2>7, SlabAssumption
  <2> QED BY <2>1, <2>3, <2>4, <2>5, <2>8, SlabAssumption
<1> QED BY <1>1, <1>2

-----------------------------------------------------------------------------
(* Allocators. *)

LEMMA AllocatorFacts ==
  /\ \A r \in Requests : /\ Home(r) \in Allocators /\ Addl(r) \in Allocators
                         /\ Home(r)[1] = r /\ Addl(r)[1] = r
  /\ \A r, q \in Requests : /\ Home(r) # Addl(q)
                            /\ Home(r) = Home(q) => r = q
                            /\ Addl(r) = Addl(q) => r = q
  /\ \A a \in Allocators : /\ a[1] \in Requests
                           /\ a = Home(a[1]) \/ a = Addl(a[1])
BY DEF Allocators, Home, Addl

-----------------------------------------------------------------------------
(* Types, with where an allocator is bound at each place of the code. *)

Bound ==
  \A r \in Requests :
    /\ pc[r] # "none" => mem_chunk[Home(r)] \in Chunks
    /\ pc[r] \in {"route", "relAddl"} => mem_chunk[Addl(r)] \in Chunks
    /\ pc[r] \in {"none", "scan"} => mem_chunk[Addl(r)] = NoChunk

Typing == TypeOK /\ Bound

LEMMA NoChunkFact == NoChunk \notin Chunks
BY SlabAssumption DEF Chunks

LEMMA InitTyping == Init => Typing
<1> SUFFICES ASSUME Init PROVE Typing
  OBVIOUS
<1>1. TypeOK
  BY SlabAssumption DEF Init, TypeOK, Chunks, NoScan, Serving
<1>2. Bound
  BY AllocatorFacts DEF Init, Bound
<1> QED BY <1>1, <1>2 DEF Typing
(* What allocate_slab leaves of the types. *)
LEMMA AllocateSlabTyping ==
  ASSUME TypeOK, NEW r \in Requests, NEW a \in Allocators,
         mem_chunk[a] \in Chunks, AllocateSlab(r, a)
  PROVE  /\ slab_used' \in [Chunks -> SUBSET Slabs]
         /\ used_slab_count' \in [Chunks -> Int]
         /\ stat' \in [Chunks -> [StatKinds -> Nat]]
         /\ held' \in [Allocators -> SUBSET Slabs]
         /\ slab_free_space' \in [Allocators -> [Slabs -> 0 .. SlabSize]]
         /\ live' \subseteq [id : Nat, owner : Allocators, chunk : Chunks, start : Nat, size : Nat]
<1> DEFINE size == call[r].size
<1>1. size \in Nat /\ call[r].id \in Nat
  BY DEF TypeOK
<1>2. /\ SlabsNeeded(size) \in Nat
      /\ SlabFree(size) \in 0 .. SlabSize
  BY <1>1, SlabsOfCall, SlabAssumption
<1> HIDE DEF size
<1>3. \A kind : CountServed(a, kind) => stat' \in [Chunks -> [StatKinds -> Nat]]
  BY DEF CountServed, Count, TypeOK
<1>4. CASE AllocTail(r, a)
  <2>1. PICK s \in held[a] :
          /\ slab_free_space[a][s] >= size
          /\ HandOut(r, a, Base(s) + (SlabSize - slab_free_space[a][s]))
          /\ slab_free_space' = [slab_free_space EXCEPT ![a][s] = @ - size]
    BY <1>4 DEF AllocTail, BestTails, TailFits, size
  <2>2. s \in Slabs /\ slab_free_space[a][s] \in 0 .. SlabSize /\ Base(s) \in Nat
    BY BaseType DEF TypeOK
  <2>3. Base(s) + (SlabSize - slab_free_space[a][s]) \in Nat
    BY <2>2, SlabAssumption
  <2>4. live' \subseteq [id : Nat, owner : Allocators, chunk : Chunks, start : Nat, size : Nat]
    BY <1>1, <2>1, <2>3 DEF HandOut, TypeOK, size
  <2>5. slab_free_space[a][s] - size \in 0 .. SlabSize
    BY <1>1, <2>1, <2>2, SlabAssumption
  <2>6. slab_free_space' \in [Allocators -> [Slabs -> 0 .. SlabSize]]
    BY <2>1, <2>2, <2>5 DEF TypeOK
  <2> QED BY <1>3, <1>4, <2>4, <2>6 DEF AllocTail, TypeOK
<1>5. ASSUME NEW p \in Slabs, NEW n \in Nat, TakeRun(r, a, p, n), n = SlabsNeeded(size),
             p + n <= SlabCount
      PROVE  /\ slab_used' \in [Chunks -> SUBSET Slabs]
             /\ used_slab_count' \in [Chunks -> Int]
             /\ held' \in [Allocators -> SUBSET Slabs]
             /\ slab_free_space' \in [Allocators -> [Slabs -> 0 .. SlabSize]]
             /\ live' \subseteq [id : Nat, owner : Allocators, chunk : Chunks, start : Nat, size : Nat]
  <2>1. Run(p, n) \subseteq Slabs
    BY <1>5, SlabAssumption DEF Run, Slabs
  <2>2. live' \subseteq [id : Nat, owner : Allocators, chunk : Chunks, start : Nat, size : Nat]
    BY <1>1, <1>5, BaseType DEF TakeRun, HandOut, TypeOK, size
  <2>3. slab_free_space' \in [Allocators -> [Slabs -> 0 .. SlabSize]]
    BY <1>2, <1>5, SlabAssumption DEF TakeRun, TypeOK, size
  <2>4. /\ slab_used' \in [Chunks -> SUBSET Slabs]
        /\ held' \in [Allocators -> SUBSET Slabs]
        /\ used_slab_count' \in [Chunks -> Int]
    BY <1>5, <2>1 DEF TakeRun, TypeOK
  <2> QED BY <2>2, <2>3, <2>4
<1>6. CASE AllocSmall(r, a)
  <2>1. PICK p \in Slabs : TakeRun(r, a, p, SlabsNeeded(size))
    BY <1>6 DEF AllocSmall, size
  <2>2. p + SlabsNeeded(size) <= SlabCount
    BY <1>2, <1>6, SlabAssumption DEF AllocSmall, Slabs, size
  <2> QED BY <1>2, <1>3, <1>5, <1>6, <2>1, <2>2 DEF AllocSmall
<1>7. CASE AllocFull(r, a)
  <2>1. PICK p \in FreeRuns(mem_chunk[a], SlabsNeeded(size)) : TakeRun(r, a, p, SlabsNeeded(size))
    BY <1>7 DEF AllocFull, size
  <2> QED BY <1>2, <1>3, <1>5, <1>7, <2>1 DEF AllocFull, FreeRuns
<1> QED BY <1>4, <1>6, <1>7 DEF AllocateSlab

(* Sets of slabs are finite, and what Release leaves of the types. *)
LEMMA SlabSets ==
  ASSUME NEW S \in SUBSET Slabs
  PROVE  IsFiniteSet(S) /\ Cardinality(S) \in Nat
<1>1. IsFiniteSet(Slabs)
  BY FS_Interval, SlabAssumption DEF Slabs
<1> QED BY <1>1, FS_Subset, FS_CardinalityType

LEMMA FreeSlabsTyping ==
  ASSUME TypeOK, NEW a \in Allocators, mem_chunk[a] \in Chunks, FreeSlabsOf(a)
  PROVE  /\ slab_used' \in [Chunks -> SUBSET Slabs]
         /\ used_slab_count' \in [Chunks -> Int]
         /\ held' \in [Allocators -> SUBSET Slabs]
         /\ slab_free_space' \in [Allocators -> [Slabs -> 0 .. SlabSize]]
<1> DEFINE n == Cardinality(held[a])
<1>1. n \in Nat
  BY SlabSets DEF TypeOK
<1>2. used_slab_count' = [used_slab_count EXCEPT ![mem_chunk[a]] = @ - n]
  BY DEF FreeSlabsOf
<1> HIDE DEF n
<1>3. used_slab_count' \in [Chunks -> Int]
  BY <1>1, <1>2 DEF TypeOK
<1>4. 0 \in 0 .. SlabSize
  BY SlabAssumption
<1> QED BY <1>3, <1>4 DEF FreeSlabsOf, TypeOK

LEMMA TypingStep == Typing /\ [Next]_vars => Typing'
<1> SUFFICES ASSUME TypeOK, Bound, [Next]_vars PROVE TypeOK' /\ Bound'
  BY DEF Typing
<1> USE AllocatorFacts, NoChunkFact
<1>1. ASSUME NEW r \in Requests, MakeAllocator(r) PROVE TypeOK' /\ Bound'
  <2>1. curr_mem_chunk' \in Chunks
    BY <1>1, SlabAssumption, Z3 DEF MakeAllocator, TypeOK, Chunks
  <2> QED BY <1>1, <2>1 DEF MakeAllocator, Goto, TypeOK, Bound, Serving, chunk_vars, alloc_vars
<1>2. ASSUME NEW r \in Requests, NEW size \in Sizes, Allocate(r, size) PROVE TypeOK' /\ Bound'
  BY <1>2, SlabAssumption DEF Allocate, Goto, TypeOK, Bound, Serving, chunk_vars, alloc_vars
<1>3. ASSUME NEW r \in Requests, AllocateHome(r) PROVE TypeOK' /\ Bound'
  BY <1>3, AllocateSlabTyping DEF AllocateHome, Goto, TypeOK, Bound, Serving
<1>4. ASSUME NEW r \in Requests, AllocateReroute(r) PROVE TypeOK' /\ Bound'
  BY <1>4 DEF AllocateReroute, Count, Goto, TypeOK, Bound, Serving, alloc_vars
<1>5. ASSUME NEW r \in Requests, AllocateSearch(r) PROVE TypeOK' /\ Bound'
  BY <1>5 DEF AllocateSearch, Count, Goto, TypeOK, Bound, Serving, alloc_vars
<1>6. ASSUME NEW r \in Requests, ScanChunk(r) PROVE TypeOK' /\ Bound'
  <2> DEFINE c == scan[r].pos
             free == SlabCount - used_slab_count[c]
  <2>1. c \in Chunks /\ free \in Int /\ c + 1 \in 0 .. ChunkCount
    <3>1. scan[r].pos \in 0 .. ChunkCount /\ scan[r].pos < ChunkCount
      BY <1>6 DEF ScanChunk, TypeOK
    <3>2. c \in Chunks /\ c + 1 \in 0 .. ChunkCount
      BY <3>1, SlabAssumption DEF Chunks
    <3> QED BY <3>2, SlabAssumption DEF TypeOK
  <2>2. \/ scan' = [scan EXCEPT ![r] = [pos |-> c + 1, best |-> c, free |-> free]]
        \/ scan' = [scan EXCEPT ![r] = [@ EXCEPT !.pos = c + 1]]
    BY <1>6 DEF ScanChunk
  <2> HIDE DEF c, free
  <2>3. scan' \in [Requests -> [pos : 0 .. ChunkCount, best : Chunks \cup {NoChunk}, free : Int]]
    <3>1. scan[r] \in [pos : 0 .. ChunkCount, best : Chunks \cup {NoChunk}, free : Int]
      BY DEF TypeOK
    <3>2. [scan[r] EXCEPT !.pos = c + 1]
            = [pos |-> c + 1, best |-> scan[r].best, free |-> scan[r].free]
      BY <3>1
    <3>3. CASE scan' = [scan EXCEPT ![r] = [@ EXCEPT !.pos = c + 1]]
      BY <2>1, <3>1, <3>2, <3>3 DEF TypeOK
    <3>4. CASE scan' = [scan EXCEPT ![r] = [pos |-> c + 1, best |-> c, free |-> free]]
      BY <2>1, <3>4 DEF TypeOK
    <3> QED BY <2>2, <3>3, <3>4
  <2> QED BY <1>6, <2>3 DEF ScanChunk, TypeOK, Bound, chunk_vars, alloc_vars
<1>7. ASSUME NEW r \in Requests, TakeAdditional(r) PROVE TypeOK' /\ Bound'
  BY <1>7, SlabAssumption DEF TakeAdditional, Count, Goto, TypeOK, Bound, NoScan, Serving, alloc_vars
<1>8. ASSUME NEW r \in Requests, GiveUp(r) PROVE TypeOK' /\ Bound'
  BY <1>8, SlabAssumption DEF GiveUp, Goto, TypeOK, Bound, NoScan, Serving, chunk_vars, alloc_vars
<1>9. ASSUME NEW r \in Requests, AllocateRouted(r) PROVE TypeOK' /\ Bound'
  BY <1>9, AllocateSlabTyping DEF AllocateRouted, Goto, TypeOK, Bound, Serving
<1>10. ASSUME NEW r \in Requests, RoutedToHeap(r) PROVE TypeOK' /\ Bound'
  BY <1>10 DEF RoutedToHeap, Count, Goto, TypeOK, Bound, Serving, alloc_vars
<1>11. ASSUME NEW r \in Requests, Release(r) PROVE TypeOK' /\ Bound'
  BY <1>11 DEF Release, Goto, TypeOK, Bound, Serving, chunk_vars
<1>12. ASSUME NEW r \in Requests, ReleaseHome(r) PROVE TypeOK' /\ Bound'
  <2>1. Home(r) \in Allocators /\ mem_chunk[Home(r)] \in Chunks
    BY <1>12 DEF ReleaseHome, Bound
  <2> QED BY <1>12, <2>1, FreeSlabsTyping DEF ReleaseHome, Goto, TypeOK, Bound, Serving
<1>13. ASSUME NEW r \in Requests, ReleaseAddl(r) PROVE TypeOK' /\ Bound'
  <2>1. Addl(r) \in Allocators /\ mem_chunk[Addl(r)] \in Chunks
    BY <1>13 DEF ReleaseAddl, Bound
  <2> QED BY <1>13, <2>1, FreeSlabsTyping DEF ReleaseAddl, Goto, TypeOK, Bound, Serving
<1>14. CASE UNCHANGED vars
  BY <1>14 DEF vars, chunk_vars, alloc_vars, TypeOK, Bound
<1> QED
  BY <1>1, <1>2, <1>3, <1>4, <1>5, <1>6, <1>7, <1>8, <1>9, <1>10, <1>11, <1>12,
     <1>13, <1>14 DEF Next, Step

(* Every value the allocator keeps has its type, whatever the constants. *)
THEOREM TypeCorrect == Spec => []TypeOK
<1>1. Typing => TypeOK
  BY DEF Typing
<1> QED BY <1>1, InitTyping, TypingStep, PTL DEF Spec

-----------------------------------------------------------------------------
(* Who holds which slab.  Owned is SlabsAccounted and CountMatches, slab by *)
(* slab, with what makes them inductive: an allocator that is not bound to  *)
(* a chunk, or that its request is done with, holds nothing.                *)

Marked ==
  \A c \in Chunks, s \in Slabs :
    s \in slab_used[c] <=> \E a \in Allocators : mem_chunk[a] = c /\ s \in held[a]

Exclusive ==
  \A a, b \in Allocators :
    a # b /\ mem_chunk[a] = mem_chunk[b] => held[a] \cap held[b] = {}

Unbound ==
  /\ \A a \in Allocators : mem_chunk[a] = NoChunk => held[a] = {}
  /\ \A r \in Requests : pc[r] \in {"none", "relAddl"} => held[Home(r)] = {}

Owned == Marked /\ Exclusive /\ CountMatches

LEMMA OwnedMeaning == TypeOK /\ Owned => SlabsAccounted
<1> SUFFICES ASSUME TypeOK, Owned, NEW c \in Chunks
             PROVE  LET bound == {a \in Allocators : mem_chunk[a] = c} IN
                    /\ slab_used[c] = UNION {held[a] : a \in bound}
                    /\ \A a, b \in bound : a # b => held[a] \cap held[b] = {}
  BY DEF SlabsAccounted
<1> DEFINE bound == {a \in Allocators : mem_chunk[a] = c}
<1>1. slab_used[c] \subseteq Slabs /\ \A a \in bound : held[a] \subseteq Slabs
  BY DEF TypeOK
<1>2. \A s \in Slabs : s \in slab_used[c] <=> \E a \in bound : s \in held[a]
  BY DEF Owned, Marked
<1>3. slab_used[c] = UNION {held[a] : a \in bound}
  BY <1>1, <1>2
<1>4. \A a, b \in bound : a # b => held[a] \cap held[b] = {}
  BY DEF Owned, Exclusive
<1> QED BY <1>3, <1>4

(* A step that changes neither slabs nor bindings. *)
LEMMA OwnedUnchanged ==
  Owned /\ UNCHANGED <<slab_used, used_slab_count, held, mem_chunk>> => Owned'
BY DEF Owned, Marked, Exclusive, CountMatches

(* A step that binds an allocator that holds nothing. *)
LEMMA OwnedRebind ==
  ASSUME TypeOK, Owned, NEW a \in Allocators, NEW x \in Chunks \cup {NoChunk},
         held[a] = {}, mem_chunk' = [mem_chunk EXCEPT ![a] = x],
         UNCHANGED <<slab_used, used_slab_count, held>>
  PROVE  Owned'
<1>1. \A b \in Allocators : mem_chunk'[b] = IF b = a THEN x ELSE mem_chunk[b]
  BY DEF TypeOK
<1>2. Marked'
  BY <1>1 DEF Owned, Marked
<1>3. Exclusive'
  BY <1>1 DEF Owned, Exclusive
<1> QED BY <1>2, <1>3 DEF Owned, CountMatches

(* A step that takes free slabs for an allocator. *)
LEMMA OwnedTake ==
  ASSUME TypeOK, Owned, NEW a \in Allocators, mem_chunk[a] \in Chunks,
         NEW R \in SUBSET (Slabs \ slab_used[mem_chunk[a]]),
         slab_used' = [slab_used EXCEPT ![mem_chunk[a]] = @ \cup R],
         used_slab_count' = [used_slab_count EXCEPT ![mem_chunk[a]] = @ + Cardinality(R)],
         held' = [held EXCEPT ![a] = @ \cup R],
         UNCHANGED mem_chunk
  PROVE  Owned'
<1> DEFINE c == mem_chunk[a]
<1>1. \A b \in Allocators : held'[b] = IF b = a THEN held[a] \cup R ELSE held[b]
  BY DEF TypeOK
<1>2. \A d \in Chunks : slab_used'[d] = IF d = c THEN slab_used[c] \cup R ELSE slab_used[d]
  BY DEF TypeOK
<1>3. Marked'
  BY <1>1, <1>2 DEF Owned, Marked
<1>4. \A b \in Allocators : mem_chunk[b] = c => held[b] \subseteq slab_used[c]
  BY DEF Owned, Marked, TypeOK
<1>5. Exclusive'
  BY <1>1, <1>4 DEF Owned, Exclusive
<1>6. CountMatches'
  <2>1. Cardinality(slab_used[c] \cup R) = Cardinality(slab_used[c]) + Cardinality(R)
    <3>1. slab_used[c] \in SUBSET Slabs /\ R \in SUBSET Slabs /\ slab_used[c] \cap R = {}
      BY DEF TypeOK
    <3>2. Cardinality(slab_used[c] \cap R) = 0
      BY <3>1, FS_EmptySet
    <3>3. /\ IsFiniteSet(slab_used[c]) /\ Cardinality(slab_used[c]) \in Nat
          /\ IsFiniteSet(R) /\ Cardinality(R) \in Nat
      BY <3>1, SlabSets
    <3>4. Cardinality(slab_used[c] \cup R)
            = Cardinality(slab_used[c]) + Cardinality(R) - Cardinality(slab_used[c] \cap R)
      BY <3>3, FS_Union
    <3> QED BY <3>2, <3>3, <3>4
  <2>2. used_slab_count[c] \in Int /\ Cardinality(R) \in Int
    BY SlabSets DEF TypeOK
  <2>3. \A d \in Chunks : used_slab_count'[d] =
          IF d = c THEN used_slab_count[c] + Cardinality(R) ELSE used_slab_count[d]
    BY DEF TypeOK
  <2>4. \A d \in Chunks : used_slab_count[d] = Cardinality(slab_used[d])
    BY DEF Owned, CountMatches
  <2> QED BY <2>1, <2>2, <2>3, <2>4, <1>2 DEF CountMatches
<1> QED BY <1>3, <1>5, <1>6 DEF Owned

(* A step that frees all slabs of an allocator. *)
LEMMA OwnedFree ==
  ASSUME TypeOK, Owned, NEW a \in Allocators, mem_chunk[a] \in Chunks,
         FreeSlabsOf(a),
         \A b \in Allocators : b # a => mem_chunk'[b] = mem_chunk[b]
  PROVE  Owned'
<1> DEFINE c == mem_chunk[a]
<1>1. \A b \in Allocators : held'[b] = IF b = a THEN {} ELSE held[b]
  BY DEF FreeSlabsOf, TypeOK
<1>2. \A d \in Chunks : slab_used'[d] = IF d = c THEN slab_used[c] \ held[a] ELSE slab_used[d]
  BY DEF FreeSlabsOf, TypeOK
<1>3. \A b \in Allocators : b # a /\ mem_chunk[b] = c => held[b] \cap held[a] = {}
  BY DEF Owned, Exclusive
<1>4. Marked'
  <2> SUFFICES ASSUME NEW d \in Chunks, NEW s \in Slabs
               PROVE  s \in slab_used'[d] <=>
                        \E b \in Allocators : mem_chunk'[b] = d /\ s \in held'[b]
    BY DEF Marked
  <2>1. s \in slab_used[d] <=> \E b \in Allocators : mem_chunk[b] = d /\ s \in held[b]
    BY DEF Owned, Marked
  <2>2. ASSUME s \in slab_used'[d]
        PROVE  \E b \in Allocators : mem_chunk'[b] = d /\ s \in held'[b]
    <3>1. PICK b \in Allocators : mem_chunk[b] = d /\ s \in held[b]
      BY <1>2, <2>1, <2>2
    <3>2. b # a
      BY <1>2, <2>2, <3>1
    <3> QED BY <1>1, <3>1, <3>2
  <2>3. ASSUME NEW b \in Allocators, mem_chunk'[b] = d, s \in held'[b]
        PROVE  s \in slab_used'[d]
    <3>1. b # a /\ mem_chunk[b] = d /\ s \in held[b]
      BY <1>1, <2>3
    <3> QED BY <1>2, <1>3, <2>1, <3>1
  <2> QED BY <2>2, <2>3
<1>5. Exclusive'
  <2> SUFFICES ASSUME NEW b \in Allocators, NEW d \in Allocators, b # d,
                      mem_chunk'[b] = mem_chunk'[d]
               PROVE  held'[b] \cap held'[d] = {}
    BY DEF Exclusive
  <2>1. CASE b = a \/ d = a
    BY <1>1, <2>1
  <2>2. CASE b # a /\ d # a
    BY <1>1, <2>2 DEF Owned, Exclusive
  <2> QED BY <2>1, <2>2
<1>6. CountMatches'
  <2>1. held[a] \subseteq slab_used[c] /\ slab_used[c] \in SUBSET Slabs
    BY DEF Owned, Marked, TypeOK
  <2>2. Cardinality(slab_used[c] \ held[a]) = Cardinality(slab_used[c]) - Cardinality(held[a])
    <3>1. slab_used[c] \cap held[a] = held[a]
      BY <2>1
    <3>2. IsFiniteSet(slab_used[c])
      BY <2>1, SlabSets
    <3>3. Cardinality(slab_used[c] \ held[a])
            = Cardinality(slab_used[c]) - Cardinality(slab_used[c] \cap held[a])
      BY <3>2, FS_Difference
    <3> QED BY <3>1, <3>3
  <2>3. used_slab_count[c] \in Int /\ Cardinality(held[a]) \in Int
    BY SlabSets DEF TypeOK
  <2>4. \A d \in Chunks : used_slab_count'[d] =
          IF d = c THEN used_slab_count[c] - Cardinality(held[a]) ELSE used_slab_count[d]
    BY DEF FreeSlabsOf, TypeOK
  <2>5. \A d \in Chunks : used_slab_count[d] = Cardinality(slab_used[d])
    BY DEF Owned, CountMatches
  <2> QED BY <1>2, <2>2, <2>3, <2>4, <2>5 DEF CountMatches
<1> QED BY <1>4, <1>5, <1>6 DEF Owned

(* allocate_slab either takes free slabs or none. *)
LEMMA AllocateSlabTakes ==
  ASSUME TypeOK, Owned, NEW r \in Requests, NEW a \in Allocators,
         mem_chunk[a] \in Chunks, AllocateSlab(r, a), UNCHANGED mem_chunk
  PROVE  Owned'
<1> DEFINE n == SlabsNeeded(call[r].size)
<1>1. n \in Nat
  BY SlabsOfCall DEF TypeOK
<1> HIDE DEF n
<1>2. CASE AllocTail(r, a)
  BY <1>2, OwnedUnchanged DEF AllocTail
<1>3. ASSUME NEW p \in Slabs, TakeRun(r, a, p, n), p + n <= SlabCount,
             Run(p, n) \cap slab_used[mem_chunk[a]] = {}
      PROVE  Owned'
  <2>1. Run(p, n) \in SUBSET (Slabs \ slab_used[mem_chunk[a]])
    BY <1>1, <1>3, SlabAssumption DEF Run, Slabs
  <2>2. Cardinality(Run(p, n)) = n
    BY <1>1, FS_Interval, SlabAssumption DEF Run, Slabs
  <2> QED BY <1>3, <2>1, <2>2, OwnedTake DEF TakeRun
<1>4. CASE AllocSmall(r, a)
  <2>1. PICK p \in Slabs \ slab_used[mem_chunk[a]] : TakeRun(r, a, p, n)
    BY <1>4 DEF AllocSmall, n
  <2>2. n <= 1
    BY <1>4 DEF AllocSmall, n
  <2>3. p + n <= SlabCount /\ Run(p, n) \subseteq {p}
    BY <1>1, <2>2, SlabAssumption DEF Run, Slabs
  <2> QED BY <1>3, <2>1, <2>3
<1>5. CASE AllocFull(r, a)
  <2>1. PICK p \in FreeRuns(mem_chunk[a], n) : TakeRun(r, a, p, n)
    BY <1>5 DEF AllocFull, n
  <2> QED BY <1>3, <2>1 DEF FreeRuns
<1> QED BY <1>2, <1>4, <1>5 DEF AllocateSlab

LEMMA OwnedStep == Typing /\ Unbound /\ Owned /\ [Next]_vars => Owned'
<1> SUFFICES ASSUME TypeOK, Bound, Unbound, Owned, [Next]_vars PROVE Owned'
  BY DEF Typing
<1> USE AllocatorFacts
<1>1. ASSUME NEW r \in Requests, MakeAllocator(r) PROVE Owned'
  <2>1. curr_mem_chunk' \in Chunks
    BY <1>1, SlabAssumption, Z3 DEF MakeAllocator, TypeOK, Chunks
  <2>2. held[Home(r)] = {}
    BY <1>1 DEF MakeAllocator, Unbound
  <2> QED BY <1>1, <2>1, <2>2, OwnedRebind DEF MakeAllocator, chunk_vars, alloc_vars
<1>2. ASSUME NEW r \in Requests, NEW size \in Sizes, Allocate(r, size) PROVE Owned'
  BY <1>2, OwnedUnchanged DEF Allocate, chunk_vars, alloc_vars
<1>3. ASSUME NEW r \in Requests, AllocateHome(r) PROVE Owned'
  BY <1>3, AllocateSlabTakes DEF AllocateHome, Bound
<1>4. ASSUME NEW r \in Requests, AllocateReroute(r) PROVE Owned'
  BY <1>4, OwnedUnchanged DEF AllocateReroute, alloc_vars
<1>5. ASSUME NEW r \in Requests, AllocateSearch(r) PROVE Owned'
  BY <1>5, OwnedUnchanged DEF AllocateSearch, alloc_vars
<1>6. ASSUME NEW r \in Requests, ScanChunk(r) PROVE Owned'
  BY <1>6, OwnedUnchanged DEF ScanChunk, chunk_vars, alloc_vars
<1>7. ASSUME NEW r \in Requests, TakeAdditional(r) PROVE Owned'
  <2>1. scan[r].best \in Chunks /\ held[Addl(r)] = {}
    BY <1>7 DEF TakeAdditional, TypeOK, Bound, Unbound
  <2> QED BY <1>7, <2>1, OwnedRebind DEF TakeAdditional, alloc_vars
<1>8. ASSUME NEW r \in Requests, GiveUp(r) PROVE Owned'
  BY <1>8, OwnedUnchanged DEF GiveUp, chunk_vars, alloc_vars
<1>9. ASSUME NEW r \in Requests, AllocateRouted(r) PROVE Owned'
  BY <1>9, AllocateSlabTakes DEF AllocateRouted, Bound
<1>10. ASSUME NEW r \in Requests, RoutedToHeap(r) PROVE Owned'
  BY <1>10, OwnedUnchanged DEF RoutedToHeap, alloc_vars
<1>11. ASSUME NEW r \in Requests, Release(r) PROVE Owned'
  BY <1>11, OwnedUnchanged DEF Release, chunk_vars
<1>12. ASSUME NEW r \in Requests, ReleaseHome(r) PROVE Owned'
  <2>1. Home(r) \in Allocators /\ mem_chunk[Home(r)] \in Chunks
    BY <1>12 DEF ReleaseHome, Bound
  <2> QED BY <1>12, <2>1, OwnedFree DEF ReleaseHome
<1>13. ASSUME NEW r \in Requests, ReleaseAddl(r) PROVE Owned'
  <2>1. Addl(r) \in Allocators /\ mem_chunk[Addl(r)] \in Chunks
    BY <1>13 DEF ReleaseAddl, Bound
  <2>2. mem_chunk' = [mem_chunk EXCEPT ![Addl(r)] = NoChunk]
    BY <1>13 DEF ReleaseAddl
  <2>3. CASE held[Addl(r)] = {}
    BY <1>13, <2>1, <2>2, <2>3, OwnedRebind DEF ReleaseAddl
  <2>4. CASE held[Addl(r)] # {}
    BY <1>13, <2>1, <2>2, <2>4, OwnedFree DEF ReleaseAddl, TypeOK
  <2> QED BY <2>3, <2>4
<1>14. CASE UNCHANGED vars
  BY <1>14, OwnedUnchanged DEF vars, chunk_vars, alloc_vars
<1> QED
  BY <1>1, <1>2, <1>3, <1>4, <1>5, <1>6, <1>7, <1>8, <1>9, <1>10, <1>11, <1>12,
     <1>13, <1>14 DEF Next, Step

(* allocate_slab works on the slabs of one allocator. *)
LEMMA AllocateSlabOthers ==
  ASSUME TypeOK, NEW r \in Requests, NEW a \in Allocators, AllocateSlab(r, a)
  PROVE  \A b \in Allocators : b # a => held'[b] = held[b] /\ slab_free_space'[b] = slab_free_space[b]
BY DEF AllocateSlab, AllocTail, AllocSmall, AllocFull, TakeRun, TypeOK

LEMMA UnboundStep == Typing /\ Unbound /\ [Next]_vars => Unbound'
<1> SUFFICES ASSUME TypeOK, Bound, Unbound, [Next]_vars PROVE Unbound'
  BY DEF Typing
<1> USE AllocatorFacts, NoChunkFact
<1>1. ASSUME NEW r \in Requests, MakeAllocator(r) PROVE Unbound'
  BY <1>1 DEF MakeAllocator, Goto, TypeOK, Unbound, alloc_vars
<1>2. ASSUME NEW r \in Requests, NEW size \in Sizes, Allocate(r, size) PROVE Unbound'
  BY <1>2 DEF Allocate, Goto, TypeOK, Unbound, alloc_vars
<1>3. ASSUME NEW r \in Requests, AllocateHome(r) PROVE Unbound'
  <2>1. mem_chunk[Home(r)] \in Chunks
    BY <1>3 DEF AllocateHome, Bound
  <2>2. \A b \in Allocators : b # Home(r) => held'[b] = held[b]
    BY <1>3, AllocateSlabOthers DEF AllocateHome
  <2>3. mem_chunk' = mem_chunk /\ pc' = [pc EXCEPT ![r] = "idle"]
    BY <1>3 DEF AllocateHome, Goto
  <2>4. pc[r] \in {"home", "route"}
    BY <1>3 DEF AllocateHome
  <2> QED BY <2>1, <2>2, <2>3, <2>4 DEF TypeOK, Unbound
<1>4. ASSUME NEW r \in Requests, AllocateReroute(r) PROVE Unbound'
  BY <1>4 DEF AllocateReroute, Goto, TypeOK, Unbound, alloc_vars
<1>5. ASSUME NEW r \in Requests, AllocateSearch(r) PROVE Unbound'
  BY <1>5 DEF AllocateSearch, Goto, TypeOK, Unbound, alloc_vars
<1>6. ASSUME NEW r \in Requests, ScanChunk(r) PROVE Unbound'
  BY <1>6 DEF ScanChunk, TypeOK, Unbound, alloc_vars
<1>7. ASSUME NEW r \in Requests, TakeAdditional(r) PROVE Unbound'
  BY <1>7 DEF TakeAdditional, Goto, TypeOK, Unbound, alloc_vars
<1>8. ASSUME NEW r \in Requests, GiveUp(r) PROVE Unbound'
  BY <1>8 DEF GiveUp, Goto, TypeOK, Unbound, alloc_vars
<1>9. ASSUME NEW r \in Requests, AllocateRouted(r) PROVE Unbound'
  <2>1. mem_chunk[Addl(r)] \in Chunks
    BY <1>9 DEF AllocateRouted, Bound
  <2>2. \A b \in Allocators : b # Addl(r) => held'[b] = held[b]
    BY <1>9, AllocateSlabOthers DEF AllocateRouted
  <2>3. mem_chunk' = mem_chunk /\ pc' = [pc EXCEPT ![r] = "idle"]
    BY <1>9 DEF AllocateRouted, Goto
  <2>4. pc[r] \in {"home", "route"}
    BY <1>9 DEF AllocateRouted
  <2> QED BY <2>1, <2>2, <2>3, <2>4 DEF TypeOK, Unbound
<1>10. ASSUME NEW r \in Requests, RoutedToHeap(r) PROVE Unbound'
  BY <1>10 DEF RoutedToHeap, Goto, TypeOK, Unbound, alloc_vars
<1>11. ASSUME NEW r \in Requests, Release(r) PROVE Unbound'
  BY <1>11 DEF Release, Goto, TypeOK, Unbound
<1>12. ASSUME NEW r \in Requests, ReleaseHome(r) PROVE Unbound'
  BY <1>12 DEF ReleaseHome, FreeSlabsOf, Goto, TypeOK, Unbound
<1>13. ASSUME NEW r \in Requests, ReleaseAddl(r) PROVE Unbound'
  BY <1>13 DEF ReleaseAddl, FreeSlabsOf, Goto, TypeOK, Unbound
<1>14. CASE UNCHANGED vars
  BY <1>14 DEF vars, alloc_vars, Unbound
<1> QED
  BY <1>1, <1>2, <1>3, <1>4, <1>5, <1>6, <1>7, <1>8, <1>9, <1>10, <1>11, <1>12,
     <1>13, <1>14 DEF Next, Step

OwnedInv == Typing /\ Unbound /\ Owned

LEMMA OwnedInit == Init => OwnedInv
<1> SUFFICES ASSUME Init PROVE Unbound /\ Owned
  BY InitTyping DEF OwnedInv
<1>1. Unbound
  BY AllocatorFacts DEF Init, Unbound
<1>2. Marked /\ Exclusive
  BY DEF Init, Marked, Exclusive
<1>3. CountMatches
  BY FS_EmptySet DEF Init, CountMatches
<1> QED BY <1>1, <1>2, <1>3 DEF Owned

LEMMA OwnedAlways == Spec => []OwnedInv
<1>1. OwnedInv /\ [Next]_vars => OwnedInv'
  BY TypingStep, UnboundStep, OwnedStep DEF OwnedInv
<1> QED BY <1>1, OwnedInit, PTL DEF Spec

(* The bitmap of a chunk is exactly what the allocators bound to it hold,   *)
(* each slab with one holder: Release frees what was taken, once.           *)
THEOREM SlabsAlwaysAccounted == Spec => []SlabsAccounted
<1>1. OwnedInv => SlabsAccounted
  BY OwnedMeaning DEF OwnedInv, Typing
<1> QED BY <1>1, OwnedAlways, PTL

(* The counter that is read without the lock agrees with the bitmap.        *)
THEOREM CountAlwaysMatches == Spec => []CountMatches
<1>1. OwnedInv => CountMatches
  BY DEF OwnedInv, Owned
<1> QED BY <1>1, OwnedAlways, PTL

(* When nobody holds an allocator, no slab is taken and no counter is off.  *)
THEOREM AlwaysAllReturned == Spec => []AllReturned
<1>1. OwnedInv => AllReturned
  <2> SUFFICES ASSUME OwnedInv, \A r \in Requests : pc[r] = "none", NEW c \in Chunks
               PROVE  slab_used[c] = {} /\ used_slab_count[c] = 0
    BY DEF AllReturned
  <2>1. \A a \in Allocators : held[a] = {}
    BY AllocatorFacts DEF OwnedInv, Typing, Bound, Unbound
  <2>2. slab_used[c] = {}
    BY <2>1 DEF OwnedInv, Typing, TypeOK, Owned, Marked
  <2> QED BY <2>2, FS_EmptySet DEF OwnedInv, Owned, CountMatches
<1> QED BY <1>1, OwnedAlways, PTL

(* Bitmap, counter and holders agree in every state of every chunk, and all *)
(* slabs come back.                                                         *)
THEOREM SlabsAlwaysExact == Spec => []SlabsExact
<1>1. SlabsAccounted /\ CountMatches /\ AllReturned => SlabsExact
  BY DEF SlabsExact
<1> QED BY <1>1, SlabsAlwaysAccounted, CountAlwaysMatches, AlwaysAllReturned, PTL

-----------------------------------------------------------------------------
(* Where the buffers lie.  NoOverlap by itself is not inductive: that a new *)
(* buffer overlaps none follows from BuffersInSlabs (the slabs under a      *)
(* buffer are held, their free tails begin after it) and from Owned.        *)

Buffer == [id : Nat, owner : Allocators, chunk : Chunks, start : Nat, size : Nat]
ChunkEnd == SlabCount * SlabSize

LEMMA ChunkEndFact ==
  /\ ChunkEnd \in Nat
  /\ \A s \in Slabs : Base(s) + SlabSize <= ChunkEnd
<1>1. ChunkEnd \in Nat
  BY SlabAssumption, Z3 DEF ChunkEnd
<1>2. ASSUME NEW s \in Slabs PROVE Base(s) + SlabSize <= ChunkEnd
  BY <1>2, BaseMonotone, SlabAssumption DEF Slabs, Base, ChunkEnd
<1> QED BY <1>1, <1>2

LEMMA SlabOrder ==
  ASSUME NEW s \in Slabs, NEW t \in Slabs, s < t
  PROVE  Base(s) + SlabSize <= Base(t)
BY BaseMonotone, SlabAssumption DEF Slabs, Base

(* Two buffers that share a byte share a slab. *)
LEMMA SharedSlab ==
  ASSUME NEW a \in Buffer, NEW b \in Buffer, a.size > 0, b.size > 0,
         a.start + a.size <= ChunkEnd, b.start + b.size <= ChunkEnd,
         a.chunk = b.chunk, ~Disjoint(a, b)
  PROVE  \E s \in Slabs : Touches(a, s) /\ Touches(b, s)
<1> DEFINE x == IF a.start < b.start THEN b.start ELSE a.start
<1>1. /\ a.start \in Nat /\ a.size \in Nat /\ b.start \in Nat /\ b.size \in Nat
      /\ ChunkEnd \in Nat
  BY ChunkEndFact DEF Buffer
<1>2. /\ x \in Nat /\ x < ChunkEnd
      /\ a.start <= x /\ x < a.start + a.size
      /\ b.start <= x /\ x < b.start + b.size
  BY <1>1 DEF Disjoint
<1> HIDE DEF x
<1>3. PICK s \in Slabs : Base(s) <= x /\ x < Base(s) + SlabSize
  BY <1>2, ByteHasSlab DEF ChunkEnd
<1>4. Base(s) \in Nat
  BY BaseType
<1> QED BY <1>1, <1>2, <1>3, <1>4, SlabAssumption DEF Touches

(* A buffer that lies in the tail of slab s touches no other slab. *)
LEMMA TailTouchesOne ==
  ASSUME NEW b \in Buffer, NEW s \in Slabs, NEW t \in Slabs,
         Base(s) <= b.start, b.start + b.size <= Base(s) + SlabSize, Touches(b, t)
  PROVE  t = s
<1>1. /\ b.start \in Nat /\ b.size \in Nat /\ s \in Int /\ t \in Int
      /\ Base(s) \in Nat /\ Base(t) \in Nat
  BY BaseType, SlabAssumption DEF Buffer, Slabs
<1>2. CASE t < s
  BY <1>1, <1>2, SlabOrder, SlabAssumption DEF Touches
<1>3. CASE s < t
  BY <1>1, <1>3, SlabOrder, SlabAssumption DEF Touches
<1> QED BY <1>1, <1>2, <1>3

(* A buffer that fills the slabs from p on, but for a tail of f bytes.      *)
LEMMA RunTouches ==
  ASSUME NEW b \in Buffer, NEW p \in Slabs, NEW n \in Nat, n > 0, p + n <= SlabCount,
         NEW f \in 0 .. SlabSize - 1, b.start = Base(p), n * SlabSize = b.size + f
  PROVE  /\ b.start + b.size <= ChunkEnd
         /\ b.start + b.size = Base(p + n - 1) + SlabSize - f
         /\ \A t \in Slabs : Touches(b, t) => t \in Run(p, n)
<1>1. /\ b.start \in Nat /\ b.size \in Nat /\ Base(p) \in Nat /\ p \in Nat
      /\ p + n - 1 \in Slabs /\ Base(p + n - 1) \in Nat
  BY BaseType, SlabAssumption DEF Buffer, Slabs
<1>2. p * SlabSize + n * SlabSize = (p + n - 1) * SlabSize + SlabSize
  BY <1>1, SlabAssumption, Z3
<1>3. b.start + b.size = Base(p + n - 1) + SlabSize - f
  <2>1. n * SlabSize \in Int /\ p * SlabSize \in Int /\ (p + n - 1) * SlabSize \in Int
    BY <1>1, NextBase
  <2> QED BY <1>1, <1>2, <2>1, SlabAssumption DEF Base
<1>4. b.start + b.size <= ChunkEnd
  BY <1>1, <1>3, ChunkEndFact, SlabAssumption
<1>5. ASSUME NEW t \in Slabs, Touches(b, t) PROVE t \in Run(p, n)
  <2>1. t \in Int /\ Base(t) \in Nat
    BY BaseType, SlabAssumption DEF Slabs
  <2>2. ~(t < p)
    BY <1>1, <1>5, <2>1, SlabOrder, SlabAssumption DEF Touches
  <2>3. ~(p + n - 1 < t)
    BY <1>1, <1>3, <1>5, <2>1, SlabOrder, SlabAssumption DEF Touches
  <2> QED BY <1>1, <2>1, <2>2, <2>3 DEF Run
<1> QED BY <1>3, <1>4, <1>5

Contained == \A b \in live : b.size > 0 /\ b.start + b.size <= ChunkEnd

NewBuffer(r, a, start) ==
  [id |-> call[r].id, owner |-> a, chunk |-> mem_chunk[a], start |-> start, size |-> call[r].size]

(* What allocate_slab hands out is inside the chunk, apart from every       *)
(* buffer in use, and leaves every buffer's slabs held.                     *)
Safe(r, a) ==
  /\ BuffersInSlabs'
  /\ \E start \in Nat :
       /\ live' = live \cup {NewBuffer(r, a, start)}
       /\ start + call[r].size <= ChunkEnd
       /\ \A b \in live : Disjoint(b, NewBuffer(r, a, start))

LEMMA TailSafe ==
  ASSUME TypeOK, Owned, BuffersInSlabs, Contained, NEW r \in Requests, NEW a \in Allocators,
         mem_chunk[a] \in Chunks, call[r].size > 0, AllocTail(r, a), UNCHANGED mem_chunk
  PROVE  Safe(r, a)
<1> DEFINE size == call[r].size
<1>1. size \in Nat /\ call[r].id \in Nat /\ size > 0
  BY DEF TypeOK
<1>2. PICK s \in held[a] :
        /\ slab_free_space[a][s] >= size
        /\ HandOut(r, a, Base(s) + (SlabSize - slab_free_space[a][s]))
        /\ slab_free_space' = [slab_free_space EXCEPT ![a][s] = @ - size]
  BY DEF AllocTail, BestTails, TailFits
<1> DEFINE free  == slab_free_space[a][s]
           start == Base(s) + (SlabSize - free)
           new   == NewBuffer(r, a, start)
<1>3. s \in Slabs /\ free \in 0 .. SlabSize /\ Base(s) \in Nat /\ start \in Nat
  BY BaseType, SlabAssumption DEF TypeOK
<1>4. held' = held /\ live' = live \cup {new}
  BY <1>2 DEF AllocTail, HandOut, NewBuffer
<1>5. /\ new \in Buffer /\ new.id = call[r].id /\ new.owner = a /\ new.chunk = mem_chunk[a]
      /\ new.start = start /\ new.size = size
  BY <1>1, <1>3 DEF Buffer, NewBuffer
<1>6. live \subseteq Buffer
  BY DEF TypeOK, Buffer
<1>7. /\ Base(s) <= start
      /\ start + size <= Base(s) + SlabSize
      /\ start + size = Base(s) + SlabSize - (free - size)
      /\ start + size <= ChunkEnd
  BY <1>1, <1>2, <1>3, ChunkEndFact, SlabAssumption
<1>8. \A t \in Slabs : Touches(new, t) => t = s
  BY <1>5, <1>7, <1>3, TailTouchesOne
<1>9. \A b \in Allocators, t \in Slabs :
        slab_free_space'[b][t] = IF b = a /\ t = s THEN free - size ELSE slab_free_space[b][t]
  BY <1>2, <1>3 DEF TypeOK
<1> HIDE DEF free, start, new, size
<1>10. ASSUME NEW b \in live, Touches(b, s), b.chunk = mem_chunk[a]
       PROVE  b.owner = a /\ b.start + b.size <= start
  <2>1. b \in Buffer /\ mem_chunk[b.owner] = b.chunk /\ s \in held[b.owner] /\ b.owner \in Allocators
    BY <1>3, <1>6, <1>10 DEF BuffersInSlabs, Buffer
  <2>2. b.owner = a
    BY <1>2, <1>10, <2>1 DEF Owned, Exclusive
  <2>3. slab_free_space[b.owner][s] = free /\ free > 0
    BY <1>1, <1>2, <1>3, <2>2, SlabAssumption DEF free, size
  <2>4. b.start + b.size <= Base(s) + SlabSize - free
    BY <1>3, <1>10, <2>3 DEF BuffersInSlabs
  <2> QED BY <1>3, <2>2, <2>4, SlabAssumption DEF start
<1>11. \A b \in live : Disjoint(b, new)
  <2> SUFFICES ASSUME NEW b \in live, ~Disjoint(b, new) PROVE FALSE
    OBVIOUS
  <2>1. b \in Buffer /\ b.size > 0 /\ b.start + b.size <= ChunkEnd /\ b.chunk = new.chunk
    BY <1>6 DEF Contained, Disjoint
  <2>2. PICK t \in Slabs : Touches(b, t) /\ Touches(new, t)
    BY <1>1, <1>5, <1>7, <2>1, SharedSlab
  <2>3. Touches(b, s) /\ b.chunk = mem_chunk[a]
    BY <1>5, <1>8, <2>1, <2>2
  <2>4. b.start + b.size <= new.start
    BY <1>5, <1>10, <2>3
  <2> QED BY <2>4 DEF Disjoint
<1>12. BuffersInSlabs'
  <2>1. s \in held[a] /\ new.start + new.size <= Base(s) + SlabSize - (free - size)
    <3>1. new.start + new.size = Base(s) + SlabSize - (free - size)
      BY <1>5, <1>7
    <3>2. Base(s) + SlabSize - (free - size) \in Int
      BY <1>1, <1>3, SlabAssumption
    <3> QED BY <1>2, <3>1, <3>2
  <2>2. ASSUME NEW t \in Slabs, Touches(new, t)
        PROVE  /\ t \in held[a]
               /\ slab_free_space'[a][t] > 0 =>
                    new.start + new.size <= Base(t) + SlabSize - slab_free_space'[a][t]
    BY <1>8, <1>9, <2>1, <2>2
  <2>3. ASSUME NEW b \in live, NEW t \in Slabs, Touches(b, t)
        PROVE  /\ t \in held[b.owner]
               /\ slab_free_space'[b.owner][t] > 0 =>
                    b.start + b.size <= Base(t) + SlabSize - slab_free_space'[b.owner][t]
    <3>1. b.owner \in Allocators /\ mem_chunk[b.owner] = b.chunk /\ t \in held[b.owner]
      BY <1>6, <2>3 DEF BuffersInSlabs, Buffer
    <3>2. CASE b.owner = a /\ t = s
      <4>1. b.start + b.size <= start /\ start \in Nat /\ b.start \in Nat /\ b.size \in Nat
        BY <1>3, <1>6, <1>10, <2>3, <3>1, <3>2 DEF Buffer
      <4>2. b.start + b.size <= Base(s) + SlabSize - (free - size)
        BY <1>1, <1>3, <1>7, <4>1, SlabAssumption
      <4> QED BY <1>9, <3>1, <3>2, <4>2
    <3>3. CASE ~(b.owner = a /\ t = s)
      BY <1>9, <2>3, <3>1, <3>3 DEF BuffersInSlabs
    <3> QED BY <3>2, <3>3
  <2>4. mem_chunk'[new.owner] = new.chunk /\ \A b \in live : mem_chunk'[b.owner] = b.chunk
    BY <1>5 DEF BuffersInSlabs
  <2>5. \A b \in live' : b \in live \/ b = new
    BY <1>4
  <2>6. ASSUME NEW b \in live'
        PROVE  /\ mem_chunk'[b.owner] = b.chunk
               /\ \A t \in Slabs : Touches(b, t) =>
                    /\ t \in held'[b.owner]
                    /\ slab_free_space'[b.owner][t] > 0 =>
                         b.start + b.size <= Base(t) + SlabSize - slab_free_space'[b.owner][t]
    BY <1>4, <1>5, <2>2, <2>3, <2>4, <2>5
  <2> QED BY <2>6 DEF BuffersInSlabs, Touches, Base
<1> QED BY <1>3, <1>4, <1>7, <1>11, <1>12 DEF Safe, new, size

LEMMA RunSafe ==
  ASSUME TypeOK, Owned, BuffersInSlabs, Contained, NEW r \in Requests, NEW a \in Allocators,
         mem_chunk[a] \in Chunks, call[r].size > 0,
         NEW p \in Slabs, NEW n \in Nat, n = SlabsNeeded(call[r].size), p + n <= SlabCount,
         Run(p, n) \cap slab_used[mem_chunk[a]] = {},
         TakeRun(r, a, p, n), UNCHANGED mem_chunk
  PROVE  Safe(r, a)
<1> DEFINE size  == call[r].size
           tail  == SlabFree(size)
           start == Base(p)
           new   == NewBuffer(r, a, start)
<1>1. size \in Nat /\ call[r].id \in Nat /\ size > 0
  BY DEF TypeOK
<1>2. tail \in 0 .. SlabSize - 1 /\ n * SlabSize = size + tail
  BY <1>1, SlabsOfCall
<1>3. n > 0
  <2> SUFFICES ASSUME n = 0 PROVE FALSE
    OBVIOUS
  <2>1. n * SlabSize = 0
    BY SlabAssumption, Z3
  <2> QED BY <1>1, <1>2, <2>1, SlabAssumption
<1>4. start \in Nat
  BY BaseType
<1>5. live' = live \cup {new}
  BY DEF TakeRun, HandOut, NewBuffer
<1>6. /\ new \in Buffer /\ new.id = call[r].id /\ new.owner = a /\ new.chunk = mem_chunk[a]
      /\ new.start = Base(p) /\ new.size = size
  BY <1>1, <1>4 DEF Buffer, NewBuffer
<1>7. live \subseteq Buffer
  BY DEF TypeOK, Buffer
<1>8. \A b \in Allocators : held'[b] = IF b = a THEN held[a] \cup Run(p, n) ELSE held[b]
  BY DEF TakeRun, TypeOK
<1>9. \A b \in Allocators, t \in Slabs :
        slab_free_space'[b][t] = IF b = a /\ t = p + n - 1 THEN tail
                                 ELSE IF b = a /\ t \in Run(p, n) THEN 0
                                 ELSE slab_free_space[b][t]
  BY DEF TakeRun, TypeOK
<1> HIDE DEF size, tail, start, new
<1>10. /\ new.start + new.size <= ChunkEnd
       /\ new.start + new.size = Base(p + n - 1) + SlabSize - tail
       /\ \A t \in Slabs : Touches(new, t) => t \in Run(p, n)
  BY <1>2, <1>3, <1>6, RunTouches
<1>11. p + n - 1 \in Run(p, n) /\ p + n - 1 \in Slabs
  BY <1>3, SlabAssumption DEF Run, Slabs
<1>12. ASSUME NEW b \in live, NEW t \in Slabs, Touches(b, t), b.chunk = mem_chunk[a]
       PROVE  t \notin Run(p, n)
  <2>1. b.owner \in Allocators /\ mem_chunk[b.owner] = mem_chunk[a] /\ t \in held[b.owner]
    BY <1>7, <1>12 DEF BuffersInSlabs, Buffer
  <2>2. t \in slab_used[mem_chunk[a]]
    BY <2>1 DEF Owned, Marked
  <2> QED BY <2>2
<1>13. \A b \in live : Disjoint(b, new)
  <2> SUFFICES ASSUME NEW b \in live, ~Disjoint(b, new) PROVE FALSE
    OBVIOUS
  <2>1. b \in Buffer /\ b.size > 0 /\ b.start + b.size <= ChunkEnd /\ b.chunk = new.chunk
    BY <1>7 DEF Contained, Disjoint
  <2>2. PICK t \in Slabs : Touches(b, t) /\ Touches(new, t)
    BY <1>1, <1>6, <1>10, <2>1, SharedSlab
  <2> QED BY <1>6, <1>10, <1>12, <2>1, <2>2
<1>14. BuffersInSlabs'
  <2>1. ASSUME NEW t \in Slabs, Touches(new, t)
        PROVE  /\ t \in held'[a]
               /\ slab_free_space'[a][t] > 0 =>
                    new.start + new.size <= Base(t) + SlabSize - slab_free_space'[a][t]
    <3>1. t \in Run(p, n) /\ t \in held'[a]
      BY <1>8, <1>10, <2>1
    <3>2. CASE t = p + n - 1
      <4>1. slab_free_space'[a][t] = tail
        BY <1>9, <3>2
      <4>2. Base(t) + SlabSize - tail \in Int
        BY <1>2, BaseType, SlabAssumption
      <4> QED BY <1>10, <3>1, <3>2, <4>1, <4>2
    <3>3. CASE t # p + n - 1
      BY <1>9, <3>1, <3>3
    <3> QED BY <3>2, <3>3
  <2>2. ASSUME NEW b \in live, NEW t \in Slabs, Touches(b, t)
        PROVE  /\ t \in held'[b.owner]
               /\ slab_free_space'[b.owner][t] > 0 =>
                    b.start + b.size <= Base(t) + SlabSize - slab_free_space'[b.owner][t]
    <3>1. b.owner \in Allocators /\ mem_chunk[b.owner] = b.chunk /\ t \in held[b.owner]
      BY <1>7, <2>2 DEF BuffersInSlabs, Buffer
    <3>2. b.owner = a => t \notin Run(p, n) /\ t # p + n - 1
      BY <1>11, <1>12, <2>2, <3>1
    <3>3. slab_free_space'[b.owner][t] = slab_free_space[b.owner][t] /\ t \in held'[b.owner]
      BY <1>8, <1>9, <3>1, <3>2
    <3> QED BY <2>2, <3>3 DEF BuffersInSlabs
  <2>3. mem_chunk'[new.owner] = new.chunk /\ \A b \in live : mem_chunk'[b.owner] = b.chunk
    BY <1>6 DEF BuffersInSlabs
  <2>4. ASSUME NEW b \in live'
        PROVE  /\ mem_chunk'[b.owner] = b.chunk
               /\ \A t \in Slabs : Touches(b, t) =>
                    /\ t \in held'[b.owner]
                    /\ slab_free_space'[b.owner][t] > 0 =>
                         b.start + b.size <= Base(t) + SlabSize - slab_free_space'[b.owner][t]
    BY <1>5, <1>6, <2>1, <2>2, <2>3
  <2> QED BY <2>4 DEF BuffersInSlabs, Touches, Base
<1>15. start + call[r].size <= ChunkEnd
  BY <1>6, <1>10 DEF start, size
<1> QED BY <1>4, <1>5, <1>13, <1>14, <1>15 DEF Safe, new

LEMMA AllocateSlabSafe ==
  ASSUME TypeOK, Owned, BuffersInSlabs, Contained, NEW r \in Requests, NEW a \in Allocators,
         mem_chunk[a] \in Chunks, call[r].size > 0, AllocateSlab(r, a), UNCHANGED mem_chunk
  PROVE  Safe(r, a)
<1> DEFINE n == SlabsNeeded(call[r].size)
<1>1. n \in Nat
  BY SlabsOfCall DEF TypeOK
<1>2. n = SlabsNeeded(call[r].size)
  OBVIOUS
<1> HIDE DEF n
<1>3. CASE AllocTail(r, a)
  BY <1>3, TailSafe
<1>4. CASE AllocSmall(r, a)
  <2>1. PICK p \in Slabs \ slab_used[mem_chunk[a]] : TakeRun(r, a, p, n)
    BY <1>2, <1>4 DEF AllocSmall
  <2>2. n <= 1
    BY <1>2, <1>4 DEF AllocSmall
  <2>3. p + n <= SlabCount /\ Run(p, n) \subseteq {p}
    BY <1>1, <2>2, SlabAssumption DEF Run, Slabs
  <2> QED BY <1>1, <1>2, <2>1, <2>3, RunSafe
<1>5. CASE AllocFull(r, a)
  <2>1. PICK p \in FreeRuns(mem_chunk[a], n) : TakeRun(r, a, p, n)
    BY <1>2, <1>5 DEF AllocFull
  <2> QED BY <1>1, <1>2, <2>1, RunSafe DEF FreeRuns
<1> QED BY <1>3, <1>4, <1>5 DEF AllocateSlab

-----------------------------------------------------------------------------
(* The inductive invariant: who holds what, where the buffers lie, and that *)
(* the calls under way are numbered apart from each other and from every    *)
(* buffer in use.                                                           *)

Calling == {"home", "scan", "route"}

Numbered ==
  /\ \A b \in live : b.id <= ttT_total /\ pc[b.owner[1]] \in Serving
  /\ \A r \in Requests : pc[r] \in Calling =>
       /\ call[r].size > 0
       /\ call[r].id <= ttT_total
       /\ \A b \in live : b.id # call[r].id
       /\ \A q \in Requests \ {r} : pc[q] \in Calling => call[q].id # call[r].id

Apart == \A a, b \in live : a.id # b.id => Disjoint(a, b)

Placed == Numbered /\ BuffersInSlabs /\ Contained /\ Apart

IInv == OwnedInv /\ Placed

LEMMA PlacedMeaning == Placed => NoOverlap
BY DEF Placed, Apart, Contained, NoOverlap, ChunkEnd

(* A step that grants nothing and leaves the buffers in use where they are. *)
LEMMA BuffersKept ==
  ASSUME BuffersInSlabs, Contained, Apart, live' \subseteq live,
         \A b \in live' : /\ mem_chunk'[b.owner] = mem_chunk[b.owner]
                          /\ held'[b.owner] = held[b.owner]
                          /\ slab_free_space'[b.owner] = slab_free_space[b.owner]
  PROVE  BuffersInSlabs' /\ Contained' /\ Apart'
<1>1. BuffersInSlabs'
  BY DEF BuffersInSlabs, Touches, Base
<1>2. Contained' /\ Apart'
  BY DEF Contained, Apart, Disjoint, ChunkEnd
<1> QED BY <1>1, <1>2

(* A step of r that serves its call from allocator a.                       *)
LEMMA PlacedGrant ==
  ASSUME TypeOK, Owned, Placed, NEW r \in Requests, NEW a \in {Home(r), Addl(r)},
         mem_chunk[a] \in Chunks, pc[r] \in Calling, AllocateSlab(r, a),
         Goto(r, "idle"), UNCHANGED <<mem_chunk, call, ttT_total>>
  PROVE  Placed'
<1>1. a \in Allocators /\ a[1] = r
  BY AllocatorFacts
<1>2. Safe(r, a)
  BY <1>1, AllocateSlabSafe DEF Placed, Numbered
<1>3. PICK start \in Nat :
        /\ live' = live \cup {NewBuffer(r, a, start)}
        /\ start + call[r].size <= ChunkEnd
        /\ \A b \in live : Disjoint(b, NewBuffer(r, a, start))
  BY <1>2 DEF Safe
<1> DEFINE new == NewBuffer(r, a, start)
<1>4. /\ new.id = call[r].id /\ new.owner = a /\ new.chunk = mem_chunk[a]
      /\ new.start = start /\ new.size = call[r].size
  BY DEF NewBuffer
<1>5. live' = live \cup {new} /\ \A b \in live : Disjoint(b, new)
  BY <1>3
<1>6. /\ \A q \in Requests : pc'[q] = IF q = r THEN "idle" ELSE pc[q]
      /\ pc[r] \in Calling /\ call[r].size > 0 /\ call[r].id <= ttT_total
  BY DEF Goto, TypeOK, Placed, Numbered
<1>7. start + new.size <= ChunkEnd
  BY <1>3, <1>4
<1> HIDE DEF new
<1>8. Numbered'
  <2>1. \A b \in live' : b.id <= ttT_total /\ pc'[b.owner[1]] \in Serving
    <3>1. \A b \in live : b.id <= ttT_total /\ b.owner[1] \in Requests /\ pc[b.owner[1]] \in Serving
      BY AllocatorFacts DEF Placed, Numbered, TypeOK
    <3>2. \A b \in live : pc'[b.owner[1]] \in Serving
      BY <1>6, <3>1 DEF Serving
    <3> QED BY <1>1, <1>4, <1>5, <1>6, <3>1, <3>2 DEF Serving
  <2>2. \A q \in Requests : pc'[q] \in Calling => q # r /\ pc[q] \in Calling
    BY <1>6 DEF Calling
  <2>3. ASSUME NEW q \in Requests, pc'[q] \in Calling
        PROVE  /\ call[q].size > 0 /\ call[q].id <= ttT_total
               /\ \A b \in live' : b.id # call[q].id
               /\ \A o \in Requests \ {q} : pc'[o] \in Calling => call[o].id # call[q].id
    BY <1>4, <1>5, <1>6, <2>2, <2>3 DEF Placed, Numbered
  <2> QED BY <2>1, <2>3 DEF Numbered, Calling, Serving
<1>9. Contained'
  BY <1>4, <1>5, <1>6, <1>7 DEF Placed, Contained, ChunkEnd
<1>10. Apart'
  <2> SUFFICES ASSUME NEW b \in live', NEW d \in live', b.id # d.id PROVE Disjoint(b, d)
    BY DEF Apart, Disjoint
  <2>1. CASE b \in live /\ d \in live
    BY <2>1 DEF Placed, Apart
  <2>2. CASE b \in live /\ d = new
    BY <1>5, <2>2
  <2>3. CASE b = new /\ d \in live
    BY <1>5, <2>3 DEF Disjoint
  <2> QED BY <1>5, <2>1, <2>2, <2>3
<1> QED BY <1>2, <1>8, <1>9, <1>10 DEF Placed, Safe

(* A step that moves r within the code and touches no buffer.               *)
LEMMA PlacedMove ==
  ASSUME TypeOK, Placed, NEW r \in Requests, NEW where, Goto(r, where),
         where \in Calling => pc[r] \in Calling,
         where \in Serving \/ \A b \in live : b.owner[1] # r,
         \A b \in live : /\ mem_chunk'[b.owner] = mem_chunk[b.owner]
                         /\ held'[b.owner] = held[b.owner]
                         /\ slab_free_space'[b.owner] = slab_free_space[b.owner],
         UNCHANGED <<call, ttT_total, live>>
  PROVE  Placed'
<1>1. BuffersInSlabs' /\ Contained' /\ Apart'
  BY BuffersKept DEF Placed
<1>2. \A q \in Requests : pc'[q] = IF q = r THEN where ELSE pc[q]
  BY DEF Goto, TypeOK
<1>3. \A b \in live : b.owner[1] \in Requests
  BY AllocatorFacts DEF TypeOK
<1>4. Numbered'
  <2>1. \A b \in live : b.id <= ttT_total /\ pc'[b.owner[1]] \in Serving
    BY <1>2, <1>3 DEF Placed, Numbered
  <2>2. \A q \in Requests : pc'[q] \in Calling => pc[q] \in Calling
    BY <1>2
  <2> QED BY <2>1, <2>2 DEF Placed, Numbered, Serving, Calling
<1> QED BY <1>1, <1>4 DEF Placed

LEMMA PlacedStep == OwnedInv /\ Placed /\ [Next]_vars => Placed'
<1> SUFFICES ASSUME TypeOK, Bound, Unbound, Owned, Placed, [Next]_vars PROVE Placed'
  BY DEF OwnedInv, Typing
<1> USE AllocatorFacts, NoChunkFact
<1> DEFINE Same(b) == /\ mem_chunk'[b.owner] = mem_chunk[b.owner]
                      /\ held'[b.owner] = held[b.owner]
                      /\ slab_free_space'[b.owner] = slab_free_space[b.owner]
<1>a. \A b \in live : /\ b.owner \in Allocators /\ b.owner[1] \in Requests
                      /\ pc[b.owner[1]] \in Serving /\ b.chunk \in Chunks
                      /\ mem_chunk[b.owner] = b.chunk
  BY DEF Placed, Numbered, BuffersInSlabs, TypeOK
<1>b. \A r \in Requests : pc[r] \notin Serving => \A b \in live : b.owner[1] # r
  BY <1>a
<1>1. ASSUME NEW r \in Requests, MakeAllocator(r) PROVE Placed'
  <2>1. \A b \in live : b.owner[1] # r
    BY <1>b, <1>1 DEF MakeAllocator, Serving
  <2>2. \A b \in live : Same(b)
    <3>1. \A b \in live : b.owner # Home(r)
      BY <2>1
    <3>2. mem_chunk' = [mem_chunk EXCEPT ![Home(r)] = curr_mem_chunk'] /\ UNCHANGED alloc_vars
      BY <1>1 DEF MakeAllocator
    <3>3. \A b \in live : mem_chunk'[b.owner] = mem_chunk[b.owner]
      BY <1>a, <3>1, <3>2 DEF TypeOK
    <3> QED BY <3>2, <3>3 DEF alloc_vars
  <2> QED BY <1>1, <2>1, <2>2, PlacedMove DEF MakeAllocator, Calling, alloc_vars
<1>2. ASSUME NEW r \in Requests, NEW size \in Sizes, Allocate(r, size) PROVE Placed'
  <2>1. \A b \in live : Same(b)
    BY <1>2 DEF Allocate, alloc_vars
  <2>2. BuffersInSlabs' /\ Contained' /\ Apart'
    BY <1>2, <2>1, BuffersKept DEF Placed, Allocate, alloc_vars
  <2>3. /\ ttT_total \in Nat /\ ttT_total' = ttT_total + 1
        /\ size > 0 /\ live' = live /\ pc[r] = "idle"
        /\ \A q \in Requests : pc'[q] = IF q = r THEN "home" ELSE pc[q]
        /\ \A q \in Requests \ {r} : call'[q] = call[q]
        /\ call'[r].id = ttT_total' /\ call'[r].size = size
    BY <1>2, SlabAssumption DEF Allocate, Goto, TypeOK, alloc_vars
  <2>4. \A b \in live : b.id <= ttT_total /\ b.id \in Nat
    BY DEF Placed, Numbered, TypeOK
  <2>5. \A q \in Requests : pc[q] \in Calling => call[q].id <= ttT_total /\ call[q].id \in Nat
    BY DEF Placed, Numbered, TypeOK
  <2>6. \A b \in live' : b.id <= ttT_total' /\ pc'[b.owner[1]] \in Serving
    BY <1>a, <2>3, <2>4 DEF Serving
  <2>7. ASSUME NEW q \in Requests, pc'[q] \in Calling
        PROVE  /\ call'[q].size > 0 /\ call'[q].id <= ttT_total'
               /\ \A b \in live' : b.id # call'[q].id
               /\ \A o \in Requests \ {q} : pc'[o] \in Calling => call'[o].id # call'[q].id
    <3>1. CASE q = r
      BY <2>3, <2>4, <2>5, <3>1
    <3>2. CASE q # r
      BY <2>3, <2>5, <2>7, <3>2 DEF Placed, Numbered
    <3> QED BY <3>1, <3>2
  <2>8. Numbered'
    BY <2>6, <2>7 DEF Numbered, Calling, Serving
  <2> QED BY <2>2, <2>8 DEF Placed
<1>3. ASSUME NEW r \in Requests, AllocateHome(r) PROVE Placed'
  BY <1>3, PlacedGrant DEF AllocateHome, Bound, Calling
<1>4. ASSUME NEW r \in Requests, AllocateReroute(r) PROVE Placed'
  BY <1>4, PlacedMove DEF AllocateReroute, Calling, Serving, alloc_vars
<1>5. ASSUME NEW r \in Requests, AllocateSearch(r) PROVE Placed'
  BY <1>5, PlacedMove DEF AllocateSearch, Calling, Serving, alloc_vars
<1>6. ASSUME NEW r \in Requests, ScanChunk(r) PROVE Placed'
  <2>1. BuffersInSlabs' /\ Contained' /\ Apart'
    BY <1>6, BuffersKept DEF Placed, ScanChunk, alloc_vars
  <2> QED BY <1>6, <2>1 DEF Placed, Numbered, ScanChunk, alloc_vars, Serving, Calling
<1>7. ASSUME NEW r \in Requests, TakeAdditional(r) PROVE Placed'
  <2>1. mem_chunk[Addl(r)] = NoChunk
    BY <1>7 DEF TakeAdditional, Bound
  <2>2. \A b \in live : b.owner # Addl(r)
    BY <1>a, <2>1
  <2>3. \A b \in live : Same(b)
    BY <1>7, <1>a, <2>2 DEF TakeAdditional, TypeOK, alloc_vars
  <2> QED BY <1>7, <2>3, PlacedMove DEF TakeAdditional, Calling, Serving, alloc_vars
<1>8. ASSUME NEW r \in Requests, GiveUp(r) PROVE Placed'
  BY <1>8, PlacedMove DEF GiveUp, Calling, Serving, alloc_vars
<1>9. ASSUME NEW r \in Requests, AllocateRouted(r) PROVE Placed'
  BY <1>9, PlacedGrant DEF AllocateRouted, Bound, Calling
<1>10. ASSUME NEW r \in Requests, RoutedToHeap(r) PROVE Placed'
  BY <1>10, PlacedMove DEF RoutedToHeap, Calling, Serving, alloc_vars
<1>11. ASSUME NEW r \in Requests, Release(r) PROVE Placed'
  <2>1. BuffersInSlabs' /\ Contained' /\ Apart'
    BY <1>11, BuffersKept DEF Placed, Release
  <2>2. \A q \in Requests : pc'[q] = pc[q] \/ (q = r /\ pc'[q] \notin Serving \cup Calling)
    BY <1>11 DEF Release, Goto, TypeOK, Serving, Calling
  <2>3. /\ \A b \in live' : b \in live /\ b.owner[1] # r
        /\ call' = call /\ ttT_total' = ttT_total
    BY <1>11 DEF Release
  <2>4. \A b \in live' : b.id <= ttT_total' /\ pc'[b.owner[1]] \in Serving
    BY <1>a, <2>2, <2>3 DEF Placed, Numbered
  <2>5. \A q \in Requests : pc'[q] \in Calling => pc[q] \in Calling
    BY <2>2
  <2>6. Numbered'
    BY <2>3, <2>4, <2>5 DEF Placed, Numbered, Serving, Calling
  <2> QED BY <2>1, <2>6 DEF Placed
<1>12. ASSUME NEW r \in Requests, ReleaseHome(r) PROVE Placed'
  <2>1. \A b \in live : b.owner[1] # r
    BY <1>b, <1>12 DEF ReleaseHome, Serving
  <2>2. \A b \in live : Same(b)
    <3>1. \A b \in live : b.owner # Home(r)
      BY <2>1
    <3> QED BY <1>12, <1>a, <3>1 DEF ReleaseHome, FreeSlabsOf, TypeOK
  <2>3. PICK where \in {"none", "relAddl"} : Goto(r, where)
    BY <1>12 DEF ReleaseHome
  <2> QED BY <1>12, <2>1, <2>2, <2>3, PlacedMove DEF ReleaseHome, Calling
<1>13. ASSUME NEW r \in Requests, ReleaseAddl(r) PROVE Placed'
  <2>1. \A b \in live : b.owner[1] # r
    BY <1>b, <1>13 DEF ReleaseAddl, Serving
  <2>2. \A b \in live : Same(b)
    BY <1>13, <1>a, <2>1 DEF ReleaseAddl, FreeSlabsOf, TypeOK
  <2> QED BY <1>13, <2>1, <2>2, PlacedMove DEF ReleaseAddl, Calling
<1>14. CASE UNCHANGED vars
  <2>1. BuffersInSlabs' /\ Contained' /\ Apart'
    BY <1>14, BuffersKept DEF Placed, vars, alloc_vars
  <2> QED BY <1>14, <2>1 DEF vars, alloc_vars, Placed, Numbered, Serving, Calling
<1> QED
  BY <1>1, <1>2, <1>3, <1>4, <1>5, <1>6, <1>7, <1>8, <1>9, <1>10, <1>11, <1>12,
     <1>13, <1>14 DEF Next, Step

LEMMA InvInit == Init => IInv
<1> SUFFICES ASSUME Init PROVE Placed
  BY OwnedInit DEF IInv
<1> QED BY DEF Init, Placed, Numbered, BuffersInSlabs, Contained, Apart, Calling

LEMMA InvStep == IInv /\ [Next]_vars => IInv'
BY TypingStep, UnboundStep, OwnedStep, PlacedStep DEF IInv, OwnedInv

LEMMA InvAlways == Spec => []IInv
BY InvInit, InvStep, PTL DEF Spec

(* No two buffers in use share a byte and none leaves its chunk, for every  *)
(* number of requests, chunks and slabs and every size.                     *)
THEOREM NeverOverlap == Spec => []NoOverlap
<1>1. IInv => NoOverlap
  BY PlacedMeaning DEF IInv
<1> QED BY <1>1, InvAlways, PTL

(* The slabs under a buffer are held by its allocator as long as it is used.*)
THEOREM AlwaysInSlabs == Spec => []BuffersInSlabs
<1>1. IInv => BuffersInSlabs
  BY DEF IInv, Placed
<1> QED BY <1>1, InvAlways, PTL

(* Memory safety: buffers in use are disjoint and out of the way of what is *)
(* handed out next.                                                         *)
THEOREM AlwaysMemorySafe == Spec => []MemorySafe
<1>1. NoOverlap /\ BuffersInSlabs => MemorySafe
  BY DEF MemorySafe
<1> QED BY <1>1, NeverOverlap, AlwaysInSlabs, PTL

-----------------------------------------------------------------------------
(* ByteSlabs implements BufferPool: creating an allocator opens it and its  *)
(* additional one, serving a call grants a buffer, Release closes both, and *)
(* every other step is invisible.                                           *)

OpenNow == {a \in Allocators : pc[a[1]] \in Serving}

LEMMA OpenUnchanged ==
  ASSUME TypeOK, NEW r \in Requests, NEW where, Goto(r, where),
         pc[r] \in Serving <=> where \in Serving
  PROVE  OpenNow' = OpenNow
<1>1. \A q \in Requests : pc'[q] = IF q = r THEN where ELSE pc[q]
  BY DEF Goto, TypeOK
<1>2. \A a \in Allocators : a[1] \in Requests
  BY AllocatorFacts
<1> QED BY <1>1, <1>2 DEF OpenNow, Serving

LEMMA Grants ==
  ASSUME IInv, NEW r \in Requests, NEW a \in {Home(r), Addl(r)}, mem_chunk[a] \in Chunks,
         pc[r] \in Calling, AllocateSlab(r, a), Goto(r, "idle"), UNCHANGED mem_chunk
  PROVE  Pool!Grant
<1>1. TypeOK /\ Owned /\ Placed /\ a \in Allocators /\ a[1] = r
  BY AllocatorFacts DEF IInv, OwnedInv, Typing
<1>2. Safe(r, a)
  BY <1>1, AllocateSlabSafe DEF Placed, Numbered
<1>3. PICK start \in Nat :
        /\ live' = live \cup {NewBuffer(r, a, start)}
        /\ start + call[r].size <= ChunkEnd
        /\ \A b \in live : Disjoint(b, NewBuffer(r, a, start))
  BY <1>2 DEF Safe
<1> DEFINE new == NewBuffer(r, a, start)
<1>4. /\ new.id = call[r].id /\ new.owner = a /\ new.chunk = mem_chunk[a]
      /\ new.start = start /\ new.size = call[r].size
      /\ new \in [id: Nat, owner: Allocators, chunk: Chunks, start: Nat, size: Nat]
  BY <1>1 DEF NewBuffer, TypeOK
<1>5. live' = live \cup {new} /\ \A b \in live : Disjoint(b, new)
  BY <1>3
<1>6. new.start + new.size <= SlabCount * SlabSize
  BY <1>3, <1>4 DEF ChunkEnd
<1> HIDE DEF new
<1>7. \A b \in live : new.id # b.id /\ Pool!Disjoint(new, b)
  BY <1>1, <1>4, <1>5 DEF Pool!Disjoint, Disjoint, Placed, Numbered
<1>8. OpenNow' = OpenNow /\ a \in OpenNow
  BY <1>1, OpenUnchanged DEF OpenNow, Calling, Serving
<1> QED BY <1>4, <1>5, <1>6, <1>7, <1>8 DEF Pool!Grant, Pool!Buffers, OpenNow

LEMMA Opens ==
  ASSUME TypeOK, NEW r \in Requests, MakeAllocator(r)
  PROVE  Pool!Open({Home(r), Addl(r)})
<1>1. \A q \in Requests : pc'[q] = IF q = r THEN "idle" ELSE pc[q]
  BY DEF MakeAllocator, Goto, TypeOK
<1>2. pc[r] \notin Serving /\ "idle" \in Serving
  BY DEF MakeAllocator, Serving
<1>3. OpenNow \cap {Home(r), Addl(r)} = {}
  BY <1>2, AllocatorFacts DEF OpenNow
<1>4. OpenNow' = OpenNow \cup {Home(r), Addl(r)}
  <2>1. \A a \in Allocators : a \in OpenNow' <=> a \in OpenNow \/ a[1] = r
    BY <1>1, <1>2, AllocatorFacts DEF OpenNow, Serving
  <2>2. \A a \in Allocators : a[1] = r <=> a \in {Home(r), Addl(r)}
    BY AllocatorFacts
  <2>3. {Home(r), Addl(r)} \subseteq Allocators /\ OpenNow \subseteq Allocators /\ OpenNow' \subseteq Allocators
    BY AllocatorFacts DEF OpenNow, Allocators
  <2> QED BY <2>1, <2>2, <2>3
<1> QED BY <1>3, <1>4 DEF Pool!Open, OpenNow, MakeAllocator, alloc_vars

LEMMA Closes ==
  ASSUME TypeOK, NEW r \in Requests, Release(r)
  PROVE  Pool!Close({Home(r), Addl(r)})
<1>1. /\ \A q \in Requests : q # r => pc'[q] = pc[q]
      /\ pc'[r] \notin Serving
  BY DEF Release, Goto, TypeOK, Serving
<1>2. pc[r] \in Serving
  BY DEF Release, Serving
<1>3. \A a \in Allocators : a[1] = r <=> a \in {Home(r), Addl(r)}
  BY AllocatorFacts
<1>4. {Home(r), Addl(r)} \subseteq OpenNow
  BY <1>2, AllocatorFacts DEF OpenNow
<1>5. OpenNow' = OpenNow \ {Home(r), Addl(r)}
  <2>1. \A a \in Allocators : a \in OpenNow' <=> a \in OpenNow /\ a[1] # r
    BY <1>1, AllocatorFacts DEF OpenNow, Serving
  <2> QED BY <1>3, <2>1 DEF OpenNow, Allocators
<1>6. live' = {b \in live : b.owner \notin {Home(r), Addl(r)}}
  BY <1>3 DEF Release, TypeOK
<1> QED BY <1>4, <1>5, <1>6 DEF Pool!Close, OpenNow

LEMMA PoolStep == IInv /\ [Next]_vars => [Pool!Next]_(Pool!vars)
<1> SUFFICES ASSUME IInv, [Next]_vars PROVE Pool!Next \/ UNCHANGED Pool!vars
  OBVIOUS
<1>0. TypeOK /\ Bound
  BY DEF IInv, OwnedInv, Typing
<1> DEFINE Same == OpenNow' = OpenNow /\ live' = live
<1>a. Same => UNCHANGED Pool!vars
  BY DEF Pool!vars, OpenNow
<1>b. Pool!Grant => Pool!Next
  BY DEF Pool!Next
<1>c. \A r \in Requests : {Home(r), Addl(r)} \in SUBSET Allocators
  BY AllocatorFacts
<1> HIDE DEF Same
<1>1. ASSUME NEW r \in Requests, MakeAllocator(r) PROVE Pool!Next
  BY <1>0, <1>1, <1>c, Opens DEF Pool!Next
<1>2. ASSUME NEW r \in Requests, NEW size \in Sizes, Allocate(r, size) PROVE Same
  BY <1>0, <1>2, OpenUnchanged DEF Same, Allocate, Serving, alloc_vars
<1>3. ASSUME NEW r \in Requests, AllocateHome(r) PROVE Pool!Grant
  BY <1>0, <1>3, Grants DEF AllocateHome, Bound, Calling
<1>4. ASSUME NEW r \in Requests, AllocateReroute(r) PROVE Same
  BY <1>0, <1>4, OpenUnchanged DEF Same, AllocateReroute, Serving, alloc_vars
<1>5. ASSUME NEW r \in Requests, AllocateSearch(r) PROVE Same
  BY <1>0, <1>5, OpenUnchanged DEF Same, AllocateSearch, Serving, alloc_vars
<1>6. ASSUME NEW r \in Requests, ScanChunk(r) PROVE Same
  BY <1>6 DEF Same, ScanChunk, OpenNow, Serving, alloc_vars
<1>7. ASSUME NEW r \in Requests, TakeAdditional(r) PROVE Same
  BY <1>0, <1>7, OpenUnchanged DEF Same, TakeAdditional, Serving, alloc_vars
<1>8. ASSUME NEW r \in Requests, GiveUp(r) PROVE Same
  BY <1>0, <1>8, OpenUnchanged DEF Same, GiveUp, Serving, alloc_vars
<1>9. ASSUME NEW r \in Requests, AllocateRouted(r) PROVE Pool!Grant
  BY <1>0, <1>9, Grants DEF AllocateRouted, Bound, Calling
<1>10. ASSUME NEW r \in Requests, RoutedToHeap(r) PROVE Same
  BY <1>0, <1>10, OpenUnchanged DEF Same, RoutedToHeap, Serving, alloc_vars
<1>11. ASSUME NEW r \in Requests, Release(r) PROVE Pool!Next
  BY <1>0, <1>11, <1>c, Closes DEF Pool!Next
<1>12. ASSUME NEW r \in Requests, ReleaseHome(r) PROVE Same
  <2>1. PICK where \in {"none", "relAddl"} : Goto(r, where)
    BY <1>12 DEF ReleaseHome
  <2> QED BY <1>0, <1>12, <2>1, OpenUnchanged DEF Same, ReleaseHome, Serving
<1>13. ASSUME NEW r \in Requests, ReleaseAddl(r) PROVE Same
  BY <1>0, <1>13, OpenUnchanged DEF Same, ReleaseAddl, Serving
<1>14. CASE UNCHANGED vars
  BY <1>14 DEF Pool!vars, vars, alloc_vars, Serving
<1> QED
  BY <1>a, <1>b, <1>1, <1>2, <1>3, <1>4, <1>5, <1>6, <1>7, <1>8, <1>9, <1>10,
     <1>11, <1>12, <1>13, <1>14 DEF Next, Step

(* The slab allocator keeps the promise of BufferPool.                      *)
THEOREM RefinesPool == Spec => ImplementsPool
<1>1. Init => Pool!Init
  BY AllocatorFacts DEF Init, Pool!Init, Serving
<1> QED BY <1>1, PoolStep, InvAlways, PTL DEF Spec, ImplementsPool, Pool!Spec

(* No step drops an additional allocator that holds slabs.                  *)
THEOREM NeverLosesAddl == Spec => AddlNeverLost
<1>1. IInv /\ [Next]_vars =>
        [\A r \in Requests :
           mem_chunk[Addl(r)] # NoChunk /\ mem_chunk'[Addl(r)] # mem_chunk[Addl(r)]
             => held'[Addl(r)] = {} /\ pc[r] = "relAddl"]_vars
  <2> SUFFICES ASSUME TypeOK, Bound, [Next]_vars, NEW r \in Requests,
                      mem_chunk[Addl(r)] # NoChunk,
                      mem_chunk'[Addl(r)] # mem_chunk[Addl(r)]
               PROVE  held'[Addl(r)] = {} /\ pc[r] = "relAddl"
    BY DEF IInv, OwnedInv, Typing
  <2> USE AllocatorFacts
  <2>1. PICK q \in Requests : MakeAllocator(q) \/ TakeAdditional(q) \/ ReleaseAddl(q)
    BY DEF Next, Step, Allocate, AllocateHome, AllocateReroute, AllocateSearch, ScanChunk,
           GiveUp, AllocateRouted, RoutedToHeap, Release, ReleaseHome, vars
  <2>2. ~MakeAllocator(q)
    BY DEF MakeAllocator, TypeOK
  <2>3. ~TakeAdditional(q)
    BY DEF TakeAdditional, TypeOK, Bound
  <2>4. ReleaseAddl(q) => q = r
    BY DEF ReleaseAddl, TypeOK
  <2> QED BY <2>1, <2>2, <2>3, <2>4 DEF ReleaseAddl, FreeSlabsOf, TypeOK
<1> QED BY <1>1, InvAlways, PTL DEF Spec, AddlNeverLost

-----------------------------------------------------------------------------
(* Sums, as differences of numbers of pairs.                                *)

LEMMA NatMinimum ==
  ASSUME NEW T, T \subseteq Nat, T # {}
  PROVE  \E m \in T : \A n \in T : m <= n
<1>1. PICK m \in T : \A n \in T : ~(<<n, m>> \in OpToRel(<, Nat))
  BY NatLessThanWellFounded, WFMin, Zenon
<1>2. \A n \in T : ~(n < m)
  BY <1>1 DEF OpToRel
<1> QED BY <1>2

(* A set of numbers that has 0, and with each number the next, has all. *)
LEMMA AllNumbers ==
  ASSUME NEW T, 0 \in T, \A n \in Nat : n \in T => n + 1 \in T
  PROVE  Nat \subseteq T
<1> SUFFICES ASSUME Nat \ T # {} PROVE FALSE
  OBVIOUS
<1>1. PICK m \in Nat \ T : \A n \in Nat \ T : m <= n
  BY NatMinimum
<1>2. m - 1 \in Nat /\ ~(m <= m - 1) /\ (m - 1) + 1 = m
  BY <1>1
<1> QED BY <1>1, <1>2



Row(f, x)  == {x} \X (1 .. f[x])
Pile(f, s) == UNION {Row(f, x) : x \in s}

LEMMA RowCount ==
  ASSUME NEW f, NEW x, f[x] \in Nat
  PROVE  IsFiniteSet(Row(f, x)) /\ Cardinality(Row(f, x)) = f[x]
<1>1. IsFiniteSet({x}) /\ Cardinality({x}) = 1
  BY FS_Singleton
<1>2. IsFiniteSet(1 .. f[x]) /\ Cardinality(1 .. f[x]) = f[x]
  BY FS_Interval
<1> DEFINE S == {x}
           T == 1 .. f[x]
<1> HIDE DEF S, T
<1>3. IsFiniteSet(S \X T) /\ Cardinality(S \X T) = Cardinality(S) * Cardinality(T)
  BY <1>1, <1>2, FS_Product DEF S, T
<1>4. Cardinality(S) * Cardinality(T) = f[x]
  BY <1>1, <1>2 DEF S, T
<1> QED BY <1>3, <1>4 DEF S, T, Row

LEMMA PileCut ==
  ASSUME NEW f, NEW s, NEW x \in s, f[x] \in Nat, IsFiniteSet(Pile(f, s \ {x}))
  PROVE  /\ IsFiniteSet(Pile(f, s))
         /\ Cardinality(Pile(f, s)) = f[x] + Cardinality(Pile(f, s \ {x}))
<1> DEFINE R == Row(f, x)
           P == Pile(f, s \ {x})
<1>1. Pile(f, s) = R \cup P
  BY DEF Pile
<1>2. R \cap P = {}
  BY DEF Pile, Row
<1>3. IsFiniteSet(R) /\ Cardinality(R) = f[x]
  BY RowCount
<1> HIDE DEF R, P
<1>4. IsFiniteSet(P)
  BY DEF P
<1>5. /\ IsFiniteSet(R \cup P)
      /\ Cardinality(R \cup P) = Cardinality(R) + Cardinality(P) - Cardinality(R \cap P)
  BY <1>3, <1>4, FS_Union
<1>6. Cardinality(R \cap P) = 0 /\ Cardinality(P) \in Nat
  BY <1>2, <1>4, FS_EmptySet, FS_CardinalityType
<1>7. Cardinality(R \cup P) = f[x] + Cardinality(P)
  BY <1>3, <1>5, <1>6
<1> QED BY <1>1, <1>5, <1>7 DEF P

LEMMA PileFinite ==
  ASSUME NEW s, IsFiniteSet(s), NEW f, \A x \in s : f[x] \in Nat
  PROVE  IsFiniteSet(Pile(f, s)) /\ Cardinality(Pile(f, s)) \in Nat
<1> DEFINE T == {n \in Nat : \A u \in SUBSET s : Cardinality(u) = n => IsFiniteSet(Pile(f, u))}
<1>1. 0 \in T
  <2>1. ASSUME NEW u \in SUBSET s, Cardinality(u) = 0 PROVE IsFiniteSet(Pile(f, u))
    <3>1. u = {}
      BY <2>1, FS_Subset, FS_EmptySet
    <3>2. Pile(f, u) = {}
      BY <3>1 DEF Pile
    <3> QED BY <3>2, FS_EmptySet
  <2> QED BY <2>1
<1>2. ASSUME NEW n \in Nat, n \in T PROVE n + 1 \in T
  <2>1. ASSUME NEW u \in SUBSET s, Cardinality(u) = n + 1 PROVE IsFiniteSet(Pile(f, u))
    <3>1. IsFiniteSet(u) /\ u # {}
      <4>1. n + 1 # 0
        OBVIOUS
      <4> QED BY <2>1, <4>1, FS_Subset, FS_EmptySet
    <3>2. PICK x \in u : TRUE
      BY <3>1
    <3>3. Cardinality(u \ {x}) = n
      <4>1. Cardinality(u \ {x}) = Cardinality(u) - 1
        BY <3>1, <3>2, FS_RemoveElement
      <4> QED BY <2>1, <4>1
    <3>4. IsFiniteSet(Pile(f, u \ {x}))
      BY <1>2, <3>3
    <3> QED BY <3>2, <3>4, PileCut
  <2> QED BY <2>1
<1>3. Nat \subseteq T
  BY <1>1, <1>2, AllNumbers
<1>4. Cardinality(s) \in Nat
  BY FS_CardinalityType
<1>5. IsFiniteSet(Pile(f, s))
  BY <1>3, <1>4
<1> QED BY <1>5, FS_CardinalityType

LEMMA PileSame ==
  ASSUME NEW s, NEW f, NEW g, \A x \in s : f[x] = g[x]
  PROVE  Pile(f, s) = Pile(g, s)
BY DEF Pile, Row

LEMMA PileDrop ==
  ASSUME NEW s, NEW u, u \subseteq s, NEW f, \A x \in s \ u : f[x] = 0
  PROVE  Pile(f, s) = Pile(f, u)
<1>1. \A x \in s \ u : Row(f, x) = {}
  BY DEF Row
<1> QED BY <1>1 DEF Pile

LEMMA PileMore ==
  ASSUME NEW s, IsFiniteSet(s), NEW f, \A x \in s : f[x] \in Nat, NEW y \in s, NEW d \in Nat,
         NEW g, g[y] = f[y] + d, \A x \in s \ {y} : g[x] = f[x]
  PROVE  Cardinality(Pile(g, s)) = Cardinality(Pile(f, s)) + d
<1>1. IsFiniteSet(s \ {y})
  BY FS_Subset
<1>2. /\ IsFiniteSet(Pile(f, s \ {y})) /\ Cardinality(Pile(f, s \ {y})) \in Nat
  BY <1>1, PileFinite
<1>3. f[y] \in Nat /\ g[y] \in Nat
  OBVIOUS
<1>4. IsFiniteSet(Pile(f, s \ {y}))
  BY <1>2
<1>5. Cardinality(Pile(f, s)) = f[y] + Cardinality(Pile(f, s \ {y}))
  BY <1>3, <1>4, PileCut
<1>6. Pile(g, s \ {y}) = Pile(f, s \ {y})
  BY PileSame
<1>7. IsFiniteSet(Pile(g, s \ {y}))
  BY <1>4, <1>6
<1>8. Cardinality(Pile(g, s)) = g[y] + Cardinality(Pile(g, s \ {y}))
  <2>1. ASSUME NEW h, h[y] \in Nat, IsFiniteSet(Pile(h, s \ {y}))
        PROVE  Cardinality(Pile(h, s)) = h[y] + Cardinality(Pile(h, s \ {y}))
    BY <2>1, PileCut
  <2> QED BY <1>3, <1>7, <2>1, Zenon
<1> QED BY <1>2, <1>3, <1>5, <1>6, <1>8

(* The numbers f are added up in the order in which CHOOSE takes them.      *)
Adds(g, f, S) ==
  g = [s \in SUBSET S |-> IF s = {} THEN 0
                          ELSE f[CHOOSE x \in s : TRUE] + g[s \ {CHOOSE x \in s : TRUE}]]

(* The difference of what p and what m have for the members of s.           *)
Balance(p, m, s) == Cardinality(Pile(p, s)) - Cardinality(Pile(m, s))

LEMMA BalanceCut ==
  ASSUME NEW S, IsFiniteSet(S), NEW p, NEW m, \A x \in S : p[x] \in Nat /\ m[x] \in Nat,
         NEW s \in SUBSET S, NEW y \in s
  PROVE  /\ Balance(p, m, s) \in Int /\ Balance(p, m, s \ {y}) \in Int
         /\ Balance(p, m, s) = (p[y] - m[y]) + Balance(p, m, s \ {y})
<1>1. IsFiniteSet(s) /\ IsFiniteSet(s \ {y})
  BY FS_Subset
<1>2. /\ IsFiniteSet(Pile(p, s \ {y})) /\ Cardinality(Pile(p, s \ {y})) \in Nat
      /\ IsFiniteSet(Pile(m, s \ {y})) /\ Cardinality(Pile(m, s \ {y})) \in Nat
  <2>1. (\A x \in s \ {y} : p[x] \in Nat) /\ \A x \in s \ {y} : m[x] \in Nat
    OBVIOUS
  <2> QED BY <1>1, <2>1, PileFinite
<1>3. p[y] \in Nat /\ m[y] \in Nat
  OBVIOUS
<1>4. Cardinality(Pile(p, s)) = p[y] + Cardinality(Pile(p, s \ {y}))
  <2>1. IsFiniteSet(Pile(p, s \ {y})) /\ p[y] \in Nat
    BY <1>2, <1>3
  <2> QED BY <2>1, PileCut
<1>5. Cardinality(Pile(m, s)) = m[y] + Cardinality(Pile(m, s \ {y}))
  <2>1. IsFiniteSet(Pile(m, s \ {y})) /\ m[y] \in Nat
    BY <1>2, <1>3
  <2> QED BY <2>1, PileCut
<1> QED BY <1>2, <1>3, <1>4, <1>5 DEF Balance

LEMMA BalanceNone == ASSUME NEW p, NEW m PROVE Balance(p, m, {}) = 0
<1>1. Pile(p, {}) = {} /\ Pile(m, {}) = {}
  BY DEF Pile
<1> QED BY <1>1, FS_EmptySet DEF Balance

LEMMA AddsExists ==
  ASSUME NEW S, IsFiniteSet(S), NEW p, NEW m, \A x \in S : p[x] \in Nat /\ m[x] \in Nat,
         NEW f, \A x \in S : f[x] = p[x] - m[x]
  PROVE  \E g : Adds(g, f, S)
<1> DEFINE g == [s \in SUBSET S |-> Balance(p, m, s)]
<1>1. ASSUME NEW s \in SUBSET S, s # {}
      PROVE  g[s] = f[CHOOSE x \in s : TRUE] + g[s \ {CHOOSE x \in s : TRUE}]
  <2>1. PICK x \in s : x = CHOOSE y \in s : TRUE
    BY <1>1
  <2>2. s \ {x} \in SUBSET S /\ f[x] = p[x] - m[x]
    BY <2>1
  <2>3. Balance(p, m, s) = (p[x] - m[x]) + Balance(p, m, s \ {x})
    <3>1. x \in s
      BY <2>1
    <3> QED BY <3>1, BalanceCut
  <2> QED BY <2>1, <2>2, <2>3
<1>2. \A s \in SUBSET S : s = {} => g[s] = 0
  BY BalanceNone
<1>3. g = [s \in SUBSET S |-> g[s]]
  OBVIOUS
<1> HIDE DEF g
<1>4. Adds(g, f, S)
  BY <1>1, <1>2, <1>3, Zenon DEF Adds
<1> QED BY <1>4

LEMMA AddsIs ==
  ASSUME NEW S, IsFiniteSet(S), NEW p, NEW m, \A x \in S : p[x] \in Nat /\ m[x] \in Nat,
         NEW f, \A x \in S : f[x] = p[x] - m[x], NEW g, Adds(g, f, S)
  PROVE  g[S] = Balance(p, m, S)
<1> DEFINE T == {n \in Nat : \A s \in SUBSET S : Cardinality(s) = n => g[s] = Balance(p, m, s)}
<1>0. \A s \in SUBSET S : g[s] = IF s = {} THEN 0
                                 ELSE f[CHOOSE x \in s : TRUE] + g[s \ {CHOOSE x \in s : TRUE}]
  BY Zenon DEF Adds
<1>1. 0 \in T
  <2>1. ASSUME NEW s \in SUBSET S, Cardinality(s) = 0 PROVE g[s] = Balance(p, m, s)
    <3>1. s = {}
      BY <2>1, FS_Subset, FS_EmptySet
    <3> QED BY <1>0, <3>1, BalanceNone
  <2> QED BY <2>1
<1>2. ASSUME NEW n \in Nat, n \in T PROVE n + 1 \in T
  <2>1. ASSUME NEW s \in SUBSET S, Cardinality(s) = n + 1 PROVE g[s] = Balance(p, m, s)
    <3>1. IsFiniteSet(s) /\ s # {}
      <4>1. n + 1 # 0
        OBVIOUS
      <4> QED BY <2>1, <4>1, FS_Subset, FS_EmptySet
    <3>2. PICK x \in s : x = CHOOSE y \in s : TRUE
      BY <3>1
    <3>3. s \ {x} \in SUBSET S /\ Cardinality(s \ {x}) = n /\ f[x] = p[x] - m[x]
      <4>1. Cardinality(s \ {x}) = Cardinality(s) - 1
        BY <3>1, <3>2, FS_RemoveElement
      <4> QED BY <2>1, <3>2, <4>1
    <3>4. g[s \ {x}] = Balance(p, m, s \ {x})
      BY <1>2, <3>3
    <3>5. Balance(p, m, s) = (p[x] - m[x]) + Balance(p, m, s \ {x})
      <4>1. x \in s
        BY <3>2
      <4> QED BY <4>1, BalanceCut
    <3>6. g[s] = f[x] + g[s \ {x}]
      BY <1>0, <3>1, <3>2
    <3> QED BY <3>3, <3>4, <3>5, <3>6
  <2> QED BY <2>1
<1>3. Nat \subseteq T
  BY <1>1, <1>2, AllNumbers
<1>4. Cardinality(S) \in Nat
  BY FS_CardinalityType
<1> QED BY <1>3, <1>4

-----------------------------------------------------------------------------
(* The totals of the status page.                                           *)

Tried  == [c \in Chunks |-> stat[c]["full"] + stat[c]["small"] + stat[c]["tail"] + stat[c]["oom"]]
Routed == [c \in Chunks |-> stat[c]["routed"]]
Inside == {r \in Requests : pc[r] \in {"home", "route"}}

(* Each call is counted once: as inside, or in the statistics of a chunk.   *)
Totals ==
  /\ IsFiniteSet(Inside)
  /\ Balance(Tried, Routed, Chunks) + Cardinality(Inside) = ttT_total

LEMMA TriedFacts ==
  ASSUME TypeOK
  PROVE  /\ IsFiniteSet(Chunks)
         /\ \A c \in Chunks : Tried[c] \in Nat /\ Routed[c] \in Nat
         /\ \A c \in Chunks : \A k \in StatKinds : stat[c][k] \in Nat
<1>1. IsFiniteSet(Chunks)
  BY SlabAssumption, FS_Interval DEF Chunks
<1>2. \A c \in Chunks : \A k \in StatKinds : stat[c][k] \in Nat
  BY DEF TypeOK
<1>3. ASSUME NEW c \in Chunks PROVE Tried[c] \in Nat /\ Routed[c] \in Nat
  <2>1. /\ stat[c]["full"] \in Nat /\ stat[c]["small"] \in Nat /\ stat[c]["tail"] \in Nat
        /\ stat[c]["oom"] \in Nat /\ stat[c]["routed"] \in Nat
    BY <1>2 DEF StatKinds
  <2> QED BY <2>1 DEF Tried, Routed
<1> QED BY <1>1, <1>2, <1>3

LEMMA BalanceType == ASSUME TypeOK PROVE Balance(Tried, Routed, Chunks) \in Int
<1>1. /\ IsFiniteSet(Chunks) /\ (\A x \in Chunks : Tried[x] \in Nat)
      /\ \A x \in Chunks : Routed[x] \in Nat
  BY TriedFacts
<1>2. Cardinality(Pile(Tried, Chunks)) \in Nat /\ Cardinality(Pile(Routed, Chunks)) \in Nat
  BY <1>1, PileFinite
<1> QED BY <1>2 DEF Balance

(* The sum that the status page makes. *)
LEMMA ItemsAre ==
  ASSUME TypeOK
  PROVE  ItemsTotal = Balance(Tried, Routed, Chunks)
<1> DEFINE items == [c \in Chunks |-> Tried[c] - Routed[c]]
           Eq(g) == g = [s \in SUBSET Chunks |->
              IF s = {} THEN 0
              ELSE (stat[CHOOSE x \in s : TRUE]["full"] + stat[CHOOSE x \in s : TRUE]["small"]
                     + stat[CHOOSE x \in s : TRUE]["tail"] + stat[CHOOSE x \in s : TRUE]["oom"]
                     - stat[CHOOSE x \in s : TRUE]["routed"])
                     + g[s \ {CHOOSE x \in s : TRUE}]]
<1>1. IsFiniteSet(Chunks) /\ \A c \in Chunks : Tried[c] \in Nat /\ Routed[c] \in Nat
  BY TriedFacts
<1>2. \A c \in Chunks : items[c] = Tried[c] - Routed[c]
  OBVIOUS
<1>3. \A c \in Chunks : items[c] = stat[c]["full"] + stat[c]["small"] + stat[c]["tail"] + stat[c]["oom"]
                                   - stat[c]["routed"]
  <2> SUFFICES ASSUME NEW c \in Chunks
               PROVE  items[c] = stat[c]["full"] + stat[c]["small"] + stat[c]["tail"] + stat[c]["oom"]
                                   - stat[c]["routed"]
    BY Zenon
  <2>1. Tried[c] = stat[c]["full"] + stat[c]["small"] + stat[c]["tail"] + stat[c]["oom"]
    BY DEF Tried
  <2>2. Routed[c] = stat[c]["routed"]
    BY DEF Routed
  <2>3. items[c] = Tried[c] - Routed[c]
    BY <1>2
  <2>4. /\ stat[c]["full"] \in Nat /\ stat[c]["small"] \in Nat /\ stat[c]["tail"] \in Nat
        /\ stat[c]["oom"] \in Nat /\ stat[c]["routed"] \in Nat
    BY TriedFacts DEF StatKinds
  <2> HIDE DEF items
  <2> QED BY <2>1, <2>2, <2>3, <2>4
<1> HIDE DEF items
<1>4. ASSUME NEW g PROVE Adds(g, items, Chunks) <=> Eq(g)
  <2> DEFINE F(s) == IF s = {} THEN 0
                     ELSE items[CHOOSE x \in s : TRUE] + g[s \ {CHOOSE x \in s : TRUE}]
             G(s) == IF s = {} THEN 0
                     ELSE (stat[CHOOSE x \in s : TRUE]["full"] + stat[CHOOSE x \in s : TRUE]["small"]
                            + stat[CHOOSE x \in s : TRUE]["tail"] + stat[CHOOSE x \in s : TRUE]["oom"]
                            - stat[CHOOSE x \in s : TRUE]["routed"])
                            + g[s \ {CHOOSE x \in s : TRUE}]
  <2>1. ASSUME NEW s \in SUBSET Chunks PROVE F(s) = G(s)
    <3>1. CASE s = {}
      BY <3>1
    <3>2. CASE s # {}
      <4>1. PICK c : c = CHOOSE x \in s : TRUE
        OBVIOUS
      <4>2. c \in Chunks
        BY <3>2, <4>1
      <4>3. items[c] = stat[c]["full"] + stat[c]["small"] + stat[c]["tail"] + stat[c]["oom"]
                         - stat[c]["routed"]
        BY <1>3, <4>2
      <4>4. F(s) = items[c] + g[s \ {c}]
        BY <3>2, <4>1
      <4>5. G(s) = (stat[c]["full"] + stat[c]["small"] + stat[c]["tail"] + stat[c]["oom"]
                     - stat[c]["routed"]) + g[s \ {c}]
        BY <3>2, <4>1
      <4> QED BY <4>3, <4>4, <4>5
    <3> QED BY <3>1, <3>2
  <2>2. /\ Adds(g, items, Chunks) <=> g = [s \in SUBSET Chunks |-> F(s)]
        /\ Eq(g) <=> g = [s \in SUBSET Chunks |-> G(s)]
    BY Zenon DEF Adds
  <2> HIDE DEF F, G
  <2>3. [s \in SUBSET Chunks |-> F(s)] = [s \in SUBSET Chunks |-> G(s)]
    BY <2>1, Zenon
  <2> QED BY <2>2, <2>3
<1>5. \E g : Eq(g)
  <2>1. PICK g : Adds(g, items, Chunks)
    BY <1>1, <1>2, AddsExists
  <2>2. Eq(g)
    BY <1>4, <2>1, Zenon
  <2> HIDE DEF Eq
  <2> QED BY <2>2
<1>6. Eq(CHOOSE g : Eq(g))
  BY <1>5
<1>7. ItemsTotal = (CHOOSE g : Eq(g))[Chunks]
  BY DEF ItemsTotal, MapThenSumSet, MapThenFoldSet
<1>8. Adds(CHOOSE g : Eq(g), items, Chunks)
  <2> HIDE DEF Eq
  <2> QED BY <1>4, <1>6
<1> HIDE DEF Eq
<1>9. (CHOOSE g : Eq(g))[Chunks] = Balance(Tried, Routed, Chunks)
  BY <1>1, <1>2, <1>8, AddsIs
<1> QED BY <1>7, <1>9

One(b) == IF b THEN 1 ELSE 0

(* What counting under some kinds adds to the balance. *)
LEMMA CountAdds ==
  ASSUME TypeOK, NEW c \in Chunks, NEW kinds, Count(c, kinds), NEW d \in Nat, NEW e \in Nat,
         d = One("full" \in kinds) + One("small" \in kinds) + One("tail" \in kinds) + One("oom" \in kinds),
         e = One("routed" \in kinds)
  PROVE  Balance(Tried, Routed, Chunks)' = Balance(Tried, Routed, Chunks) + d - e
<1>1. IsFiniteSet(Chunks) /\ (\A x \in Chunks : Tried[x] \in Nat) /\ \A x \in Chunks : Routed[x] \in Nat
  BY TriedFacts
<1>2. /\ \A x \in Chunks : x # c => stat'[x] = stat[x]
      /\ \A k \in StatKinds : stat'[c][k] = stat[c][k] + One(k \in kinds)
  BY DEF Count, TypeOK, One
<1>3. PICK p, m : p = Tried' /\ m = Routed'
  OBVIOUS
<1>4. \A x \in Chunks : p[x] = stat'[x]["full"] + stat'[x]["small"] + stat'[x]["tail"] + stat'[x]["oom"]
  BY <1>3 DEF Tried
<1>5. \A x \in Chunks : m[x] = stat'[x]["routed"]
  BY <1>3 DEF Routed
<1>6. \A x \in Chunks \ {c} : p[x] = Tried[x]
  BY <1>2, <1>4 DEF Tried
<1>7. \A x \in Chunks \ {c} : m[x] = Routed[x]
  BY <1>2, <1>5 DEF Routed
<1>8. p[c] = Tried[c] + d
  <2>1. /\ stat[c]["full"] \in Nat /\ stat[c]["small"] \in Nat /\ stat[c]["tail"] \in Nat
        /\ stat[c]["oom"] \in Nat
    BY TriedFacts DEF StatKinds
  <2>2. /\ stat'[c]["full"] = stat[c]["full"] + One("full" \in kinds)
        /\ stat'[c]["small"] = stat[c]["small"] + One("small" \in kinds)
        /\ stat'[c]["tail"] = stat[c]["tail"] + One("tail" \in kinds)
        /\ stat'[c]["oom"] = stat[c]["oom"] + One("oom" \in kinds)
    BY <1>2 DEF StatKinds
  <2>3. Tried[c] = stat[c]["full"] + stat[c]["small"] + stat[c]["tail"] + stat[c]["oom"]
    BY DEF Tried
  <2>4. PICK f, s, i, o : /\ f = One("full" \in kinds) /\ s = One("small" \in kinds)
                          /\ i = One("tail" \in kinds) /\ o = One("oom" \in kinds)
    OBVIOUS
  <2>5. f \in Nat /\ s \in Nat /\ i \in Nat /\ o \in Nat
    BY <2>4 DEF One
  <2>6. d = f + s + i + o
    BY <2>4
  <2>7. p[c] = stat'[c]["full"] + stat'[c]["small"] + stat'[c]["tail"] + stat'[c]["oom"]
    BY <1>4
  <2>8. /\ stat'[c]["full"] = stat[c]["full"] + f /\ stat'[c]["small"] = stat[c]["small"] + s
        /\ stat'[c]["tail"] = stat[c]["tail"] + i /\ stat'[c]["oom"] = stat[c]["oom"] + o
    BY <2>2, <2>4, Zenon
  <2>9. PICK f0 \in Nat, s0 \in Nat, i0 \in Nat, o0 \in Nat :
          /\ f0 = stat[c]["full"] /\ s0 = stat[c]["small"]
          /\ i0 = stat[c]["tail"] /\ o0 = stat[c]["oom"]
    BY <2>1
  <2>10. p[c] = (f0 + f) + (s0 + s) + (i0 + i) + (o0 + o)
    BY <2>7, <2>8, <2>9
  <2>11. Tried[c] = f0 + s0 + i0 + o0
    BY <2>3, <2>9
  <2>12. (f0 + f) + (s0 + s) + (i0 + i) + (o0 + o) = (f0 + s0 + i0 + o0) + (f + s + i + o)
    BY <2>5
  <2> QED BY <2>6, <2>10, <2>11, <2>12, Zenon
<1>9. m[c] = Routed[c] + e
  BY <1>2, <1>5 DEF Routed, StatKinds
<1>10. Cardinality(Pile(p, Chunks)) = Cardinality(Pile(Tried, Chunks)) + d
  BY <1>1, <1>6, <1>8, PileMore
<1>11. Cardinality(Pile(m, Chunks)) = Cardinality(Pile(Routed, Chunks)) + e
  BY <1>1, <1>7, <1>9, PileMore
<1>12. Balance(Tried, Routed, Chunks)' = Balance(p, m, Chunks)
  BY <1>3 DEF Balance, Pile, Row
<1>13. Cardinality(Pile(Tried, Chunks)) \in Nat /\ Cardinality(Pile(Routed, Chunks)) \in Nat
  BY <1>1, PileFinite
<1> QED BY <1>10, <1>11, <1>12, <1>13 DEF Balance

LEMMA OomAdds ==
  ASSUME TypeOK, NEW c \in Chunks, Count(c, {"oom"})
  PROVE  Balance(Tried, Routed, Chunks)' = Balance(Tried, Routed, Chunks) + 1 - 0
<1>1. /\ 1 = One("full" \in {"oom"}) + One("small" \in {"oom"}) + One("tail" \in {"oom"})
               + One("oom" \in {"oom"})
      /\ 0 = One("routed" \in {"oom"})
  BY DEF One
<1> QED BY <1>1, CountAdds

LEMMA InsideAfter ==
  ASSUME TypeOK, Totals, NEW r \in Requests, NEW where, Goto(r, where)
  PROVE  /\ IsFiniteSet(Inside') /\ Cardinality(Inside) \in Nat
         /\ Cardinality(Inside') = Cardinality(Inside) + One(where \in {"home", "route"})
                                      - One(pc[r] \in {"home", "route"})
<1>1. pc' = [pc EXCEPT ![r] = where] /\ IsFiniteSet(Inside)
  BY DEF Goto, Totals
<1>2. pc'[r] = where /\ \A q \in Requests : q # r => pc'[q] = pc[q]
  BY <1>1 DEF TypeOK
<1>3. Inside' = IF where \in {"home", "route"} THEN Inside \cup {r} ELSE Inside \ {r}
  BY <1>2 DEF Inside
<1>4. r \in Inside <=> pc[r] \in {"home", "route"}
  BY DEF Inside
<1>5. /\ IsFiniteSet(Inside \cup {r}) /\ IsFiniteSet(Inside \ {r}) /\ Cardinality(Inside) \in Nat
      /\ r \notin Inside => Cardinality(Inside \cup {r}) = Cardinality(Inside) + 1
      /\ r \in Inside => Cardinality(Inside \ {r}) = Cardinality(Inside) - 1
  BY <1>1, FS_AddElement, FS_RemoveElement, FS_CardinalityType
<1>6. /\ r \in Inside => Inside \cup {r} = Inside
      /\ r \notin Inside => Inside \ {r} = Inside
  OBVIOUS
<1> HIDE DEF Inside
<1>7. CASE where \in {"home", "route"} /\ r \in Inside
  <2>1. Inside' = Inside
    BY <1>3, <1>6, <1>7
  <2> QED BY <1>1, <1>4, <1>5, <1>7, <2>1 DEF One
<1>8. CASE where \in {"home", "route"} /\ r \notin Inside
  <2>1. Inside' = Inside \cup {r}
    BY <1>3, <1>8
  <2> QED BY <1>4, <1>5, <1>8, <2>1 DEF One
<1>9. CASE where \notin {"home", "route"} /\ r \in Inside
  <2>1. Inside' = Inside \ {r}
    BY <1>3, <1>9
  <2> QED BY <1>4, <1>5, <1>9, <2>1 DEF One
<1>10. CASE where \notin {"home", "route"} /\ r \notin Inside
  <2>1. Inside' = Inside
    BY <1>3, <1>6, <1>10
  <2> QED BY <1>1, <1>4, <1>5, <1>10, <2>1 DEF One
<1> QED BY <1>7, <1>8, <1>9, <1>10

(* A step that moves a request and counts d calls tried and e calls routed. *)
LEMMA TotalsMove ==
  ASSUME TypeOK, Totals, NEW r \in Requests, NEW where, Goto(r, where),
         NEW d \in Nat, NEW e \in Nat,
         Balance(Tried, Routed, Chunks)' = Balance(Tried, Routed, Chunks) + d - e,
         ttT_total' = ttT_total,
         d + One(where \in {"home", "route"}) = e + One(pc[r] \in {"home", "route"})
  PROVE  Totals'
<1>1. /\ IsFiniteSet(Inside') /\ Cardinality(Inside) \in Nat
      /\ Cardinality(Inside') = Cardinality(Inside) + One(where \in {"home", "route"})
                                   - One(pc[r] \in {"home", "route"})
  BY InsideAfter
<1>2. Balance(Tried, Routed, Chunks) + Cardinality(Inside) = ttT_total
  BY DEF Totals
<1>3. Balance(Tried, Routed, Chunks) \in Int
  BY BalanceType
<1>4. One(where \in {"home", "route"}) \in Nat /\ One(pc[r] \in {"home", "route"}) \in Nat
  BY DEF One
<1>5. PICK b \in Int, i \in Nat, j \in Nat, k \in Nat :
        /\ b = Balance(Tried, Routed, Chunks) /\ i = Cardinality(Inside)
        /\ j = One(where \in {"home", "route"}) /\ k = One(pc[r] \in {"home", "route"})
  BY <1>1, <1>3, <1>4
<1>6. (b + d - e) + (i + j - k) = b + i
  <2>1. d + j = e + k
    BY <1>5
  <2> QED BY <1>5, <2>1
<1>7. Balance(Tried, Routed, Chunks)' + Cardinality(Inside') = ttT_total'
  BY <1>1, <1>2, <1>5, <1>6
<1> QED BY <1>1, <1>7 DEF Totals

(* A call that a chunk serves is counted there once. *)
LEMMA ServedAdds ==
  ASSUME TypeOK, NEW r \in Requests, NEW a \in Allocators, mem_chunk[a] \in Chunks,
         AllocateSlab(r, a)
  PROVE  Balance(Tried, Routed, Chunks)' = Balance(Tried, Routed, Chunks) + 1 - 0
<1>1. PICK kind \in {"tail", "small", "full"} : CountServed(a, kind)
  BY DEF AllocateSlab, AllocTail, AllocSmall, AllocFull
<1>2. PICK kinds : /\ kinds = IF a[2] = "addl" THEN {kind, "routed_alloc"} ELSE {kind}
                   /\ Count(mem_chunk[a], kinds)
  BY <1>1 DEF CountServed
<1>3. /\ One("full" \in kinds) = One(kind = "full") /\ One("small" \in kinds) = One(kind = "small")
      /\ One("tail" \in kinds) = One(kind = "tail") /\ One("oom" \in kinds) = 0
      /\ One("routed" \in kinds) = 0
  BY <1>1, <1>2 DEF One
<1>4. One(kind = "full") + One(kind = "small") + One(kind = "tail") = 1
  BY <1>1 DEF One
<1>5. One(kind = "full") \in Nat /\ One(kind = "small") \in Nat /\ One(kind = "tail") \in Nat
  BY DEF One
<1>6. /\ 1 = One("full" \in kinds) + One("small" \in kinds) + One("tail" \in kinds) + One("oom" \in kinds)
      /\ 0 = One("routed" \in kinds)
  <2>1. PICK f, s, i : f = One(kind = "full") /\ s = One(kind = "small") /\ i = One(kind = "tail")
    OBVIOUS
  <2>2. f \in Nat /\ s \in Nat /\ i \in Nat /\ f + s + i = 1
    BY <1>4, <1>5, <2>1
  <2>3. f + s + i + 0 = 1
    BY <2>2
  <2> QED BY <1>3, <2>1, <2>3
<1>7. Count(mem_chunk[a], kinds)
  BY <1>2
<1> QED BY <1>6, <1>7, CountAdds

(* Nothing is counted and nobody comes in or goes out. *)
LEMMA TotalsKept ==
  ASSUME Totals, UNCHANGED <<stat, ttT_total>>, Inside' = Inside
  PROVE  Totals'
<1>1. Balance(Tried, Routed, Chunks)' = Balance(Tried, Routed, Chunks)
  BY DEF Balance, Pile, Row, Tried, Routed
<1> QED BY <1>1 DEF Totals

(* Nothing is counted, and the request neither comes in nor goes out. *)
LEMMA TotalsAside ==
  ASSUME TypeOK, Totals, UNCHANGED <<stat, ttT_total>>, NEW r \in Requests, NEW where, Goto(r, where),
         where \notin {"home", "route"}, pc[r] \notin {"home", "route"}
  PROVE  Totals'
<1>1. Inside' = Inside
  BY DEF Goto, Inside, TypeOK
<1> QED BY <1>1, TotalsKept

LEMMA TotalsStep == Typing /\ Totals /\ [Next]_vars => Totals'
<1> SUFFICES ASSUME TypeOK, Bound, Totals, [Next]_vars PROVE Totals'
  BY DEF Typing
<1> USE AllocatorFacts
<1>1. ASSUME NEW r \in Requests, MakeAllocator(r) PROVE Totals'
  <2>1. Goto(r, "idle") /\ UNCHANGED <<stat, ttT_total>> /\ pc[r] = "none"
    BY <1>1 DEF MakeAllocator, chunk_vars
  <2> QED BY <2>1, TotalsAside
<1>2. ASSUME NEW r \in Requests, NEW size \in Sizes, Allocate(r, size) PROVE Totals'
  <2>1. /\ Goto(r, "home") /\ UNCHANGED stat /\ pc[r] = "idle" /\ ttT_total' = ttT_total + 1
    BY <1>2 DEF Allocate, chunk_vars
  <2>2. /\ IsFiniteSet(Inside') /\ Cardinality(Inside) \in Nat
        /\ Cardinality(Inside') = Cardinality(Inside) + One("home" \in {"home", "route"})
                                     - One(pc[r] \in {"home", "route"})
    <3>1. Goto(r, "home")
      BY <2>1
    <3> QED BY <3>1, InsideAfter
  <2>3. Cardinality(Inside') = Cardinality(Inside) + 1
    BY <2>1, <2>2 DEF One
  <2>4. Balance(Tried, Routed, Chunks)' = Balance(Tried, Routed, Chunks)
    BY <2>1 DEF Balance, Pile, Row, Tried, Routed
  <2>5. Balance(Tried, Routed, Chunks) \in Int
    BY BalanceType
  <2> QED BY <2>1, <2>2, <2>3, <2>4, <2>5 DEF Totals
<1>3. ASSUME NEW r \in Requests, AllocateHome(r) PROVE Totals'
  <2>1. /\ Goto(r, "idle") /\ pc[r] = "home" /\ AllocateSlab(r, Home(r)) /\ ttT_total' = ttT_total
        /\ mem_chunk[Home(r)] \in Chunks /\ Home(r) \in Allocators
    BY <1>3 DEF AllocateHome, Bound
  <2>2. Balance(Tried, Routed, Chunks)' = Balance(Tried, Routed, Chunks) + 1 - 0
    BY <2>1, ServedAdds
  <2>3. 1 + One("idle" \in {"home", "route"}) = 0 + One(pc[r] \in {"home", "route"})
    BY <2>1 DEF One
  <2> QED BY <2>1, <2>2, <2>3, TotalsMove
<1>4. ASSUME NEW r \in Requests, AllocateReroute(r) PROVE Totals'
  <2>1. /\ Goto(r, "route") /\ pc[r] = "home" /\ ttT_total' = ttT_total
        /\ mem_chunk[Home(r)] \in Chunks /\ Count(mem_chunk[Home(r)], {"oom", "routed"})
    BY <1>4 DEF AllocateReroute, Bound
  <2>2. Balance(Tried, Routed, Chunks)' = Balance(Tried, Routed, Chunks) + 1 - 1
    <3>1. /\ 1 = One("full" \in {"oom", "routed"}) + One("small" \in {"oom", "routed"})
                   + One("tail" \in {"oom", "routed"}) + One("oom" \in {"oom", "routed"})
          /\ 1 = One("routed" \in {"oom", "routed"})
      BY DEF One
    <3> QED BY <2>1, <3>1, CountAdds
  <2>3. 1 + One("route" \in {"home", "route"}) = 1 + One(pc[r] \in {"home", "route"})
    BY <2>1 DEF One
  <2> QED BY <2>1, <2>2, <2>3, TotalsMove
<1>5. ASSUME NEW r \in Requests, AllocateSearch(r) PROVE Totals'
  <2>1. /\ Goto(r, "scan") /\ pc[r] = "home" /\ ttT_total' = ttT_total
        /\ mem_chunk[Home(r)] \in Chunks /\ Count(mem_chunk[Home(r)], {"oom"})
    BY <1>5 DEF AllocateSearch, Bound
  <2>2. Balance(Tried, Routed, Chunks)' = Balance(Tried, Routed, Chunks) + 1 - 0
    BY <2>1, OomAdds
  <2>3. 1 + One("scan" \in {"home", "route"}) = 0 + One(pc[r] \in {"home", "route"})
    BY <2>1 DEF One
  <2> QED BY <2>1, <2>2, <2>3, TotalsMove
<1>6. ASSUME NEW r \in Requests, ScanChunk(r) PROVE Totals'
  <2>1. UNCHANGED <<stat, ttT_total>> /\ Inside' = Inside
    BY <1>6 DEF ScanChunk, chunk_vars, Inside
  <2> QED BY <2>1, TotalsKept
<1>7. ASSUME NEW r \in Requests, TakeAdditional(r) PROVE Totals'
  <2>1. /\ Goto(r, "route") /\ pc[r] = "scan" /\ ttT_total' = ttT_total
        /\ mem_chunk[Home(r)] \in Chunks /\ Count(mem_chunk[Home(r)], {"routed"})
    BY <1>7 DEF TakeAdditional, Bound
  <2>2. Balance(Tried, Routed, Chunks)' = Balance(Tried, Routed, Chunks) + 0 - 1
    <3>1. /\ 0 = One("full" \in {"routed"}) + One("small" \in {"routed"})
                   + One("tail" \in {"routed"}) + One("oom" \in {"routed"})
          /\ 1 = One("routed" \in {"routed"})
      BY DEF One
    <3> QED BY <2>1, <3>1, CountAdds
  <2>3. 0 + One("route" \in {"home", "route"}) = 1 + One(pc[r] \in {"home", "route"})
    BY <2>1 DEF One
  <2> QED BY <2>1, <2>2, <2>3, TotalsMove
<1>8. ASSUME NEW r \in Requests, GiveUp(r) PROVE Totals'
  <2>1. Goto(r, "idle") /\ UNCHANGED <<stat, ttT_total>> /\ pc[r] = "scan"
    BY <1>8 DEF GiveUp, chunk_vars
  <2> QED BY <2>1, TotalsAside
<1>9. ASSUME NEW r \in Requests, AllocateRouted(r) PROVE Totals'
  <2>1. /\ Goto(r, "idle") /\ pc[r] = "route" /\ AllocateSlab(r, Addl(r)) /\ ttT_total' = ttT_total
        /\ mem_chunk[Addl(r)] \in Chunks /\ Addl(r) \in Allocators
    BY <1>9 DEF AllocateRouted, Bound
  <2>2. Balance(Tried, Routed, Chunks)' = Balance(Tried, Routed, Chunks) + 1 - 0
    BY <2>1, ServedAdds
  <2>3. 1 + One("idle" \in {"home", "route"}) = 0 + One(pc[r] \in {"home", "route"})
    BY <2>1 DEF One
  <2> QED BY <2>1, <2>2, <2>3, TotalsMove
<1>10. ASSUME NEW r \in Requests, RoutedToHeap(r) PROVE Totals'
  <2>1. /\ Goto(r, "idle") /\ pc[r] = "route" /\ ttT_total' = ttT_total
        /\ mem_chunk[Addl(r)] \in Chunks /\ Count(mem_chunk[Addl(r)], {"oom"})
    BY <1>10 DEF RoutedToHeap, Bound
  <2>2. Balance(Tried, Routed, Chunks)' = Balance(Tried, Routed, Chunks) + 1 - 0
    BY <2>1, OomAdds
  <2>3. 1 + One("idle" \in {"home", "route"}) = 0 + One(pc[r] \in {"home", "route"})
    BY <2>1 DEF One
  <2> QED BY <2>1, <2>2, <2>3, TotalsMove
<1>11. ASSUME NEW r \in Requests, Release(r) PROVE Totals'
  <2>1. PICK where \in {"none", "relHome"} : Goto(r, where)
    BY <1>11 DEF Release
  <2>2. UNCHANGED <<stat, ttT_total>> /\ pc[r] = "idle"
    BY <1>11 DEF Release, chunk_vars
  <2> QED BY <2>1, <2>2, TotalsAside
<1>12. ASSUME NEW r \in Requests, ReleaseHome(r) PROVE Totals'
  <2>1. PICK where \in {"none", "relAddl"} : Goto(r, where)
    BY <1>12 DEF ReleaseHome
  <2>2. UNCHANGED <<stat, ttT_total>> /\ pc[r] = "relHome"
    BY <1>12 DEF ReleaseHome
  <2> QED BY <2>1, <2>2, TotalsAside
<1>13. ASSUME NEW r \in Requests, ReleaseAddl(r) PROVE Totals'
  <2>1. Goto(r, "none") /\ UNCHANGED <<stat, ttT_total>> /\ pc[r] = "relAddl"
    BY <1>13 DEF ReleaseAddl
  <2> QED BY <2>1, TotalsAside
<1>14. CASE UNCHANGED vars
  <2>1. UNCHANGED <<stat, ttT_total>> /\ Inside' = Inside
    BY <1>14 DEF vars, chunk_vars, Inside
  <2> QED BY <2>1, TotalsKept
<1> QED
  BY <1>1, <1>2, <1>3, <1>4, <1>5, <1>6, <1>7, <1>8, <1>9, <1>10, <1>11, <1>12,
     <1>13, <1>14 DEF Next, Step

LEMMA TotalsStart == Init => Totals
<1> SUFFICES ASSUME Init PROVE Totals
  OBVIOUS
<1>1. TypeOK
  BY InitTyping DEF Typing
<1>2. Inside = {} /\ ttT_total = 0
  BY DEF Init, Inside
<1>3. \A c \in Chunks : \A n \in Nat : n \notin 1 .. Tried[c] /\ n \notin 1 .. Routed[c]
  BY DEF Init, Tried, Routed, StatKinds
<1>4. Pile(Tried, Chunks) = {} /\ Pile(Routed, Chunks) = {}
  BY <1>3 DEF Pile, Row
<1>5. Balance(Tried, Routed, Chunks) = 0
  BY <1>4, FS_EmptySet DEF Balance
<1> QED BY <1>2, <1>5, FS_EmptySet DEF Totals

LEMMA TotalsMeaning == TypeOK /\ Totals => TotalsAgree
<1> SUFFICES ASSUME TypeOK, Totals PROVE TotalsAgree
  OBVIOUS
<1>1. ItemsTotal = Balance(Tried, Routed, Chunks)
  BY ItemsAre
<1>2. Undecided = Cardinality(Inside)
  BY DEF Undecided, Inside
<1> QED BY <1>1, <1>2 DEF Totals, TotalsAgree

(* The totals of the status page: with the calls that are inside Allocate,  *)
(* the statistics of the chunks add up to the calls made.                   *)
THEOREM TotalsAlwaysAgree == Spec => []TotalsAgree
<1>1. Init => Typing /\ Totals
  BY InitTyping, TotalsStart
<1>2. Typing /\ Totals /\ [Next]_vars => (Typing /\ Totals)'
  BY TypingStep, TotalsStep
<1>3. Typing /\ Totals => TotalsAgree
  BY TotalsMeaning DEF Typing
<1> QED BY <1>1, <1>2, <1>3, PTL DEF Spec

=============================================================================
