------------------------------ MODULE ByteSlabs ------------------------------
(***************************************************************************)
(* The slab allocator (byteslabs2; byteslabs is the same code with fixed   *)
(* sizes).  Memory is a few chunks of equally sized slabs.  Every request  *)
(* owns one allocator, bound to a chunk round robin, that takes whole      *)
(* slabs, packs small buffers into the tails of the slabs it holds, and    *)
(* frees all of them at once.  When its chunk cannot serve a call it gets  *)
(* an additional allocator on the chunk that looks least used, and when    *)
(* that fails too the buffer comes from the Go heap.                       *)
(*                                                                         *)
(* A chunk's mutex covers everything in the chunk; used_slab_count is also *)
(* read without it.  A critical section that ends before anybody else can  *)
(* see its middle is one action; the search for an additional chunk, which *)
(* reads the other chunks' counters one by one, is a step per chunk.       *)
(***************************************************************************)
EXTENDS Integers, FiniteSets

CONSTANTS Requests,      \* requests served at the same time
          ChunkCount,    \* mem_chunks_count (8 in the server)
          SlabCount,     \* conf_slab_count (100)
          SlabSize,      \* conf_slab_size (40000)
          SmallSize,     \* calls of at most this size use the heap (96)
          RouteReserve,  \* slabs asked of an additional chunk beyond size / slab_size (5)
          Sizes,         \* sizes asked for
          MaxCalls,      \* bound: calls of Allocate in a behaviour
          NoOne, NoChunk

ASSUME SlabAssumption ==
  /\ ChunkCount \in Nat \ {0}
  /\ SlabCount \in Nat \ {0}
  /\ SlabSize \in Nat \ {0}
  /\ SmallSize \in Nat
  /\ RouteReserve \in Nat
  /\ Sizes \subseteq Nat
  /\ MaxCalls \in Nat
  /\ NoOne \notin Requests
  /\ NoChunk \notin Nat

Chunks == 0 .. ChunkCount - 1
Slabs  == 0 .. SlabCount - 1

(* A request's own allocator and its addl_allocator. *)
Allocators == Requests \X {"home", "addl"}
Home(r) == <<r, "home">>
Addl(r) == <<r, "addl">>

VARIABLES
  curr_mem_chunk,   \* round robin position (modulo ChunkCount)
  slab_used,        \* per chunk, the slabs marked in its bitmap
  used_slab_count,  \* per chunk, the counter read without the lock
  stat,             \* per chunk, its statistics
  mu,               \* per chunk, who holds the mutex between two steps
  mem_chunk,        \* per allocator, the chunk it is bound to
  held,             \* per allocator, the slabs in its slab_used list
  slab_free_space,  \* per allocator and slab held, bytes left at the tail
  pc, call, scan,   \* per request: where it is, its call, its search
  ttT_total,        \* calls of Allocate counted so far
  live              \* slab buffers the handlers still use

chunk_vars == <<slab_used, used_slab_count, stat>>
alloc_vars == <<held, slab_free_space, live>>
vars == <<curr_mem_chunk, chunk_vars, mu, mem_chunk, alloc_vars, pc, call,
          scan, ttT_total>>

StatKinds == {"full", "small", "tail", "oom", "routed", "routed_alloc"}
NoScan == [pos |-> 0, best |-> NoChunk, free |-> -1]

Init ==
  /\ curr_mem_chunk = 0
  /\ slab_used = [c \in Chunks |-> {}]
  /\ used_slab_count = [c \in Chunks |-> 0]
  /\ stat = [c \in Chunks |-> [k \in StatKinds |-> 0]]
  /\ mu = [c \in Chunks |-> NoOne]
  /\ mem_chunk = [a \in Allocators |-> NoChunk]
  /\ held = [a \in Allocators |-> {}]
  /\ slab_free_space = [a \in Allocators |-> [s \in Slabs |-> 0]]
  /\ pc = [r \in Requests |-> "none"]
  /\ call = [r \in Requests |-> [id |-> 0, size |-> 0]]
  /\ scan = [r \in Requests |-> NoScan]
  /\ ttT_total = 0
  /\ live = {}

-----------------------------------------------------------------------------
(* Sizes in slabs, and where a chunk has room. *)

SlabFree(size) == (SlabSize - (size % SlabSize)) % SlabSize
SlabsNeeded(size) == (size \div SlabSize) + (IF SlabFree(size) > 0 THEN 1 ELSE 0)
Base(s) == s * SlabSize

(* The counter decides before anything else is looked at, the tails of the *)
(* slabs already held included.                                            *)
HasRoom(c, size) == SlabsNeeded(size) <= SlabCount - used_slab_count[c]

(* Mutant: any tail with something left is taken for a fit. *)
TailFitsAny(a, size) == {s \in held[a] : slab_free_space[a][s] > 0}

TailFits(a, size) == {s \in held[a] : slab_free_space[a][s] >= size}

(* Best fit; of equally good tails the code takes the one held longest,    *)
(* here any of them.                                                       *)
BestTails(a, size) ==
  {s \in TailFits(a, size) :
     \A t \in TailFits(a, size) : slab_free_space[a][s] <= slab_free_space[a][t]}

Run(p, n) == p .. p + n - 1
(* Mutant: the count of free slabs is not reset at a slab in use. *)
FreeRunsUnbroken(c, n) ==
  {p \in Slabs : /\ p + n <= SlabCount
                 /\ p + n - 1 \notin slab_used[c]
                 /\ Cardinality((0 .. p + n - 1) \ slab_used[c]) = n}

FreeRuns(c, n) == {p \in Slabs : p + n <= SlabCount /\ Run(p, n) \cap slab_used[c] = {}}

Lock(c) == mu[c] = NoOne

Count(c, kinds) ==
  stat' = [stat EXCEPT ![c] = [k \in StatKinds |-> @[k] + (IF k \in kinds THEN 1 ELSE 0)]]

CountServed(a, kind) ==
  Count(mem_chunk[a], IF a[2] = "addl" THEN {kind, "routed_alloc"} ELSE {kind})

HandOut(r, a, start) ==
  live' = live \cup {[id |-> call[r].id, owner |-> a, chunk |-> mem_chunk[a],
                      start |-> start, size |-> call[r].size]}

-----------------------------------------------------------------------------
(* allocate_slab, under the lock of the allocator's chunk. *)

(* Mutant: the space taken from a tail is not subtracted. *)
AllocTailKept(r, a) ==
  LET size == call[r].size IN
  /\ HasRoom(mem_chunk[a], size)
  /\ SlabsNeeded(size) <= 1
  /\ \E s \in BestTails(a, size) :
       HandOut(r, a, Base(s) + (SlabSize - slab_free_space[a][s]))
  /\ CountServed(a, "tail")
  /\ UNCHANGED <<slab_used, used_slab_count, held, slab_free_space>>

(* A tail of a slab already held. *)
AllocTail(r, a) ==
  LET size == call[r].size IN
  /\ HasRoom(mem_chunk[a], size)
  /\ SlabsNeeded(size) <= 1
  /\ \E s \in BestTails(a, size) :
       /\ HandOut(r, a, Base(s) + (SlabSize - slab_free_space[a][s]))
       /\ slab_free_space' = [slab_free_space EXCEPT ![a][s] = @ - size]
  /\ CountServed(a, "tail")
  /\ UNCHANGED <<slab_used, used_slab_count, held>>

(* _alloc: n fresh slabs from p on; the last one keeps its tail. *)
TakeRun(r, a, p, n) ==
  LET c == mem_chunk[a] IN
  /\ slab_used' = [slab_used EXCEPT ![c] = @ \cup Run(p, n)]
  /\ used_slab_count' = [used_slab_count EXCEPT ![c] = @ + n]
  /\ held' = [held EXCEPT ![a] = @ \cup Run(p, n)]
  /\ slab_free_space' =
       [slab_free_space EXCEPT ![a] =
          [s \in Slabs |-> IF s = p + n - 1 THEN SlabFree(call[r].size)
                           ELSE IF s \in Run(p, n) THEN 0 ELSE @[s]]]
  /\ HandOut(r, a, Base(p))

(* One slab, from the end of the chunk. *)
AllocSmall(r, a) ==
  LET c == mem_chunk[a]
      n == SlabsNeeded(call[r].size) IN
  /\ HasRoom(c, call[r].size)
  /\ n <= 1
  /\ TailFits(a, call[r].size) = {}
  /\ \E p \in Slabs \ slab_used[c] :
       /\ \A q \in Slabs \ slab_used[c] : q <= p
       /\ TakeRun(r, a, p, n)
  /\ CountServed(a, "small")

(* Adjacent slabs, from the beginning of the chunk. *)
AllocFull(r, a) ==
  LET c == mem_chunk[a]
      n == SlabsNeeded(call[r].size) IN
  /\ HasRoom(c, call[r].size)
  /\ n > 1
  /\ \E p \in FreeRuns(c, n) :
       /\ \A q \in FreeRuns(c, n) : p <= q
       /\ TakeRun(r, a, p, n)
  /\ CountServed(a, "full")

AllocateSlab(r, a) == AllocTail(r, a) \/ AllocSmall(r, a) \/ AllocFull(r, a)

(* allocate_slab returns nil. *)
Exhausted(a, size) ==
  LET n == SlabsNeeded(size) IN
  \/ ~HasRoom(mem_chunk[a], size)
  \/ n <= 1 /\ TailFits(a, size) = {} /\ slab_used[mem_chunk[a]] = Slabs
  \/ n > 1 /\ FreeRuns(mem_chunk[a], n) = {}

-----------------------------------------------------------------------------
(* The operations, as their callers see them. *)

Goto(r, where) == pc' = [pc EXCEPT ![r] = where]

MakeAllocator(r) ==
  /\ pc[r] = "none"
  /\ curr_mem_chunk' = (curr_mem_chunk + 1) % ChunkCount
  /\ mem_chunk' = [mem_chunk EXCEPT ![Home(r)] = curr_mem_chunk']
  /\ Goto(r, "idle")
  /\ UNCHANGED <<chunk_vars, mu, alloc_vars, call, scan, ttT_total>>

(* Up to the lock.  A small call returns heap memory and changes nothing. *)
Allocate(r, size) ==
  /\ pc[r] = "idle"
  /\ size > SmallSize
  /\ ttT_total < MaxCalls
  /\ ttT_total' = ttT_total + 1
  /\ call' = [call EXCEPT ![r] = [id |-> ttT_total', size |-> size]]
  /\ Goto(r, "home")
  /\ UNCHANGED <<curr_mem_chunk, chunk_vars, mu, mem_chunk, alloc_vars, scan>>

(* Its own chunk serves the call. *)
AllocateHome(r) ==
  /\ pc[r] = "home"
  /\ Lock(mem_chunk[Home(r)])
  /\ AllocateSlab(r, Home(r))
  /\ Goto(r, "idle")
  /\ UNCHANGED <<curr_mem_chunk, mu, mem_chunk, call, scan, ttT_total>>

(* Mutant: routing over an existing additional allocator is not counted. *)
AllocateRerouteUncounted(r) ==
  /\ pc[r] = "home"
  /\ Lock(mem_chunk[Home(r)])
  /\ Exhausted(Home(r), call[r].size)
  /\ mem_chunk[Addl(r)] # NoChunk
  /\ Count(mem_chunk[Home(r)], {"oom"})
  /\ Goto(r, "route")
  /\ UNCHANGED <<curr_mem_chunk, slab_used, used_slab_count, mu, mem_chunk,
                 alloc_vars, call, scan, ttT_total>>

(* Its own chunk cannot, and there is an additional allocator already. *)
AllocateReroute(r) ==
  /\ pc[r] = "home"
  /\ Lock(mem_chunk[Home(r)])
  /\ Exhausted(Home(r), call[r].size)
  /\ mem_chunk[Addl(r)] # NoChunk
  /\ Count(mem_chunk[Home(r)], {"oom", "routed"})
  /\ Goto(r, "route")
  /\ UNCHANGED <<curr_mem_chunk, slab_used, used_slab_count, mu, mem_chunk,
                 alloc_vars, call, scan, ttT_total>>

(* Its own chunk cannot: search for an additional one, keeping the lock. *)
AllocateSearch(r) ==
  LET c == mem_chunk[Home(r)] IN
  /\ pc[r] = "home"
  /\ Lock(c)
  /\ Exhausted(Home(r), call[r].size)
  /\ mem_chunk[Addl(r)] = NoChunk
  /\ Count(c, {"oom"})
  /\ mu' = [mu EXCEPT ![c] = r]
  /\ Goto(r, "scan")
  /\ UNCHANGED <<curr_mem_chunk, slab_used, used_slab_count, mem_chunk,
                 alloc_vars, call, scan, ttT_total>>

(* One round of the loop of _take_additional: another chunk's counter, read *)
(* without that chunk's lock.                                               *)
ScanChunk(r) ==
  LET c    == scan[r].pos
      free == SlabCount - used_slab_count[c]
      need == (call[r].size \div SlabSize) + RouteReserve
      better == c # mem_chunk[Home(r)] /\ free >= need /\ free > scan[r].free IN
  /\ pc[r] = "scan"
  /\ c < ChunkCount
  /\ scan' = [scan EXCEPT ![r] =
       IF better THEN [pos |-> c + 1, best |-> c, free |-> free]
                 ELSE [@ EXCEPT !.pos = c + 1]]
  /\ UNCHANGED <<curr_mem_chunk, chunk_vars, mu, mem_chunk, alloc_vars, pc,
                 call, ttT_total>>

(* A chunk was found: bind the additional allocator to it and unlock. *)
TakeAdditional(r) ==
  /\ pc[r] = "scan"
  /\ scan[r].pos = ChunkCount
  /\ scan[r].best # NoChunk
  /\ mem_chunk' = [mem_chunk EXCEPT ![Addl(r)] = scan[r].best]
  /\ Count(mem_chunk[Home(r)], {"routed"})
  /\ mu' = [mu EXCEPT ![mem_chunk[Home(r)]] = NoOne]
  /\ scan' = [scan EXCEPT ![r] = NoScan]
  /\ Goto(r, "route")
  /\ UNCHANGED <<curr_mem_chunk, slab_used, used_slab_count, alloc_vars, call,
                 ttT_total>>

(* Mutant: returning nil from the search leaves the chunk locked. *)
GiveUpLocked(r) ==
  /\ pc[r] = "scan"
  /\ scan[r].pos = ChunkCount
  /\ scan[r].best = NoChunk
  /\ scan' = [scan EXCEPT ![r] = NoScan]
  /\ Goto(r, "idle")
  /\ UNCHANGED <<curr_mem_chunk, chunk_vars, mu, mem_chunk, alloc_vars, call,
                 ttT_total>>

(* None has room: unlock, the buffer comes from the heap. *)
GiveUp(r) ==
  /\ pc[r] = "scan"
  /\ scan[r].pos = ChunkCount
  /\ scan[r].best = NoChunk
  /\ mu' = [mu EXCEPT ![mem_chunk[Home(r)]] = NoOne]
  /\ scan' = [scan EXCEPT ![r] = NoScan]
  /\ Goto(r, "idle")
  /\ UNCHANGED <<curr_mem_chunk, chunk_vars, mem_chunk, alloc_vars, call,
                 ttT_total>>

(* The additional chunk, under its own lock, serves the call ... *)
AllocateRouted(r) ==
  /\ pc[r] = "route"
  /\ Lock(mem_chunk[Addl(r)])
  /\ AllocateSlab(r, Addl(r))
  /\ Goto(r, "idle")
  /\ UNCHANGED <<curr_mem_chunk, mu, mem_chunk, call, scan, ttT_total>>

(* ... or is full by now, and the buffer comes from the heap. *)
RoutedToHeap(r) ==
  /\ pc[r] = "route"
  /\ Lock(mem_chunk[Addl(r)])
  /\ Exhausted(Addl(r), call[r].size)
  /\ Count(mem_chunk[Addl(r)], {"oom"})
  /\ Goto(r, "idle")
  /\ UNCHANGED <<curr_mem_chunk, slab_used, used_slab_count, mu, mem_chunk,
                 alloc_vars, call, scan, ttT_total>>

-----------------------------------------------------------------------------
(* Mutant: an allocator with no slab of its own returns early, whatever its *)
(* additional allocator holds.                                              *)
ReleaseEarly(r) ==
  /\ pc[r] = "idle"
  /\ live' = {b \in live : b.owner[1] # r}
  /\ Goto(r, IF held[Home(r)] = {} THEN "none" ELSE "relHome")
  /\ UNCHANGED <<curr_mem_chunk, chunk_vars, mu, mem_chunk, held,
                 slab_free_space, call, scan, ttT_total>>

(* Release.  The caller is done with all its buffers when it calls; the     *)
(* slabs become free in two critical sections, one per allocator.           *)
Release(r) ==
  /\ pc[r] = "idle"
  /\ live' = {b \in live : b.owner[1] # r}
  /\ Goto(r, IF held[Home(r)] = {} /\ mem_chunk[Addl(r)] = NoChunk
             THEN "none" ELSE "relHome")
  /\ UNCHANGED <<curr_mem_chunk, chunk_vars, mu, mem_chunk, held,
                 slab_free_space, call, scan, ttT_total>>

FreeSlabsOf(a) ==
  LET c == mem_chunk[a] IN
  /\ slab_used' = [slab_used EXCEPT ![c] = @ \ held[a]]
  /\ used_slab_count' = [used_slab_count EXCEPT ![c] = @ - Cardinality(held[a])]
  /\ held' = [held EXCEPT ![a] = {}]
  /\ slab_free_space' = [slab_free_space EXCEPT ![a] = [s \in Slabs |-> 0]]

ReleaseHome(r) ==
  /\ pc[r] = "relHome"
  /\ Lock(mem_chunk[Home(r)])
  /\ FreeSlabsOf(Home(r))
  /\ Goto(r, IF mem_chunk[Addl(r)] = NoChunk THEN "none" ELSE "relAddl")
  /\ UNCHANGED <<curr_mem_chunk, stat, mu, mem_chunk, live, call, scan, ttT_total>>

(* An additional allocator that never got a slab is dropped without locking. *)
ReleaseAddl(r) ==
  /\ pc[r] = "relAddl"
  /\ \/ /\ held[Addl(r)] = {}
        /\ UNCHANGED <<slab_used, used_slab_count, held, slab_free_space>>
     \/ /\ held[Addl(r)] # {}
        /\ Lock(mem_chunk[Addl(r)])
        /\ FreeSlabsOf(Addl(r))
  /\ mem_chunk' = [mem_chunk EXCEPT ![Addl(r)] = NoChunk]
  /\ Goto(r, "none")
  /\ UNCHANGED <<curr_mem_chunk, stat, mu, live, call, scan, ttT_total>>

Step(r) == \/ AllocateHome(r) \/ AllocateReroute(r) \/ AllocateSearch(r)
           \/ ScanChunk(r) \/ TakeAdditional(r) \/ GiveUp(r)
           \/ AllocateRouted(r) \/ RoutedToHeap(r)
           \/ ReleaseHome(r) \/ ReleaseAddl(r)

Next == \E r \in Requests :
          \/ MakeAllocator(r)
          \/ \E size \in Sizes : Allocate(r, size)
          \/ Release(r)
          \/ Step(r)

Spec == Init /\ [][Next]_vars

(* A goroutine in Allocate or Release keeps running.  Go's mutex hands the  *)
(* lock to a waiter that has starved for a millisecond, so a step that      *)
(* waits for a lock which is free again and again is taken: strong          *)
(* fairness.  Nothing obliges a handler to call Allocate or Release.        *)
Fairness == \A r \in Requests : SF_vars(Step(r))
FairSpec == Spec /\ Fairness

-----------------------------------------------------------------------------
Serving == {"idle", "home", "scan", "route"}

TypeOK ==
  /\ curr_mem_chunk \in Chunks
  /\ slab_used \in [Chunks -> SUBSET Slabs]
  /\ used_slab_count \in [Chunks -> Int]
  /\ stat \in [Chunks -> [StatKinds -> Nat]]
  /\ mu \in [Chunks -> Requests \cup {NoOne}]
  /\ mem_chunk \in [Allocators -> Chunks \cup {NoChunk}]
  /\ held \in [Allocators -> SUBSET Slabs]
  /\ slab_free_space \in [Allocators -> [Slabs -> 0 .. SlabSize]]
  /\ pc \in [Requests -> Serving \cup {"none", "relHome", "relAddl"}]
  /\ call \in [Requests -> [id : Nat, size : Nat]]
  /\ scan \in [Requests -> [pos : 0 .. ChunkCount, best : Chunks \cup {NoChunk}, free : Int]]
  /\ ttT_total \in Nat
  /\ live \subseteq [id : Nat, owner : Allocators, chunk : Chunks, start : Nat, size : Nat]

Disjoint(a, b) == \/ a.chunk # b.chunk
                  \/ a.start + a.size <= b.start
                  \/ b.start + b.size <= a.start

(* No two buffers in use share a byte, whoever holds them and whichever way *)
(* they were allocated (tail, single slab, run, routed), and none leaves    *)
(* its chunk.                                                               *)
NoOverlap ==
  /\ \A a, b \in live : a.id # b.id => Disjoint(a, b)
  /\ \A b \in live : b.start + b.size <= SlabCount * SlabSize

(* Every slab a buffer in use lies on is held by the buffer's allocator,    *)
(* and the free tail of such a slab begins after the buffer: what a later   *)
(* tail allocation, or another request, may take is never in use.           *)
Touches(b, s) == b.start < Base(s) + SlabSize /\ Base(s) < b.start + b.size
BuffersInSlabs ==
  \A b \in live :
    /\ mem_chunk[b.owner] = b.chunk
    /\ \A s \in Slabs : Touches(b, s) =>
         /\ s \in held[b.owner]
         /\ slab_free_space[b.owner][s] > 0 =>
              b.start + b.size <= Base(s) + SlabSize - slab_free_space[b.owner][s]

(* The bitmap of a chunk marks exactly the slabs that some allocator bound  *)
(* to the chunk holds, and no slab has two holders: nothing leaks when a    *)
(* request is released in two steps, and nothing is freed twice.            *)
SlabsAccounted ==
  \A c \in Chunks :
    LET bound == {a \in Allocators : mem_chunk[a] = c} IN
    /\ slab_used[c] = UNION {held[a] : a \in bound}
    /\ \A a, b \in bound : a # b => held[a] \cap held[b] = {}

(* The counter other requests read without the lock, and by which a call is *)
(* refused before the bitmap is looked at, agrees with the bitmap.          *)
CountMatches == \A c \in Chunks : used_slab_count[c] = Cardinality(slab_used[c])

(* Once no request holds an allocator, every slab is free again. *)
AllReturned ==
  (\A r \in Requests : pc[r] = "none") =>
    \A c \in Chunks : slab_used[c] = {} /\ used_slab_count[c] = 0

(* Memory safety: disjoint buffers, on slabs of their own allocator and out *)
(* of the way of its free tails.                                            *)
MemorySafe == NoOverlap /\ BuffersInSlabs

(* The books of a chunk: bitmap, counter and what the allocators hold say   *)
(* the same in every state, and all of it comes back.                       *)
SlabsExact == SlabsAccounted /\ CountMatches /\ AllReturned

(* Release works on a private copy of addl_allocator and Allocate binds a   *)
(* new one only when there is none: no step loses one that holds slabs.     *)
AddlNeverLost ==
  [][\A r \in Requests :
       mem_chunk[Addl(r)] # NoChunk /\ mem_chunk'[Addl(r)] # mem_chunk[Addl(r)]
         => held'[Addl(r)] = {} /\ pc[r] = "relAddl"]_vars

(* The abstract pool: an allocator is open from its creation to its release. *)
Pool == INSTANCE BufferPool WITH
          Owners     <- Allocators,
          ChunkBytes <- SlabCount * SlabSize,
          open       <- {a \in Allocators : pc[a[1]] \in Serving}

ImplementsPool == Pool!Spec

(* Every call of Allocate and of Release returns, however the requests      *)
(* contend for the chunks.                                                  *)
CallsReturn == \A r \in Requests : pc[r] \notin {"none", "idle"} ~> pc[r] \in {"none", "idle"}
=============================================================================
