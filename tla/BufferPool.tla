----------------------------- MODULE BufferPool -----------------------------
(***************************************************************************)
(* What the slab allocator promises to the request handlers: every buffer  *)
(* it hands out is a region of one memory chunk that no buffer still in    *)
(* use overlaps.  Nothing is said of slabs, locks, counters or routing;    *)
(* ByteSlabs is shown to implement this module.                            *)
(***************************************************************************)
EXTENDS Naturals

CONSTANTS Owners,     \* who may hold buffers
          Chunks,     \* the memory chunks
          ChunkBytes  \* bytes in a chunk

VARIABLES open,       \* owners that may receive buffers
          live        \* buffers handed out and not given back

vars == <<open, live>>

Buffers == [id: Nat, owner: Owners, chunk: Chunks, start: Nat, size: Nat]

Disjoint(a, b) == \/ a.chunk # b.chunk
                  \/ a.start + a.size <= b.start
                  \/ b.start + b.size <= a.start

-----------------------------------------------------------------------------
Init == open = {} /\ live = {}

Open(S) == /\ S \cap open = {}
           /\ open' = open \cup S
           /\ UNCHANGED live

(* A new buffer: inside its chunk, never a part of one that is in use.     *)
Grant == \E b \in live' :
           /\ b \in Buffers
           /\ b.owner \in open
           /\ b.start + b.size <= ChunkBytes
           /\ \A other \in live : b.id # other.id /\ Disjoint(b, other)
           /\ live' = live \cup {b}
           /\ UNCHANGED open

(* Giving back is wholesale: an owner returns everything it was granted.   *)
Close(S) == /\ S \subseteq open
            /\ open' = open \ S
            /\ live' = {b \in live : b.owner \notin S}

Next == \/ \E S \in SUBSET Owners : Open(S) \/ Close(S)
        \/ Grant

Spec == Init /\ [][Next]_vars
=============================================================================
