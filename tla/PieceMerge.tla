----------------------------- MODULE PieceMerge -----------------------------
(***************************************************************************)
(* The last part of a multipart compression (compress/engine.go, after the *)
(* pieces are drained) and the client's reading of it.  The workers have   *)
(* left piece i at the beginning of block i of the output buffer; the      *)
(* pieces are moved together behind the allocation table, lowest first and *)
(* in place, and the table is written.                                     *)
(*                                                                         *)
(* Lengths are in units of a table entry (4 bytes).  A unit of a piece is  *)
(* named by its piece and its place there.                                 *)
(***************************************************************************)
EXTENDS Integers, FiniteSetsExt

CONSTANTS BlockSize,  \* block_size() in units (15000 for flate)
          Lengths,    \* input lengths tried
          ChunkSizes  \* sizes a piece may compress to

(* In blocks of at least 14 units the table fits beside what the pieces may *)
(* take, 80 % of the input.                                                 *)
MergeAssumption ==
  /\ BlockSize \in Nat /\ BlockSize >= 14
  /\ \A l \in Lengths : l \in Nat /\ l >= BlockSize
  /\ ChunkSizes \subseteq Nat \ {0}

VARIABLES in_len, chunks, out, dst_pos, i, pc

vars == <<in_len, chunks, out, dst_pos, i, pc>>

Blank        == <<"blank", 0, 0>>
Unit(n, k)   == <<"data", n, k>>
Entry(size)  == <<"size", size, 0>>

TasksNo(len) == (len \div BlockSize) + (IF len % BlockSize > 0 THEN 1 ELSE 0)
tasks_no == TasksNo(in_len)

(* What a worker gets: the block, and as much room for its piece.           *)
BlockLen(len, n) ==
  IF (n + 1) * BlockSize <= len THEN BlockSize ELSE len - (n * BlockSize)

(* What a worker reports as a success.                                      *)
FitsBlock(len, n, size) ==
  /\ ~(size >= BlockLen(len, n) /\ size > BlockSize \div 3)
  /\ size <= BlockLen(len, n)

SumTo(c, n) == MapThenSumSet(LAMBDA k : c[k], 0 .. n - 1)

WorthIt(len, c) == 10 * SumTo(c, TasksNo(len)) <= 8 * len

(* Every piece is compressed and in its block. *)
Init ==
  /\ in_len \in Lengths
  /\ chunks \in [0 .. tasks_no - 1 -> ChunkSizes]
  /\ \A n \in 0 .. tasks_no - 1 : FitsBlock(in_len, n, chunks[n])
  /\ WorthIt(in_len, chunks)
  /\ out = [x \in 0 .. in_len - 1 |->
              LET n == x \div BlockSize
                  k == x % BlockSize IN
              IF k < chunks[n] THEN Unit(n, k) ELSE Blank]
  /\ dst_pos = tasks_no + 1
  /\ i = 0
  /\ pc = "merge"

(* Mutant: the pieces are put over the last entry of the table. *)
MergePieceShifted ==
  /\ pc = "merge"
  /\ i < tasks_no
  /\ out' = [x \in DOMAIN out |->
               IF x \in dst_pos - 1 .. dst_pos + chunks[i] - 2
               THEN out[(BlockSize * i) + (x - dst_pos + 1)] ELSE out[x]]
  /\ dst_pos' = dst_pos + chunks[i]
  /\ i' = i + 1
  /\ UNCHANGED <<in_len, chunks, pc>>

(* copy moves as if by way of a temporary. *)
MergePiece ==
  /\ pc = "merge"
  /\ i < tasks_no
  /\ out' = [x \in DOMAIN out |->
               IF x \in dst_pos .. dst_pos + chunks[i] - 1
               THEN out[(BlockSize * i) + (x - dst_pos)] ELSE out[x]]
  /\ dst_pos' = dst_pos + chunks[i]
  /\ i' = i + 1
  /\ UNCHANGED <<in_len, chunks, pc>>

(* One entry more than there are pieces: the last is the 0 that ends it.    *)
WriteTable ==
  /\ pc = "merge"
  /\ i = tasks_no
  /\ out' = [x \in DOMAIN out |->
               IF x < tasks_no THEN Entry(chunks[x])
               ELSE IF x = tasks_no THEN Entry(0) ELSE out[x]]
  /\ pc' = "merged"
  /\ UNCHANGED <<in_len, chunks, dst_pos, i>>

Next == MergePiece \/ WriteTable

Spec == Init /\ [][Next]_vars

-----------------------------------------------------------------------------
(* The client (_decompress_multipart): entries up to the first 0, then the  *)
(* pieces one behind the other.                                             *)
TableEnd == CHOOSE e \in DOMAIN out :
              out[e] = Entry(0) /\ \A x \in 0 .. e - 1 : out[x] # Entry(0)

Decoded(n) ==
  LET size  == [x \in 0 .. TableEnd - 1 |-> out[x][2]]
      start == TableEnd + 1 + SumTo(size, n) IN
  [k \in 0 .. size[n] - 1 |-> out[start + k]]

Sent(n) == [k \in 0 .. chunks[n] - 1 |-> Unit(n, k)]

Intact == \A n \in 0 .. tasks_no - 1 : Decoded(n) = Sent(n)

TypeOK ==
  /\ in_len \in Lengths
  /\ chunks \in [0 .. tasks_no - 1 -> ChunkSizes]
  /\ DOMAIN out = 0 .. in_len - 1
  /\ dst_pos \in 0 .. tasks_no + 1 + in_len
  /\ i \in 0 .. tasks_no
  /\ pc \in {"merge", "merged"}

(* The table and all pieces fit into a buffer as long as the input: the     *)
(* slice expressions of the merge never reach beyond its capacity.          *)
InBuffer == i < tasks_no => dst_pos + chunks[i] <= in_len

(* Where piece n lies until it is moved, and where it is moved to.          *)
Source(n) == BlockSize * n .. BlockSize * n + chunks[n] - 1
Target(n) == tasks_no + 1 + SumTo(chunks, n) .. tasks_no + SumTo(chunks, n + 1)

(* Merging in place is right when no piece is moved over a later one, which *)
(* still lies in its block, and only then.                                  *)
NoneCovered ==
  \A m \in 0 .. tasks_no - 1 : \A n \in 0 .. m - 1 : Target(n) \cap Source(m) = {}

IntactUnlessCovered == pc = "merged" => (Intact <=> NoneCovered)

(* engine.go: "merge the blocks together".  What the client reads from the  *)
(* merged buffer is what the workers made of each block.                    *)
MergedIntact == pc = "merged" => Intact

(* The merge stays in its buffer, and is right exactly if no piece is moved *)
(* over one that is still to be moved.                                      *)
PiecesMerged == InBuffer /\ IntactUnlessCovered
=============================================================================
