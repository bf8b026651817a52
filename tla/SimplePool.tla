----------------------------- MODULE SimplePool -----------------------------
(***************************************************************************)
(* CompressSimple (compress/simple.go): a stack of writers shared by all   *)
(* connections.  It is popped and pushed under a lock; when it is empty a  *)
(* writer is made, and stays.  How well the buffer was predicted is        *)
(* counted outside the lock.                                               *)
(***************************************************************************)
EXTENDS Integers, FiniteSets, Sequences

CONSTANTS Callers,         \* connections that compress
          max_compressors, \* writers made at the start (20)
          MaxCompressions  \* bound: calls of CompressSimple

SimpleAssumption == max_compressors \in Nat /\ MaxCompressions \in Nat

VARIABLES
  f_writers,     \* the stack, of writers by number
  created,       \* fw_stat_compressors_created
  reused,        \* fw_stat_compressors_reuse
  predictions,   \* fw_stat_underflows + fw_stat_overflows
  step, writer,  \* per caller: where it is, and the writer it has
  counter,       \* per caller: what it read of predictions
  finished, peak \* calls that are over, and most calls at a time

vars == <<f_writers, created, reused, predictions, step, writer, counter, finished, peak>>

Init ==
  /\ f_writers = [i \in 1 .. max_compressors |-> i]
  /\ created = 0 /\ reused = 0 /\ predictions = 0
  /\ step = [c \in Callers |-> "idle"]
  /\ writer = [c \in Callers |-> 0] /\ counter = [c \in Callers |-> 0]
  /\ finished = 0 /\ peak = 0

Busy == {c \in Callers : step[c] # "idle"}

(* Mutant: the writer stays on the stack while it is used. *)
PopKept(c) ==
  /\ step[c] = "idle" /\ created + reused < MaxCompressions
  /\ step' = [step EXCEPT ![c] = "compress"]
  /\ peak' = IF Cardinality(Busy) + 1 > peak THEN Cardinality(Busy) + 1 ELSE peak
  /\ IF f_writers # <<>>
     THEN /\ writer' = [writer EXCEPT ![c] = f_writers[Len(f_writers)]]
          /\ reused' = reused + 1
          /\ UNCHANGED <<f_writers, created>>
     ELSE /\ created' = created + 1
          /\ writer' = [writer EXCEPT ![c] = max_compressors + created']
          /\ UNCHANGED <<f_writers, reused>>
  /\ UNCHANGED <<predictions, counter, finished>>

Pop(c) ==
  /\ step[c] = "idle" /\ created + reused < MaxCompressions
  /\ step' = [step EXCEPT ![c] = "compress"]
  /\ peak' = IF Cardinality(Busy) + 1 > peak THEN Cardinality(Busy) + 1 ELSE peak
  /\ IF f_writers # <<>>
     THEN /\ writer' = [writer EXCEPT ![c] = f_writers[Len(f_writers)]]
          /\ f_writers' = SubSeq(f_writers, 1, Len(f_writers) - 1)
          /\ reused' = reused + 1
          /\ UNCHANGED created
     ELSE /\ created' = created + 1
          /\ writer' = [writer EXCEPT ![c] = max_compressors + created']
          /\ UNCHANGED <<f_writers, reused>>
  /\ UNCHANGED <<predictions, counter, finished>>

(* diff is counted with a read and a write of the counter.                  *)
ReadCounter(c) ==
  /\ step[c] = "compress"
  /\ counter' = [counter EXCEPT ![c] = predictions]
  /\ step' = [step EXCEPT ![c] = "count"]
  /\ UNCHANGED <<f_writers, created, reused, predictions, writer, finished, peak>>

WriteCounter(c) ==
  /\ step[c] = "count"
  /\ predictions' = counter[c] + 1
  /\ step' = [step EXCEPT ![c] = "push"]
  /\ UNCHANGED <<f_writers, created, reused, writer, counter, finished, peak>>

Push(c) ==
  /\ step[c] = "push"
  /\ f_writers' = Append(f_writers, writer[c])
  /\ writer' = [writer EXCEPT ![c] = 0]
  /\ counter' = [counter EXCEPT ![c] = 0]
  /\ step' = [step EXCEPT ![c] = "idle"]
  /\ finished' = finished + 1
  /\ UNCHANGED <<created, reused, predictions, peak>>

Next == \E c \in Callers : Pop(c) \/ ReadCounter(c) \/ WriteCounter(c) \/ Push(c)

Spec == Init /\ [][Next]_vars

-----------------------------------------------------------------------------
Writers == 1 .. max_compressors + MaxCompressions

TypeOK ==
  /\ f_writers \in Seq(Writers)
  /\ created \in Nat /\ reused \in Nat /\ predictions \in Nat
  /\ step \in [Callers -> {"idle", "compress", "count", "push"}]
  /\ writer \in [Callers -> Writers \cup {0}] /\ counter \in [Callers -> Nat]

(* A writer compresses for one caller at a time, and is not on the stack    *)
(* then, or twice.                                                          *)
OneUser ==
  /\ \A c, d \in Busy : writer[c] = writer[d] => c = d
  /\ \A i \in DOMAIN f_writers : /\ \A c \in Busy : f_writers[i] # writer[c]
                                 /\ \A j \in DOMAIN f_writers : f_writers[i] = f_writers[j] => i = j

(* "Compressors fully re-allocated" (CompressSimpleStatus): a writer is     *)
(* made only when more callers compress at a time than ever before, and no  *)
(* writer is lost: there are as many as the most callers needed.            *)
WritersMatchPeak ==
  /\ created = IF peak > max_compressors THEN peak - max_compressors ELSE 0
  /\ Len(f_writers) + Cardinality(Busy) = max_compressors + created

(* The predictions on the status page are never more than the compressions  *)
(* that were made; each of those that overlapped may be missing, no others. *)
PredictionsBounded ==
  /\ predictions <= finished + Cardinality({c \in Busy : step[c] = "push"})
  /\ peak <= 1 => predictions = finished + Cardinality({c \in Busy : step[c] = "push"})

(* The stack never has a writer in use or twice, never loses one, and the   *)
(* counters of the page are off only by the updates that overlapped.        *)
WritersExact == OneUser /\ WritersMatchPeak /\ PredictionsBounded
=============================================================================
