---------------------------- MODULE UpkeepProofs ----------------------------
(***************************************************************************)
(* Proofs about the parts of Upkeep: the stack of writers, loading the     *)
(* configuration and merging it, requests over HTTP, the last seconds of   *)
(* the status page and the statistics of the compressor, for every value   *)
(* of their constants.  Each part has an invariant of its own.             *)
(***************************************************************************)
EXTENDS Upkeep, FiniteSetTheorems, SequenceTheorems, WellFoundedInduction, TLAPS

LEMMA SeqFacts ==
  ASSUME NEW E, NEW q \in Seq(E)
  PROVE  /\ Len(q) \in Nat /\ DOMAIN q = 1 .. Len(q)
         /\ \A i \in 1 .. Len(q) : q[i] \in E
         /\ q # <<>> <=> Len(q) # 0
<1>1. Len(q) \in Nat /\ DOMAIN q = 1 .. Len(q)
  BY LenProperties
<1>2. q # <<>> <=> Len(q) # 0
  BY EmptySeq
<1> QED BY <1>1, <1>2, ElementOfSeq

LEMMA AppendFacts ==
  ASSUME NEW E, NEW q \in Seq(E), NEW e \in E
  PROVE  /\ Append(q, e) \in Seq(E) /\ Len(Append(q, e)) = Len(q) + 1
         /\ \A i \in 1 .. Len(q) : Append(q, e)[i] = q[i]
         /\ Append(q, e)[Len(q) + 1] = e
BY AppendProperties

(* The stack without its top. *)
LEMMA FrontFacts ==
  ASSUME NEW E, NEW q \in Seq(E), q # <<>>
  PROVE  /\ SubSeq(q, 1, Len(q) - 1) \in Seq(E) /\ Len(SubSeq(q, 1, Len(q) - 1)) = Len(q) - 1
         /\ \A i \in 1 .. Len(q) - 1 : SubSeq(q, 1, Len(q) - 1)[i] = q[i]
         /\ q[Len(q)] \in E
<1>1. Len(q) \in Nat /\ Len(q) # 0
  BY SeqFacts
<1>2. \A i \in 1 .. Len(q) - 1 : q[i] \in E
  <2>1. \A i \in 1 .. Len(q) - 1 : i \in 1 .. Len(q)
    BY <1>1
  <2> QED BY <2>1, SeqFacts
<1>3. 1 \in Int /\ Len(q) - 1 \in Int
  BY <1>1
<1>4. /\ SubSeq(q, 1, Len(q) - 1) \in Seq(E)
      /\ Len(SubSeq(q, 1, Len(q) - 1)) = IF 1 <= Len(q) - 1 THEN (Len(q) - 1) - 1 + 1 ELSE 0
      /\ \A i \in 1 .. (Len(q) - 1) - 1 + 1 : SubSeq(q, 1, Len(q) - 1)[i] = q[1 + i - 1]
  BY <1>2, <1>3, SubSeqProperties
<1>5. (Len(q) - 1) - 1 + 1 = Len(q) - 1 /\ \A i \in 1 .. Len(q) - 1 : 1 + i - 1 = i
  BY <1>1
<1>6. Len(q) \in 1 .. Len(q)
  BY <1>1
<1> QED BY <1>1, <1>4, <1>5, <1>6, SeqFacts

LEMMA NatMinimum ==
  ASSUME NEW T, T \subseteq Nat, T # {}
  PROVE  \E m \in T : \A n \in T : m <= n
<1>1. PICK m \in T : \A n \in T : ~(<<n, m>> \in OpToRel(<, Nat))
  BY NatLessThanWellFounded, WFMin, Zenon
<1>2. \A n \in T : ~(n < m)
  BY <1>1 DEF OpToRel
<1> QED BY <1>2

(* A set of numbers that are not larger than n has a largest one. *)
LEMMA Largest ==
  ASSUME NEW n \in Nat, NEW T, T \subseteq 1 .. n, T # {}
  PROVE  \E m \in T : \A k \in T : k <= m
<1> DEFINE D == {n - k : k \in T}
<1>1. D \subseteq Nat /\ D # {}
  <2>1. ASSUME NEW k \in T PROVE n - k \in Nat
    <3>1. k \in 1 .. n
      OBVIOUS
    <3> QED BY <3>1
  <2> QED BY <2>1
<1>2. PICK d \in D : \A e \in D : d <= e
  BY <1>1, NatMinimum
<1>3. PICK m \in T : d = n - m
  BY <1>2
<1>4. ASSUME NEW k \in T PROVE k <= m
  <2>1. n - m <= n - k
    BY <1>2, <1>3
  <2> QED BY <2>1
<1> QED BY <1>4

-----------------------------------------------------------------------------
(* SimplePool: the stack of writers. *)

Steps == {"idle", "compress", "count", "push"}
Busy == Pool!Busy
Pushing == {c \in Busy : step[c] = "push"}

(* No number above n, on the stack or in use. *)
Below(q, w, b, n) ==
  /\ \A i \in 1 .. Len(q) : q[i] <= n
  /\ \A c \in b : w[c] # 0 /\ w[c] <= n

(* Writers are numbered as they are made.  What a caller has read of the    *)
(* predictions is not more than the compressions that were made.            *)
PoolInv ==
  /\ Pool!TypeOK
  /\ created + reused <= MaxCompressions
  /\ finished \in Nat /\ peak \in Nat
  /\ IsFiniteSet(Busy) /\ Cardinality(Busy) <= peak
  /\ Below(f_writers, writer, Busy, max_compressors + created)
  /\ \A c \in Busy : step[c] = "count" =>
       /\ counter[c] <= finished + Cardinality(Pushing)
       /\ peak <= 1 => counter[c] = predictions
  /\ Pool!OneUser /\ Pool!WritersMatchPeak /\ Pool!PredictionsBounded

LEMMA PoolConstants == max_compressors \in Nat /\ MaxCompressions \in Nat
BY PartsAssumption DEF Pool!SimpleAssumption

LEMMA PoolTypes ==
  ASSUME PoolInv
  PROVE  /\ f_writers \in Seq(Pool!Writers) /\ created \in Nat /\ reused \in Nat
         /\ predictions \in Nat /\ finished \in Nat /\ peak \in Nat
         /\ step \in [Callers -> Steps]
         /\ writer \in [Callers -> Pool!Writers \cup {0}] /\ counter \in [Callers -> Nat]
         /\ IsFiniteSet(Busy) /\ Cardinality(Busy) \in Nat
         /\ IsFiniteSet(Pushing) /\ Cardinality(Pushing) \in Nat
         /\ Busy \subseteq Callers
<1>1. IsFiniteSet(Busy) /\ Busy \subseteq Callers
  BY DEF PoolInv, Busy, Pool!Busy
<1>2. Pushing \subseteq Busy
  BY DEF Pushing
<1>3. IsFiniteSet(Pushing)
  BY <1>1, <1>2, FS_Subset
<1>4. Cardinality(Busy) \in Nat /\ Cardinality(Pushing) \in Nat
  BY <1>1, <1>3, FS_CardinalityType
<1> QED BY <1>1, <1>3, <1>4 DEF PoolInv, Pool!TypeOK, Steps

(* What SimplePool has of FiniteSets is what is known here.                 *)
LEMMA PoolCounts == \A X : Pool!Cardinality(X) = Cardinality(X)
BY DEF Pool!Cardinality, Cardinality

Moves(c, to) == step' = [step EXCEPT ![c] = to]

LEMMA BusyAfter ==
  ASSUME PoolInv, NEW c \in Callers, NEW to \in Steps, Moves(c, to)
  PROVE  /\ step' \in [Callers -> Steps] /\ step'[c] = to
         /\ \A d \in Callers : d # c => step'[d] = step[d]
         /\ Busy' = IF to = "idle" THEN Busy \ {c} ELSE Busy \cup {c}
         /\ Pushing' = IF to = "push" THEN Pushing \cup {c} ELSE Pushing \ {c}
<1>1. step \in [Callers -> Steps]
  BY PoolTypes
<1>2. step' \in [Callers -> Steps] /\ step'[c] = to /\ \A d \in Callers : d # c => step'[d] = step[d]
  BY <1>1 DEF Moves
<1>3. Busy' = IF to = "idle" THEN Busy \ {c} ELSE Busy \cup {c}
  BY <1>2 DEF Busy, Pool!Busy
<1>4. Pushing' = IF to = "push" THEN Pushing \cup {c} ELSE Pushing \ {c}
  BY <1>2 DEF Pushing, Busy, Pool!Busy
<1> QED BY <1>2, <1>3, <1>4

(* One more caller, one less, and the same ones. *)
LEMMA BusyCount ==
  ASSUME PoolInv, NEW c \in Callers, NEW to \in Steps, Moves(c, to)
  PROVE  /\ IsFiniteSet(Busy')
         /\ step[c] = "idle" /\ to # "idle" => Cardinality(Busy') = Cardinality(Busy) + 1
         /\ step[c] # "idle" /\ to = "idle" => Cardinality(Busy') = Cardinality(Busy) - 1
         /\ step[c] # "idle" /\ to # "idle" => Busy' = Busy
         /\ step[c] # "push" /\ to = "push" => Cardinality(Pushing') = Cardinality(Pushing) + 1
         /\ step[c] = "push" /\ to # "push" => Cardinality(Pushing') = Cardinality(Pushing) - 1
         /\ step[c] # "push" /\ to # "push" => Pushing' = Pushing
<1>1. IsFiniteSet(Busy) /\ IsFiniteSet(Pushing)
  BY PoolTypes
<1>2. c \in Busy <=> step[c] # "idle"
  BY DEF Busy, Pool!Busy
<1>3. c \in Pushing <=> step[c] = "push"
  BY DEF Pushing, Busy, Pool!Busy
<1>4. /\ IsFiniteSet(Busy \cup {c}) /\ IsFiniteSet(Busy \ {c})
      /\ c \notin Busy => Cardinality(Busy \cup {c}) = Cardinality(Busy) + 1
      /\ c \in Busy => Cardinality(Busy \ {c}) = Cardinality(Busy) - 1
  BY <1>1, FS_AddElement, FS_RemoveElement
<1>5. /\ c \notin Pushing => Cardinality(Pushing \cup {c}) = Cardinality(Pushing) + 1
      /\ c \in Pushing => Cardinality(Pushing \ {c}) = Cardinality(Pushing) - 1
  BY <1>1, FS_AddElement, FS_RemoveElement
<1>6. c \in Busy => Busy \cup {c} = Busy
  OBVIOUS
<1>7. c \notin Pushing => Pushing \ {c} = Pushing
  OBVIOUS
<1>8. /\ Busy' = IF to = "idle" THEN Busy \ {c} ELSE Busy \cup {c}
      /\ Pushing' = IF to = "push" THEN Pushing \cup {c} ELSE Pushing \ {c}
  BY BusyAfter
<1> QED BY <1>2, <1>3, <1>4, <1>5, <1>6, <1>7, <1>8

LEMMA PredictionsAre ==
  /\ Pool!PredictionsBounded <=>
       /\ predictions <= finished + Cardinality(Pushing)
       /\ peak <= 1 => predictions = finished + Cardinality(Pushing)
  /\ Pool!PredictionsBounded' <=>
       /\ predictions' <= finished' + Cardinality(Pushing')
       /\ peak' <= 1 => predictions' = finished' + Cardinality(Pushing')
BY PoolCounts DEF Pool!PredictionsBounded, Pushing, Busy

(* The stack and the writers in use, after a pop and after a push. *)
Stacked(q, w, b) ==
  /\ \A c, d \in b : w[c] = w[d] => c = d
  /\ \A i \in 1 .. Len(q) : /\ \A c \in b : q[i] # w[c]
                            /\ \A j \in 1 .. Len(q) : q[i] = q[j] => i = j

LEMMA StackedIs ==
  ASSUME f_writers \in Seq(Pool!Writers)
  PROVE  Pool!OneUser <=> Stacked(f_writers, writer, Busy)
<1>1. DOMAIN f_writers = 1 .. Len(f_writers)
  BY SeqFacts
<1> QED BY <1>1 DEF Pool!OneUser, Stacked, Busy

LEMMA StackedAfter ==
  ASSUME f_writers' \in Seq(Pool!Writers)
  PROVE  Pool!OneUser' <=> Stacked(f_writers', writer', Busy')
<1>1. DOMAIN f_writers' = 1 .. Len(f_writers')
  BY SeqFacts
<1> QED BY <1>1 DEF Pool!OneUser, Stacked, Busy

LEMMA PopStack ==
  ASSUME NEW A, A \subseteq Nat, NEW q \in Seq(A), q # <<>>, NEW C, NEW w \in [C -> Nat], NEW b, b \subseteq C,
         NEW c \in C, c \notin b, NEW n \in Nat, Stacked(q, w, b), Below(q, w, b, n), 0 \notin A
  PROVE  LET r == SubSeq(q, 1, Len(q) - 1)
             v == [w EXCEPT ![c] = q[Len(q)]]
         IN  Stacked(r, v, b \cup {c}) /\ Below(r, v, b \cup {c}, n)
<1>1. PICK r \in Seq(A) : r = SubSeq(q, 1, Len(q) - 1)
  BY FrontFacts
<1>2. PICK v : v = [w EXCEPT ![c] = q[Len(q)]]
  OBVIOUS
<1>3. /\ Len(q) \in Nat /\ Len(q) # 0 /\ Len(r) = Len(q) - 1 /\ q[Len(q)] \in A
      /\ \A i \in 1 .. Len(r) : r[i] = q[i]
  BY <1>1, FrontFacts, SeqFacts
<1>4. v[c] = q[Len(q)] /\ \A d \in b : d # c /\ v[d] = w[d]
  BY <1>2
<1>5. Len(q) \in 1 .. Len(q) /\ \A i \in 1 .. Len(r) : i \in 1 .. Len(q) /\ i # Len(q)
  BY <1>3
<1>6. Stacked(r, v, b \cup {c})
  <2>1. \A d \in b : v[d] # v[c]
    BY <1>4, <1>5 DEF Stacked
  <2>2. \A d, e \in b \cup {c} : v[d] = v[e] => d = e
    BY <1>4, <2>1 DEF Stacked
  <2>3. \A i \in 1 .. Len(r) : \A d \in b \cup {c} : r[i] # v[d]
    BY <1>3, <1>4, <1>5 DEF Stacked
  <2>4. \A i, j \in 1 .. Len(r) : r[i] = r[j] => i = j
    BY <1>3, <1>5 DEF Stacked
  <2> QED BY <2>2, <2>3, <2>4 DEF Stacked
<1>7. Below(r, v, b \cup {c}, n)
  BY <1>3, <1>4, <1>5 DEF Below
<1> QED BY <1>1, <1>2, <1>6, <1>7

LEMMA MakeStack ==
  ASSUME NEW A, A \subseteq Nat, NEW q \in Seq(A), NEW C, NEW w \in [C -> Nat], NEW b, b \subseteq C,
         NEW c \in C, c \notin b, NEW n \in Nat, Stacked(q, w, b), Below(q, w, b, n)
  PROVE  LET v == [w EXCEPT ![c] = n + 1]
         IN  Stacked(q, v, b \cup {c}) /\ Below(q, v, b \cup {c}, n + 1)
<1>1. PICK v : v = [w EXCEPT ![c] = n + 1]
  OBVIOUS
<1>2. v[c] = n + 1 /\ \A d \in b : d # c /\ v[d] = w[d] /\ w[d] \in Nat
  BY <1>1
<1>3. Len(q) \in Nat /\ \A i \in 1 .. Len(q) : q[i] \in Nat
  BY SeqFacts
<1>4. (\A d \in b : v[d] <= n) /\ \A i \in 1 .. Len(q) : q[i] <= n
  BY <1>2 DEF Below
<1>5. Stacked(q, v, b \cup {c})
  <2>1. \A d \in b : v[d] # v[c]
    BY <1>2, <1>4
  <2>2. \A d, e \in b \cup {c} : v[d] = v[e] => d = e
    BY <1>2, <2>1 DEF Stacked
  <2>3. \A i \in 1 .. Len(q) : \A d \in b \cup {c} : q[i] # v[d]
    BY <1>2, <1>3, <1>4 DEF Stacked
  <2> QED BY <2>2, <2>3 DEF Stacked
<1>6. Below(q, v, b \cup {c}, n + 1)
  BY <1>2, <1>3, <1>4 DEF Below
<1> QED BY <1>1, <1>5, <1>6

LEMMA PushStack ==
  ASSUME NEW A, A \subseteq Nat, NEW q \in Seq(A), NEW C, NEW w \in [C -> Nat], NEW b, b \subseteq C,
         NEW c \in b, w[c] \in A, NEW n \in Nat, Stacked(q, w, b), Below(q, w, b, n)
  PROVE  LET r == Append(q, w[c])
             v == [w EXCEPT ![c] = 0]
         IN  Stacked(r, v, b \ {c}) /\ Below(r, v, b \ {c}, n)
<1>1. PICK r \in Seq(A) : r = Append(q, w[c])
  BY AppendFacts
<1>2. PICK v : v = [w EXCEPT ![c] = 0]
  OBVIOUS
<1>3. Len(q) \in Nat /\ Len(r) = Len(q) + 1 /\ r[Len(q) + 1] = w[c] /\ \A i \in 1 .. Len(q) : r[i] = q[i]
  BY <1>1, AppendFacts, SeqFacts
<1>4. \A d \in b \ {c} : d \in b /\ v[d] = w[d] /\ w[d] # w[c]
  BY <1>2 DEF Stacked
<1>5. \A i \in 1 .. Len(r) : i = Len(q) + 1 \/ i \in 1 .. Len(q)
  BY <1>3
<1>6. \A i \in 1 .. Len(q) : q[i] # w[c]
  BY DEF Stacked
<1>7. Stacked(r, v, b \ {c})
  <2>1. \A d, e \in b \ {c} : v[d] = v[e] => d = e
    BY <1>4 DEF Stacked
  <2>2. \A i \in 1 .. Len(r) : \A d \in b \ {c} : r[i] # v[d]
    BY <1>3, <1>4, <1>5 DEF Stacked
  <2>3. \A i, j \in 1 .. Len(r) : r[i] = r[j] => i = j
    BY <1>3, <1>5, <1>6 DEF Stacked
  <2> QED BY <2>1, <2>2, <2>3 DEF Stacked
<1>8. Below(r, v, b \ {c}, n)
  BY <1>3, <1>4, <1>5 DEF Below
<1> QED BY <1>1, <1>2, <1>7, <1>8

LEMMA PopStep ==
  ASSUME PoolInv, NEW c \in Callers, Pool!Pop(c)
  PROVE  PoolInv'
<1> DEFINE n == max_compressors + created
<1>1. /\ step[c] = "idle" /\ created + reused < MaxCompressions /\ Moves(c, "compress")
      /\ peak' = IF Cardinality(Busy) + 1 > peak THEN Cardinality(Busy) + 1 ELSE peak
      /\ UNCHANGED <<predictions, counter, finished>>
  BY PoolCounts DEF Pool!Pop, Moves, Busy
<1>2. \/ /\ f_writers # <<>>
         /\ writer' = [writer EXCEPT ![c] = f_writers[Len(f_writers)]]
         /\ f_writers' = SubSeq(f_writers, 1, Len(f_writers) - 1)
         /\ reused' = reused + 1 /\ created' = created
      \/ /\ f_writers = <<>>
         /\ created' = created + 1 /\ writer' = [writer EXCEPT ![c] = max_compressors + created']
         /\ f_writers' = f_writers /\ reused' = reused
  BY DEF Pool!Pop
<1>3. /\ f_writers \in Seq(Pool!Writers) /\ created \in Nat /\ reused \in Nat
      /\ predictions \in Nat /\ finished \in Nat /\ peak \in Nat /\ n \in Nat
      /\ writer \in [Callers -> Pool!Writers \cup {0}] /\ counter \in [Callers -> Nat]
      /\ Cardinality(Busy) \in Nat /\ Cardinality(Pushing) \in Nat /\ Busy \subseteq Callers
      /\ max_compressors \in Nat /\ MaxCompressions \in Nat
  BY PoolTypes, PoolConstants
<1>4. "compress" \in Steps
  BY DEF Steps
<1>5. /\ step' \in [Callers -> Steps] /\ step'[c] = "compress"
      /\ \A d \in Callers : d # c => step'[d] = step[d]
      /\ Busy' = Busy \cup {c}
  BY <1>1, <1>4, BusyAfter
<1>6. /\ IsFiniteSet(Busy') /\ Cardinality(Busy') = Cardinality(Busy) + 1 /\ Pushing' = Pushing
  BY <1>1, <1>4, BusyCount
<1>7. c \notin Busy
  BY <1>1 DEF Busy, Pool!Busy
<1>8. Pool!Writers \subseteq Nat /\ 0 \notin Pool!Writers
  BY <1>3 DEF Pool!Writers
<1>9. writer \in [Callers -> Nat]
  <2>1. Pool!Writers \cup {0} \subseteq Nat
    BY <1>8
  <2> QED BY <1>3, <2>1
<1>10. Stacked(f_writers, writer, Busy) /\ Below(f_writers, writer, Busy, n)
  BY <1>3, StackedIs DEF PoolInv
<1>11. /\ created = IF peak > max_compressors THEN peak - max_compressors ELSE 0
       /\ Len(f_writers) + Cardinality(Busy) = n /\ Cardinality(Busy) <= peak
       /\ Len(f_writers) \in Nat
  BY <1>3, SeqFacts, PoolCounts DEF PoolInv, Pool!WritersMatchPeak, Busy
<1>12. /\ f_writers' \in Seq(Pool!Writers) /\ created' \in Nat /\ reused' \in Nat
       /\ writer' \in [Callers -> Pool!Writers \cup {0}]
       /\ created' + reused' <= MaxCompressions
       /\ Stacked(f_writers', writer', Busy')
       /\ Below(f_writers', writer', Busy', max_compressors + created')
       /\ created' = IF peak' > max_compressors THEN peak' - max_compressors ELSE 0
       /\ Len(f_writers') + Cardinality(Busy') = max_compressors + created'
  <2>1. CASE /\ f_writers # <<>>
             /\ writer' = [writer EXCEPT ![c] = f_writers[Len(f_writers)]]
             /\ f_writers' = SubSeq(f_writers, 1, Len(f_writers) - 1)
             /\ reused' = reused + 1 /\ created' = created
    <3>1. /\ f_writers' \in Seq(Pool!Writers) /\ Len(f_writers') = Len(f_writers) - 1
          /\ f_writers[Len(f_writers)] \in Pool!Writers
      BY <1>3, <2>1, FrontFacts
    <3>2. writer' \in [Callers -> Pool!Writers \cup {0}]
      BY <1>3, <2>1, <3>1
    <3>3. Stacked(f_writers', writer', Busy') /\ Below(f_writers', writer', Busy', n)
      BY <1>3, <1>5, <1>7, <1>8, <1>9, <1>10, <2>1, PopStack
    <3>4. Len(f_writers) # 0
      BY <1>3, <2>1, SeqFacts
    <3>5. created' = IF peak' > max_compressors THEN peak' - max_compressors ELSE 0
      <4>1. CASE Cardinality(Busy) + 1 > peak
        <5>1. Cardinality(Busy) + 1 <= max_compressors + created
          BY <1>3, <1>11, <3>4
        <5>2. peak <= max_compressors /\ created = 0
          BY <1>3, <1>11, <4>1, <5>1
        <5> QED BY <1>1, <1>3, <2>1, <4>1, <5>1, <5>2
      <4>2. CASE ~(Cardinality(Busy) + 1 > peak)
        BY <1>1, <1>11, <2>1, <4>2
      <4> QED BY <4>1, <4>2
    <3>6. Len(f_writers') + Cardinality(Busy') = max_compressors + created'
      <4>1. created' = created /\ Len(f_writers') = Len(f_writers) - 1
        BY <2>1, <3>1
      <4> QED BY <1>3, <1>6, <1>11, <4>1
    <3>7. created' + reused' <= MaxCompressions
      BY <1>1, <1>3, <2>1
    <3> QED BY <1>3, <2>1, <3>1, <3>2, <3>3, <3>5, <3>6, <3>7
  <2>2. CASE /\ f_writers = <<>>
             /\ created' = created + 1 /\ writer' = [writer EXCEPT ![c] = max_compressors + created']
             /\ f_writers' = f_writers /\ reused' = reused
    <3>1. Len(f_writers) = 0 /\ created' = created + 1 /\ max_compressors + created' = n + 1
      BY <1>3, <2>2
    <3>2. n + 1 \in Pool!Writers
      BY <1>1, <1>3 DEF Pool!Writers
    <3>3. writer' = [writer EXCEPT ![c] = n + 1]
      BY <2>2, <3>1
    <3>4. writer' \in [Callers -> Pool!Writers \cup {0}]
      BY <1>3, <3>2, <3>3
    <3>5. Stacked(f_writers', writer', Busy') /\ Below(f_writers', writer', Busy', n + 1)
      <4>1. LET v == [writer EXCEPT ![c] = n + 1]
            IN  Stacked(f_writers, v, Busy \cup {c}) /\ Below(f_writers, v, Busy \cup {c}, n + 1)
        BY <1>3, <1>7, <1>8, <1>9, <1>10, MakeStack
      <4> QED BY <1>5, <2>2, <3>3, <4>1
    <3>6. /\ created' = IF peak' > max_compressors THEN peak' - max_compressors ELSE 0
          /\ Len(f_writers') + Cardinality(Busy') = max_compressors + created'
          /\ created' + reused' <= MaxCompressions
      BY <1>1, <1>3, <1>6, <1>11, <2>2, <3>1
    <3> QED BY <1>3, <2>2, <3>1, <3>4, <3>5, <3>6
  <2> QED BY <1>2, <2>1, <2>2
<1>13. peak' \in Nat /\ Cardinality(Busy') <= peak' /\ (peak' <= 1 => peak <= 1)
  BY <1>1, <1>3, <1>6, <1>11
<1>14. Pool!TypeOK'
  BY <1>1, <1>3, <1>5, <1>12 DEF Pool!TypeOK, Steps
<1>15. \A d \in Busy' : step'[d] = "count" =>
         /\ counter'[d] <= finished' + Cardinality(Pushing')
         /\ peak' <= 1 => counter'[d] = predictions'
  <2>1. \A d \in Busy' : step'[d] = "count" => d \in Busy /\ step[d] = "count"
    BY <1>3, <1>5
  <2>2. \A d \in Busy : step[d] = "count" =>
         /\ counter[d] <= finished + Cardinality(Pushing)
         /\ peak <= 1 => counter[d] = predictions
    BY DEF PoolInv
  <2> QED BY <1>1, <1>6, <1>13, <2>1, <2>2
<1>16. Pool!OneUser'
  BY <1>12, StackedAfter
<1>17. Pool!WritersMatchPeak'
  BY <1>12, PoolCounts DEF Pool!WritersMatchPeak, Busy
<1>18. Pool!PredictionsBounded'
  <2>1. /\ predictions <= finished + Cardinality(Pushing)
        /\ peak <= 1 => predictions = finished + Cardinality(Pushing)
    BY PredictionsAre DEF PoolInv
  <2>2. /\ predictions' <= finished' + Cardinality(Pushing')
        /\ peak' <= 1 => predictions' = finished' + Cardinality(Pushing')
    BY <1>1, <1>6, <1>13, <2>1
  <2> QED BY <2>2, PredictionsAre
<1> QED BY <1>1, <1>3, <1>6, <1>12, <1>13, <1>14, <1>15, <1>16, <1>17, <1>18 DEF PoolInv

(* The other steps of a caller leave the stack, or give it the writer back. *)
LEMMA ReadCounterStep ==
  ASSUME PoolInv, NEW c \in Callers, Pool!ReadCounter(c)
  PROVE  PoolInv'
<1>1. /\ step[c] = "compress" /\ Moves(c, "count") /\ counter' = [counter EXCEPT ![c] = predictions]
      /\ UNCHANGED <<f_writers, created, reused, predictions, writer, finished, peak>>
  BY DEF Pool!ReadCounter, Moves
<1>2. /\ predictions \in Nat /\ finished \in Nat /\ peak \in Nat
      /\ counter \in [Callers -> Nat] /\ Cardinality(Pushing) \in Nat /\ Busy \subseteq Callers
  BY PoolTypes
<1>3. "count" \in Steps
  BY DEF Steps
<1>4. /\ step' \in [Callers -> Steps] /\ \A d \in Callers : d # c => step'[d] = step[d]
  BY <1>1, <1>3, BusyAfter
<1>5. Busy' = Busy /\ Pushing' = Pushing
  BY <1>1, <1>3, BusyCount
<1>6. /\ predictions <= finished + Cardinality(Pushing)
      /\ peak <= 1 => predictions = finished + Cardinality(Pushing)
  BY PredictionsAre DEF PoolInv
<1>7. counter' \in [Callers -> Nat] /\ counter'[c] = predictions
      /\ \A d \in Callers : d # c => counter'[d] = counter[d]
  BY <1>1, <1>2
<1>8. \A d \in Busy' : step'[d] = "count" =>
         /\ counter'[d] <= finished' + Cardinality(Pushing')
         /\ peak' <= 1 => counter'[d] = predictions'
  <2>1. \A d \in Busy : step[d] = "count" =>
         /\ counter[d] <= finished + Cardinality(Pushing)
         /\ peak <= 1 => counter[d] = predictions
    BY DEF PoolInv
  <2>2. ASSUME NEW d \in Busy, step'[d] = "count"
        PROVE  /\ counter'[d] <= finished + Cardinality(Pushing)
               /\ peak <= 1 => counter'[d] = predictions
    <3>1. CASE d = c
      BY <1>6, <1>7, <3>1
    <3>2. CASE d # c
      <4>1. step[d] = "count" /\ counter'[d] = counter[d]
        BY <1>2, <1>4, <1>7, <2>2, <3>2
      <4> QED BY <2>1, <4>1
    <3> QED BY <3>1, <3>2
  <2> QED BY <1>1, <1>5, <2>2
<1>9. Pool!TypeOK'
  BY <1>1, <1>4, <1>7 DEF PoolInv, Pool!TypeOK, Steps
<1>10. Pool!OneUser' /\ Pool!WritersMatchPeak'
  BY <1>1, <1>5 DEF PoolInv, Pool!OneUser, Pool!WritersMatchPeak, Busy
<1>11. Pool!PredictionsBounded'
  BY <1>1, <1>5, <1>6, PredictionsAre
<1>12. Below(f_writers', writer', Busy', max_compressors + created')
  BY <1>1, <1>5 DEF PoolInv
<1> QED BY <1>1, <1>5, <1>8, <1>9, <1>10, <1>11, <1>12 DEF PoolInv

LEMMA OnlyBusy ==
  ASSUME PoolInv, peak <= 1, NEW c \in Busy, NEW d \in Busy
  PROVE  c = d
<1>1. IsFiniteSet(Busy) /\ Cardinality(Busy) \in Nat /\ Cardinality(Busy) <= 1
  BY PoolTypes DEF PoolInv
<1>2. IsFiniteSet(Busy \ {c}) /\ Cardinality(Busy \ {c}) = Cardinality(Busy) - 1
  BY <1>1, FS_RemoveElement
<1>3. Cardinality(Busy \ {c}) \in Nat
  BY <1>2, FS_CardinalityType
<1>4. Cardinality(Busy \ {c}) = 0
  BY <1>1, <1>2, <1>3
<1>5. Busy \ {c} = {}
  BY <1>2, <1>4, FS_EmptySet
<1> QED BY <1>5

LEMMA WriteCounterStep ==
  ASSUME PoolInv, NEW c \in Callers, Pool!WriteCounter(c)
  PROVE  PoolInv'
<1>1. /\ step[c] = "count" /\ Moves(c, "push") /\ predictions' = counter[c] + 1
      /\ UNCHANGED <<f_writers, created, reused, writer, counter, finished, peak>>
  BY DEF Pool!WriteCounter, Moves
<1>2. /\ predictions \in Nat /\ finished \in Nat /\ peak \in Nat /\ counter[c] \in Nat
      /\ counter \in [Callers -> Nat] /\ Cardinality(Pushing) \in Nat /\ Busy \subseteq Callers
  BY PoolTypes
<1>3. "push" \in Steps
  BY DEF Steps
<1>4. /\ step' \in [Callers -> Steps] /\ step'[c] = "push"
      /\ \A d \in Callers : d # c => step'[d] = step[d]
  BY <1>1, <1>3, BusyAfter
<1>5. Busy' = Busy /\ Cardinality(Pushing') = Cardinality(Pushing) + 1
  BY <1>1, <1>3, BusyCount
<1>6. c \in Busy
  BY <1>1 DEF Busy, Pool!Busy
<1>7. \A d \in Busy : step[d] = "count" =>
         /\ counter[d] <= finished + Cardinality(Pushing)
         /\ peak <= 1 => counter[d] = predictions
  BY DEF PoolInv
<1>8. peak <= 1 => predictions = finished + Cardinality(Pushing)
  BY PredictionsAre DEF PoolInv
<1>9. \A d \in Busy' : step'[d] = "count" =>
         /\ counter'[d] <= finished' + Cardinality(Pushing')
         /\ peak' <= 1 => counter'[d] = predictions'
  <2>1. ASSUME NEW d \in Busy, step'[d] = "count"
        PROVE  counter[d] <= finished + Cardinality(Pushing) + 1 /\ ~(peak <= 1)
    <3>1. d # c /\ step[d] = "count" /\ counter[d] \in Nat
      BY <1>2, <1>4, <2>1
    <3>2. ~(peak <= 1)
      BY <1>6, <3>1, OnlyBusy
    <3> QED BY <1>2, <1>7, <3>1, <3>2
  <2> QED BY <1>1, <1>2, <1>5, <2>1
<1>10. Pool!PredictionsBounded'
  <2>1. /\ predictions' <= finished + Cardinality(Pushing) + 1
        /\ peak <= 1 => predictions' = finished + Cardinality(Pushing) + 1
    BY <1>1, <1>2, <1>6, <1>7, <1>8
  <2> QED BY <1>1, <1>2, <1>5, <2>1, PredictionsAre
<1>11. Pool!TypeOK'
  <2>1. predictions' \in Nat
    BY <1>1, <1>2
  <2> QED BY <1>1, <1>4, <2>1 DEF PoolInv, Pool!TypeOK, Steps
<1>12. Pool!OneUser' /\ Pool!WritersMatchPeak'
  BY <1>1, <1>5 DEF PoolInv, Pool!OneUser, Pool!WritersMatchPeak, Busy
<1>13. Below(f_writers', writer', Busy', max_compressors + created')
  BY <1>1, <1>5 DEF PoolInv
<1> QED BY <1>1, <1>5, <1>9, <1>10, <1>11, <1>12, <1>13 DEF PoolInv

LEMMA PushStep ==
  ASSUME PoolInv, NEW c \in Callers, Pool!Push(c)
  PROVE  PoolInv'
<1> DEFINE n == max_compressors + created
<1>1. /\ step[c] = "push" /\ Moves(c, "idle") /\ finished' = finished + 1
      /\ f_writers' = Append(f_writers, writer[c]) /\ writer' = [writer EXCEPT ![c] = 0]
      /\ counter' = [counter EXCEPT ![c] = 0]
      /\ UNCHANGED <<created, reused, predictions, peak>>
  BY DEF Pool!Push, Moves
<1>2. /\ f_writers \in Seq(Pool!Writers) /\ created \in Nat /\ reused \in Nat
      /\ predictions \in Nat /\ finished \in Nat /\ peak \in Nat /\ n \in Nat
      /\ writer \in [Callers -> Pool!Writers \cup {0}] /\ counter \in [Callers -> Nat]
      /\ Cardinality(Busy) \in Nat /\ Cardinality(Pushing) \in Nat /\ Busy \subseteq Callers
      /\ max_compressors \in Nat /\ MaxCompressions \in Nat
  BY PoolTypes, PoolConstants
<1>3. "idle" \in Steps
  BY DEF Steps
<1>4. /\ step' \in [Callers -> Steps] /\ Busy' = Busy \ {c}
      /\ \A d \in Callers : d # c => step'[d] = step[d]
  BY <1>1, <1>3, BusyAfter
<1>5. /\ IsFiniteSet(Busy') /\ Cardinality(Busy') = Cardinality(Busy) - 1
      /\ Cardinality(Pushing') = Cardinality(Pushing) - 1
  BY <1>1, <1>3, BusyCount
<1>6. c \in Busy
  BY <1>1 DEF Busy, Pool!Busy
<1>7. Pool!Writers \subseteq Nat /\ 0 \notin Pool!Writers
  BY <1>2 DEF Pool!Writers
<1>8. writer \in [Callers -> Nat]
  <2>1. Pool!Writers \cup {0} \subseteq Nat
    BY <1>7
  <2> QED BY <1>2, <2>1
<1>9. Stacked(f_writers, writer, Busy) /\ Below(f_writers, writer, Busy, n)
  BY <1>2, StackedIs DEF PoolInv
<1>10. writer[c] \in Pool!Writers
  BY <1>2, <1>6, <1>9 DEF Below
<1>11. f_writers' \in Seq(Pool!Writers) /\ Len(f_writers') = Len(f_writers) + 1 /\ Len(f_writers) \in Nat
  BY <1>1, <1>2, <1>10, AppendFacts, SeqFacts
<1>12. writer' \in [Callers -> Pool!Writers \cup {0}]
  BY <1>1, <1>2
<1>13. Stacked(f_writers', writer', Busy') /\ Below(f_writers', writer', Busy', max_compressors + created')
  <2>1. LET r == Append(f_writers, writer[c])
            v == [writer EXCEPT ![c] = 0]
        IN  Stacked(r, v, Busy \ {c}) /\ Below(r, v, Busy \ {c}, n)
    BY <1>2, <1>6, <1>7, <1>8, <1>9, <1>10, PushStack
  <2> QED BY <1>1, <1>4, <2>1
<1>14. counter' \in [Callers -> Nat] /\ \A d \in Busy' : counter'[d] = counter[d]
  BY <1>1, <1>2, <1>4
<1>15. \A d \in Busy' : step'[d] = "count" =>
         /\ counter'[d] <= finished' + Cardinality(Pushing')
         /\ peak' <= 1 => counter'[d] = predictions'
  <2>1. \A d \in Busy : step[d] = "count" =>
         /\ counter[d] <= finished + Cardinality(Pushing)
         /\ peak <= 1 => counter[d] = predictions
    BY DEF PoolInv
  <2>2. finished' + Cardinality(Pushing') = finished + Cardinality(Pushing)
    BY <1>1, <1>2, <1>5
  <2> QED BY <1>1, <1>2, <1>4, <1>14, <2>1, <2>2
<1>16. Pool!PredictionsBounded'
  <2>1. /\ predictions <= finished + Cardinality(Pushing)
        /\ peak <= 1 => predictions = finished + Cardinality(Pushing)
    BY PredictionsAre DEF PoolInv
  <2>2. finished' + Cardinality(Pushing') = finished + Cardinality(Pushing)
    BY <1>1, <1>2, <1>5
  <2> QED BY <1>1, <2>1, <2>2, PredictionsAre
<1>17. Pool!TypeOK'
  BY <1>1, <1>2, <1>4, <1>11, <1>12, <1>14 DEF Pool!TypeOK, Steps
<1>18. Pool!OneUser'
  BY <1>11, <1>13, StackedAfter
<1>19. Pool!WritersMatchPeak'
  <2>1. /\ created = IF peak > max_compressors THEN peak - max_compressors ELSE 0
        /\ Len(f_writers) + Cardinality(Busy) = max_compressors + created
    BY PoolCounts DEF PoolInv, Pool!WritersMatchPeak, Busy
  <2>2. Len(f_writers') + Cardinality(Busy') = Len(f_writers) + Cardinality(Busy)
    BY <1>2, <1>5, <1>11
  <2>3. created' = created /\ peak' = peak
    BY <1>1
  <2> QED BY <2>1, <2>2, <2>3, PoolCounts DEF Pool!WritersMatchPeak, Busy
<1>20. finished' \in Nat /\ peak' \in Nat /\ Cardinality(Busy') <= peak' /\ created' + reused' <= MaxCompressions
  BY <1>1, <1>2, <1>5 DEF PoolInv
<1> QED BY <1>5, <1>13, <1>15, <1>16, <1>17, <1>18, <1>19, <1>20 DEF PoolInv

LEMMA PoolStart == ASSUME Pool!Init PROVE PoolInv
<1>1. /\ f_writers = [i \in 1 .. max_compressors |-> i] /\ created = 0 /\ reused = 0 /\ predictions = 0
      /\ step = [c \in Callers |-> "idle"] /\ writer = [c \in Callers |-> 0]
      /\ counter = [c \in Callers |-> 0] /\ finished = 0 /\ peak = 0
  BY DEF Pool!Init
<1>2. Busy = {} /\ Pushing = {}
  BY <1>1 DEF Busy, Pool!Busy, Pushing
<1>3. IsFiniteSet(Busy) /\ Cardinality(Busy) = 0 /\ Cardinality(Pushing) = 0
  BY <1>2, FS_EmptySet
<1>4. max_compressors \in Nat /\ MaxCompressions \in Nat
  BY PoolConstants
<1>5. f_writers \in Seq(Pool!Writers) /\ Len(f_writers) = max_compressors
      /\ \A i \in 1 .. max_compressors : f_writers[i] = i
  <2>1. \A i \in 1 .. max_compressors : i \in Pool!Writers
    BY <1>4 DEF Pool!Writers
  <2>2. f_writers \in [1 .. max_compressors -> Pool!Writers]
    BY <1>1, <2>1
  <2>3. f_writers \in Seq(Pool!Writers)
    BY <1>4, <2>2, SeqDef
  <2> QED BY <1>1, <1>4, <2>2, <2>3, LenProperties
<1>6. Pool!TypeOK
  BY <1>1, <1>5 DEF Pool!TypeOK
<1>7. Pool!OneUser
  <2>1. Stacked(f_writers, writer, Busy)
    BY <1>2, <1>5 DEF Stacked
  <2> QED BY <1>5, <2>1, StackedIs
<1>8. Pool!WritersMatchPeak /\ Pool!PredictionsBounded
  <2>1. Pool!WritersMatchPeak
    BY <1>1, <1>3, <1>4, <1>5, PoolCounts DEF Pool!WritersMatchPeak, Busy
  <2>2. Pool!PredictionsBounded
    BY <1>1, <1>3, PredictionsAre
  <2> QED BY <2>1, <2>2
<1>9. Below(f_writers, writer, Busy, max_compressors + created)
  BY <1>1, <1>2, <1>4, <1>5 DEF Below
<1> QED BY <1>1, <1>2, <1>3, <1>4, <1>6, <1>7, <1>8, <1>9 DEF PoolInv

LEMMA PoolStep == ASSUME PoolInv, Pool!Next PROVE PoolInv'
BY PopStep, ReadCounterStep, WriteCounterStep, PushStep DEF Pool!Next

-----------------------------------------------------------------------------
(* ConfigReload: loading the configuration. *)

Contents == Texts \cup {Half, Gone}
Written   == [text : Contents, size : Nat, mtime : 0 .. MaxTime]
Configs  == [text : Texts \cup {Half}, size : Nat, mtime : 0 .. MaxTime,
             at : 1 .. MaxTime, behind : BOOLEAN]

(* A configuration that was the file's when its time was looked at still is,*)
(* or the file was changed since, in that second or later.                  *)
ReloadInv ==
  /\ now \in 1 .. MaxTime /\ writes \in 0 .. MaxWrites
  /\ file \in Written /\ file.size = SizeOf[file.text] /\ file.mtime <= now
  /\ rest \in Texts \cup {Gone} /\ text \in Contents
  /\ loading \in {"wait", "read", "stat"} /\ alive \in BOOLEAN
  /\ loading = "stat" => text \in Texts \cup {Half}
  /\ loaded \in Configs /\ loaded.mtime <= loaded.at /\ loaded.at <= now
  /\ loaded.behind \/ loaded.text = file.text \/ loaded.at <= file.mtime

LEMMA ReloadConstants ==
  /\ Half \notin Texts /\ Gone \notin Texts /\ Half # Gone
  /\ SizeOf \in [Contents -> Nat]
  /\ MaxWrites \in Nat /\ MaxTime \in Nat \ {0}
BY PartsAssumption DEF Reloader!ConfigAssumption, Contents

LEMMA StatFacts ==
  ASSUME ReloadInv, NEW t \in Contents
  PROVE  /\ Reloader!Stat(t) \in Written /\ Reloader!Stat(t).text = t
         /\ Reloader!Stat(t).size = SizeOf[t] /\ Reloader!Stat(t).mtime = now
<1>1. SizeOf[t] \in Nat /\ now \in 0 .. MaxTime
  BY ReloadConstants DEF ReloadInv
<1> QED BY <1>1 DEF Reloader!Stat, Written

LEMMA LoadFacts ==
  ASSUME file \in Written, now \in 1 .. MaxTime, NEW t \in Texts \cup {Half}
  PROVE  /\ Reloader!Load(t) \in Configs /\ Reloader!Load(t).text = t
         /\ Reloader!Load(t).size = file.size /\ Reloader!Load(t).mtime = file.mtime
         /\ Reloader!Load(t).at = now
         /\ Reloader!Load(t).behind \/ t = file.text
<1>1. PICK b \in BOOLEAN : b = (file.text # t)
  OBVIOUS
<1>2. PICK l : l = [text |-> t, size |-> file.size, mtime |-> file.mtime, at |-> now, behind |-> b]
  OBVIOUS
<1>3. Reloader!Load(t) = l
  BY <1>1, <1>2 DEF Reloader!Load
<1>4. file.size \in Nat /\ file.mtime \in 0 .. MaxTime
  BY DEF Written
<1>5. l \in Configs
  BY <1>2, <1>4 DEF Configs
<1>6. l.text = t /\ l.size = file.size /\ l.mtime = file.mtime /\ l.at = now /\ l.behind = b
  BY <1>2
<1>7. b \/ t = file.text
  BY <1>1
<1> QED BY <1>3, <1>5, <1>6, <1>7, Zenon

(* Editors change the file now. *)
LEMMA ChangeStep ==
  ASSUME ReloadInv, NEW t \in Contents, Reloader!Change(t),
         rest' \in Texts \cup {Gone}, writes' \in 0 .. MaxWrites
  PROVE  ReloadInv'
<1>1. file' = Reloader!Stat(t) /\ UNCHANGED <<now, loading, text, loaded, alive>>
  BY DEF Reloader!Change
<1>2. file' \in Written /\ file'.text = t /\ file'.size = SizeOf[t] /\ file'.mtime = now
  BY <1>1, StatFacts
<1>3. loaded'.behind \/ loaded'.text = file'.text \/ loaded'.at <= file'.mtime
  BY <1>1, <1>2 DEF ReloadInv
<1>4. file'.mtime <= now'
  BY <1>1, <1>2 DEF ReloadInv
<1> QED BY <1>1, <1>2, <1>3, <1>4 DEF ReloadInv

LEMMA StoreStep ==
  ASSUME ReloadInv, Reloader!Store
  PROVE  ReloadInv'
<1>1. loading = "stat" /\ text \in Texts \cup {Half} /\ file \in Written /\ now \in 1 .. MaxTime
  BY DEF ReloadInv, Reloader!Store
<1>2. CASE file.text = Gone
  BY <1>1, <1>2 DEF ReloadInv, Reloader!Store
<1>3. CASE file.text # Gone
  <2>1. loaded' = Reloader!Load(text) /\ loading' = "wait" /\ UNCHANGED <<now, file, rest, writes, text, alive>>
    BY <1>3 DEF Reloader!Store
  <2>2. /\ loaded' \in Configs /\ loaded'.text = text
        /\ loaded'.mtime = file.mtime /\ loaded'.at = now
        /\ loaded'.behind \/ text = file.text
    BY <1>1, <2>1, LoadFacts
  <2>3. loaded'.mtime <= loaded'.at /\ loaded'.at <= now'
    BY <1>1, <2>1, <2>2 DEF ReloadInv
  <2>4. loaded'.behind \/ loaded'.text = file'.text
    BY <2>1, <2>2
  <2> QED BY <2>1, <2>2, <2>3, <2>4 DEF ReloadInv
<1> QED BY <1>2, <1>3

LEMMA ReloadStep == ASSUME ReloadInv, Reloader!Next PROVE ReloadInv'
<1>1. CASE Reloader!Second
  <2>1. now' = now + 1 /\ now < MaxTime /\ UNCHANGED <<file, rest, writes, loading, text, loaded, alive>>
    BY <1>1 DEF Reloader!Second
  <2>2. /\ now \in 1 .. MaxTime /\ MaxTime \in Nat /\ file.mtime \in Nat /\ loaded.at \in Nat
        /\ file.mtime <= now /\ loaded.at <= now
    BY ReloadConstants DEF ReloadInv, Written, Configs
  <2>3. now' \in 1 .. MaxTime /\ file'.mtime <= now' /\ loaded'.at <= now'
    BY <2>1, <2>2
  <2> QED BY <2>1, <2>3 DEF ReloadInv
<1>2. ASSUME NEW t \in Texts, Reloader!Replace(t) \/ Reloader!WriteBegin(t) \/ Reloader!Remove(t)
      PROVE  ReloadInv'
  <2>1. /\ writes < MaxWrites /\ writes' = writes + 1
        /\ rest' = rest \/ rest' = t
        /\ Reloader!Change(t) \/ Reloader!Change(Half) \/ Reloader!Change(Gone)
    BY <1>2 DEF Reloader!Replace, Reloader!WriteBegin, Reloader!Remove
  <2>2. writes' \in 0 .. MaxWrites /\ rest' \in Texts \cup {Gone}
    BY <2>1, ReloadConstants DEF ReloadInv
  <2>3. t \in Contents /\ Half \in Contents /\ Gone \in Contents
    BY DEF Contents
  <2> QED BY <2>1, <2>2, <2>3, ChangeStep
<1>3. CASE Reloader!WriteEnd
  <2>1. Reloader!Change(rest) /\ rest' = Gone /\ writes' = writes
    BY <1>3 DEF Reloader!WriteEnd
  <2>2. rest \in Contents /\ rest' \in Texts \cup {Gone} /\ writes' \in 0 .. MaxWrites
    BY <2>1 DEF ReloadInv, Contents
  <2> QED BY <2>1, <2>2, ChangeStep
<1>4. CASE Reloader!Poll
  BY <1>4 DEF Reloader!Poll, ReloadInv
<1>5. CASE Reloader!ReadFile
  <2>1. /\ UNCHANGED <<now, file, rest, writes, loaded, alive>>
        /\ \/ loading' = "wait" /\ text' = text
           \/ file.text # Gone /\ loading' = "stat" /\ text' = file.text
    BY <1>5 DEF Reloader!ReadFile
  <2>2. file.text \in Contents /\ (file.text # Gone => file.text \in Texts \cup {Half})
    BY DEF ReloadInv, Written, Contents
  <2> QED BY <2>1, <2>2 DEF ReloadInv
<1> QED BY <1>1, <1>2, <1>3, <1>4, <1>5, StoreStep DEF Reloader!Next, Reloader!Reload

LEMMA ReloadStart == ASSUME Reloader!Init PROVE ReloadInv
<1>1. PICK t \in Texts : file = [text |-> t, size |-> SizeOf[t], mtime |-> 0]
  BY DEF Reloader!Init
<1>2. /\ now = 1 /\ rest = Gone /\ writes = 0 /\ loading = "wait" /\ text = Gone /\ alive = TRUE
      /\ loaded = Reloader!Load(file.text)
  BY DEF Reloader!Init
<1>3. t \in Contents /\ SizeOf[t] \in Nat /\ 0 \in 0 .. MaxTime /\ 1 \in 1 .. MaxTime /\ 0 \in 0 .. MaxWrites
  BY ReloadConstants DEF Contents
<1>4. file \in Written /\ file.text = t /\ file.size = SizeOf[t] /\ file.mtime = 0
  BY <1>1, <1>3 DEF Written
<1>5. now \in 1 .. MaxTime
  BY <1>2, <1>3
<1>6. /\ loaded \in Configs /\ loaded.text = t /\ loaded.mtime = 0 /\ loaded.at = 1
  BY <1>2, <1>4, <1>5, LoadFacts
<1>7. Gone \in Contents
  BY DEF Contents
<1> QED BY <1>2, <1>3, <1>4, <1>5, <1>6, <1>7 DEF ReloadInv

LEMMA ReloadHolds ==
  ASSUME ReloadInv
  PROVE  Reloader!TypeOK /\ Reloader!StaleOnlyByRace
<1>1. Reloader!TypeOK
  BY DEF ReloadInv, Reloader!TypeOK, Written, Contents, Configs, Reloader!AllTexts
<1>2. ASSUME loaded.text # file.text, loaded.mtime = file.mtime
      PROVE  loaded.behind \/ loaded.at = loaded.mtime
  <2>1. loaded.at \in Nat /\ loaded.mtime \in Nat /\ loaded.mtime <= loaded.at
    BY DEF ReloadInv, Configs
  <2>2. loaded.behind \/ loaded.at <= file.mtime
    BY <1>2 DEF ReloadInv
  <2> QED BY <1>2, <2>1, <2>2
<1> QED BY <1>1, <1>2 DEF Reloader!StaleOnlyByRace, Reloader!Stale

-----------------------------------------------------------------------------
(* ConfigMerge: merging the configuration. *)

LocalKey == <<"LOCAL_IP", "plain">>
ParamKey == <<Param, "plain">>
Local0   == Merger!Local0
(* What local interfaces add to a parameter. *)
Added(p, local) == UNION {written[<<p, i>>] : i \in local}

(* Plain keys are changed once, when they are visited, and only if the file *)
(* has them.                                                                *)
KeyRight(k) ==
  /\ k \in todo \/ written[k] = {} => config[k] = written[k]
  /\ k \in todo => written[k] # {}
  /\ written[k] \subseteq config[k]

(* The local interfaces are those from the start, and then those that       *)
(* LOCAL_IP adds for them.                                                  *)
LocalRight ==
  /\ Local0 \subseteq local_interfaces /\ local_interfaces \subseteq Interfaces
  /\ local_interfaces \subseteq Local0 \cup Added("LOCAL_IP", Local0)
  /\ LocalKey \in todo \/ (written[LocalKey] = {} /\ ~done)
       => local_interfaces = Local0
  /\ LocalKey \notin todo /\ (written[LocalKey] # {} \/ done)
       => local_interfaces = Local0 \cup Added("LOCAL_IP", Local0)

(* The parameter has what the interfaces add that were local from the       *)
(* start, and nothing that no local interface adds.                         *)
ParamRight ==
  ParamKey \notin todo /\ written[ParamKey] # {} =>
    /\ written[ParamKey] \cup Added(Param, Local0) \subseteq config[ParamKey]
    /\ config[ParamKey] \subseteq written[ParamKey] \cup Added(Param, local_interfaces)

(* Keys of one interface are never changed.                                 *)
MergeInv ==
  /\ machine \subseteq Interfaces /\ written \in Files
  /\ config \in [Merger!Keys -> SUBSET (Interfaces \cup Values)]
  /\ todo \subseteq Merger!Keys /\ done \in BOOLEAN /\ (done => todo = {})
  /\ \A p \in {"LOCAL_IP", Param} : \A i \in Interfaces : config[<<p, i>>] = written[<<p, i>>]
  /\ KeyRight(LocalKey) /\ KeyRight(ParamKey) /\ LocalRight /\ ParamRight

LEMMA MergeConstants ==
  /\ "plain" \notin Interfaces /\ Param # "LOCAL_IP"
  /\ Files \subseteq [Merger!Keys -> SUBSET (Interfaces \cup Values)]
  /\ \A f \in Files : \A i \in Interfaces \cup {"plain"} : f[<<"LOCAL_IP", i>>] \subseteq Interfaces
  /\ LocalKey \in Merger!Keys /\ ParamKey \in Merger!Keys /\ LocalKey # ParamKey
  /\ \A p \in {"LOCAL_IP", Param} : \A i \in Interfaces : <<p, i>> \in Merger!Keys
<1>1. Merger!MergeKeysAssumption
  BY PartsAssumption
<1>2. \A p \in {"LOCAL_IP", Param} : \A i \in Interfaces \cup {"plain"} : <<p, i>> \in Merger!Keys
  BY DEF Merger!Keys, Merger!LocalIP, Merger!Plain
<1>3. /\ "plain" \notin Interfaces /\ Param # "LOCAL_IP"
      /\ Files \subseteq [Merger!Keys -> SUBSET (Interfaces \cup Values)]
  BY <1>1 DEF Merger!MergeKeysAssumption, Merger!LocalIP, Merger!Plain
<1>4. ASSUME NEW f \in Files, NEW i \in Interfaces \cup {"plain"}
      PROVE  f[<<"LOCAL_IP", i>>] \subseteq Interfaces
  <2>1. PICK k : k = <<"LOCAL_IP", i>>
    OBVIOUS
  <2>2. k \in Merger!Keys /\ k[1] = "LOCAL_IP"
    BY <1>2, <2>1
  <2>3. f[k] \subseteq (IF k[1] = "LOCAL_IP" THEN Interfaces ELSE Values)
    BY <1>1, <2>2 DEF Merger!MergeKeysAssumption, Merger!LocalIP
  <2> QED BY <2>1, <2>2, <2>3
<1>5. LocalKey # ParamKey /\ LocalKey \in Merger!Keys /\ ParamKey \in Merger!Keys
  BY <1>2, <1>3 DEF LocalKey, ParamKey
<1> QED BY <1>2, <1>3, <1>4, <1>5

(* Matching adds what the file has for the local interfaces. *)
LEMMA MatchingIs ==
  ASSUME MergeInv, NEW p \in {"LOCAL_IP", Param}
  PROVE  Merger!Matching(p) = Added(p, local_interfaces)
<1>1. \A i \in local_interfaces : config[<<p, i>>] = written[<<p, i>>]
  BY DEF MergeInv, LocalRight
<1> QED BY <1>1 DEF Merger!Matching, Added

LEMMA LocalAdds ==
  ASSUME MergeInv
  PROVE  /\ Added("LOCAL_IP", Local0) \subseteq Interfaces
         /\ \A p, l : Local0 \subseteq l => Added(p, Local0) \subseteq Added(p, l)
         /\ Local0 \subseteq Interfaces
<1>1. Local0 \subseteq Interfaces
  BY DEF MergeInv, LocalRight
<1>2. \A i \in Interfaces : written[<<"LOCAL_IP", i>>] \subseteq Interfaces
  BY MergeConstants DEF MergeInv
<1> QED BY <1>1, <1>2 DEF Added

(* A key of one interface: nothing changes. *)
LEMMA VisitOther ==
  ASSUME MergeInv, NEW k \in Merger!Keys, Merger!Visit(k), k[2] # "plain"
  PROVE  MergeInv'
<1>1. /\ todo' = todo \ {k} /\ config' = config /\ local_interfaces' = local_interfaces
      /\ UNCHANGED <<machine, written, done>>
  BY DEF Merger!Visit, Merger!Plain, Merger!LocalIP
<1>2. k # LocalKey /\ k # ParamKey
  BY DEF LocalKey, ParamKey
<1>3. Local0' = Local0 /\ \A p, l : Added(p, l)' = Added(p, l)
  BY <1>1 DEF Local0, Merger!Local0, Added
<1>4. KeyRight(LocalKey)' /\ KeyRight(ParamKey)'
  BY <1>1, <1>2 DEF KeyRight, MergeInv, LocalKey, ParamKey
<1>5. LocalRight'
  BY <1>1, <1>2, <1>3 DEF MergeInv, LocalRight, LocalKey
<1>6. ParamRight'
  BY <1>1, <1>2, <1>3 DEF MergeInv, ParamRight, ParamKey
<1>7. todo' \subseteq Merger!Keys /\ (done' => todo' = {})
  BY <1>1 DEF MergeInv
<1> QED BY <1>1, <1>4, <1>5, <1>6, <1>7 DEF MergeInv

(* LOCAL_IP: the interfaces it adds are local from now on. *)
LEMMA VisitLocal ==
  ASSUME MergeInv, Merger!Visit(LocalKey)
  PROVE  MergeInv'
<1> DEFINE more == Added("LOCAL_IP", Local0)
<1>1. LocalKey[1] = "LOCAL_IP" /\ LocalKey[2] = "plain"
  BY DEF LocalKey
<1>2. /\ LocalKey \in todo /\ todo' = todo \ {LocalKey}
      /\ config' = [config EXCEPT ![LocalKey] = @ \cup Merger!Matching("LOCAL_IP")]
      /\ local_interfaces' = local_interfaces \cup Merger!Matching("LOCAL_IP")
      /\ UNCHANGED <<machine, written, done>>
  BY <1>1 DEF Merger!Visit, Merger!Plain, Merger!LocalIP, LocalKey
<1>3. local_interfaces = Local0 /\ written[LocalKey] # {} /\ config[LocalKey] = written[LocalKey]
  BY <1>2 DEF MergeInv, LocalRight, KeyRight
<1>4. Merger!Matching("LOCAL_IP") = more
  BY <1>3, MatchingIs
<1>5. Local0' = Local0 /\ \A p, l : Added(p, l)' = Added(p, l)
  BY <1>2 DEF Local0, Merger!Local0, Added
<1>6. more \subseteq Interfaces /\ Local0 \subseteq Interfaces
  BY LocalAdds
<1>7. local_interfaces' = Local0 \cup more
  BY <1>2, <1>3, <1>4
<1>8. /\ config' \in [Merger!Keys -> SUBSET (Interfaces \cup Values)]
      /\ config'[LocalKey] = config[LocalKey] \cup more
      /\ \A k \in Merger!Keys : k # LocalKey => config'[k] = config[k]
  <2>1. config \in [Merger!Keys -> SUBSET (Interfaces \cup Values)] /\ LocalKey \in Merger!Keys
    BY MergeConstants DEF MergeInv
  <2> QED BY <1>2, <1>4, <1>6, <2>1
<1>9. KeyRight(LocalKey)'
  <2>1. written'[LocalKey] = written[LocalKey] /\ LocalKey \notin todo' /\ LocalKey' = LocalKey
    BY <1>2 DEF LocalKey
  <2> QED BY <1>3, <1>8, <2>1 DEF KeyRight
<1>10. ParamKey # LocalKey /\ config'[ParamKey] = config[ParamKey] /\ ParamKey' = ParamKey
  BY <1>8, MergeConstants DEF ParamKey
<1>11. KeyRight(ParamKey)'
  BY <1>2, <1>10 DEF MergeInv, KeyRight
<1>12. LocalRight'
  <2>1. LocalKey' = LocalKey /\ LocalKey \notin todo'
    BY <1>2 DEF LocalKey
  <2>2. written' = written
    BY <1>2
  <2> QED BY <1>3, <1>5, <1>6, <1>7, <2>1, <2>2 DEF LocalRight
<1>13. ParamRight'
  <2>1. Added(Param, local_interfaces) \subseteq Added(Param, local_interfaces')
    BY <1>3, <1>7 DEF Added
  <2>2. written' = written /\ (ParamKey \in todo' <=> ParamKey \in todo)
    BY <1>2, <1>10
  <2> QED BY <1>5, <1>10, <2>1, <2>2 DEF MergeInv, ParamRight
<1>14. \A p \in {"LOCAL_IP", Param} : \A i \in Interfaces : config'[<<p, i>>] = written'[<<p, i>>]
  <2>1. ASSUME NEW p \in {"LOCAL_IP", Param}, NEW i \in Interfaces
        PROVE  config'[<<p, i>>] = written'[<<p, i>>]
    <3>1. <<p, i>> \in Merger!Keys /\ <<p, i>> # LocalKey
      BY MergeConstants DEF LocalKey
    <3>2. config[<<p, i>>] = written[<<p, i>>]
      BY DEF MergeInv
    <3> QED BY <1>2, <1>8, <3>1, <3>2
  <2> QED BY <2>1
<1>15. todo' \subseteq Merger!Keys /\ (done' => todo' = {})
  BY <1>2 DEF MergeInv
<1> QED BY <1>2, <1>8, <1>9, <1>11, <1>12, <1>13, <1>14, <1>15 DEF MergeInv

(* The parameter: the interfaces that are local by now add their values. *)
LEMMA VisitParam ==
  ASSUME MergeInv, Merger!Visit(ParamKey)
  PROVE  MergeInv'
<1> DEFINE more == Added(Param, local_interfaces)
<1>1. ParamKey[1] = Param /\ ParamKey[2] = "plain" /\ ParamKey # LocalKey /\ ParamKey \in Merger!Keys
  BY MergeConstants DEF ParamKey
<1>2. /\ ParamKey \in todo /\ todo' = todo \ {ParamKey}
      /\ config' = [config EXCEPT ![ParamKey] = @ \cup more]
      /\ local_interfaces' = local_interfaces
      /\ UNCHANGED <<machine, written, done>>
  <2>1. Merger!Matching(Param) = more
    BY MatchingIs
  <2>2. ParamKey # <<"LOCAL_IP", "plain">>
    BY <1>1 DEF LocalKey
  <2> QED BY <1>1, <2>1, <2>2 DEF Merger!Visit, Merger!Plain, Merger!LocalIP
<1>3. written[ParamKey] # {} /\ config[ParamKey] = written[ParamKey]
  BY <1>2 DEF MergeInv, KeyRight
<1>4. Local0' = Local0 /\ \A p, l : Added(p, l)' = Added(p, l)
  BY <1>2 DEF Local0, Merger!Local0, Added
<1>5. more \subseteq Interfaces \cup Values
  <2>1. \A i \in Interfaces : written[<<Param, i>>] \subseteq Interfaces \cup Values
    BY MergeConstants DEF MergeInv
  <2> QED BY <2>1 DEF MergeInv, LocalRight, Added
<1>6. /\ config' \in [Merger!Keys -> SUBSET (Interfaces \cup Values)]
      /\ config'[ParamKey] = config[ParamKey] \cup more
      /\ \A k \in Merger!Keys : k # ParamKey => config'[k] = config[k]
  <2>1. config \in [Merger!Keys -> SUBSET (Interfaces \cup Values)]
    BY DEF MergeInv
  <2> QED BY <1>1, <1>2, <1>5, <2>1
<1>7. ParamKey' = ParamKey /\ LocalKey' = LocalKey
  BY DEF ParamKey, LocalKey
<1>8. KeyRight(ParamKey)'
  BY <1>2, <1>3, <1>6, <1>7 DEF KeyRight
<1>9. KeyRight(LocalKey)'
  <2>1. config'[LocalKey] = config[LocalKey]
    BY <1>1, <1>6, MergeConstants
  <2> QED BY <1>1, <1>2, <1>7, <2>1 DEF MergeInv, KeyRight
<1>10. LocalRight'
  BY <1>1, <1>2, <1>4, <1>7 DEF MergeInv, LocalRight
<1>11. ParamRight'
  <2>1. Added(Param, Local0) \subseteq more
    BY DEF MergeInv, LocalRight, Added
  <2> QED BY <1>2, <1>3, <1>4, <1>6, <1>7, <2>1 DEF ParamRight
<1>12. \A p \in {"LOCAL_IP", Param} : \A i \in Interfaces : config'[<<p, i>>] = written'[<<p, i>>]
  <2>1. ASSUME NEW p \in {"LOCAL_IP", Param}, NEW i \in Interfaces
        PROVE  config'[<<p, i>>] = written'[<<p, i>>]
    <3>1. <<p, i>> \in Merger!Keys /\ <<p, i>> # ParamKey
      BY MergeConstants DEF ParamKey
    <3>2. config[<<p, i>>] = written[<<p, i>>]
      BY DEF MergeInv
    <3> QED BY <1>2, <1>6, <3>1, <3>2
  <2> QED BY <2>1
<1>13. todo' \subseteq Merger!Keys /\ (done' => todo' = {})
  BY <1>2 DEF MergeInv
<1> QED BY <1>2, <1>6, <1>8, <1>9, <1>10, <1>11, <1>12, <1>13 DEF MergeInv

(* The forced keys: LOCAL_IP that the file has for interfaces only.         *)
LEMMA ForceStep ==
  ASSUME MergeInv, Merger!ForceKeys
  PROVE  MergeInv'
<1> DEFINE more == Added("LOCAL_IP", Local0)
<1>1. /\ todo = {} /\ ~done /\ done' = TRUE /\ UNCHANGED <<machine, written, config, todo>>
      /\ local_interfaces' = IF config[LocalKey] # {} THEN local_interfaces
                             ELSE local_interfaces \cup Merger!Matching("LOCAL_IP")
  BY DEF Merger!ForceKeys, Merger!Has, Merger!Plain, Merger!LocalIP, LocalKey
<1>2. Local0' = Local0 /\ \A p, l : Added(p, l)' = Added(p, l)
  BY <1>1 DEF Local0, Merger!Local0, Added
<1>3. LocalKey' = LocalKey /\ ParamKey' = ParamKey
  BY DEF LocalKey, ParamKey
<1>4. more \subseteq Interfaces /\ Local0 \subseteq Interfaces
  BY LocalAdds
<1>5. local_interfaces' = Local0 \cup more /\ local_interfaces \subseteq local_interfaces'
  <2>1. CASE written[LocalKey] = {}
    <3>1. config[LocalKey] = {} /\ local_interfaces = Local0
      BY <1>1, <2>1 DEF MergeInv, KeyRight, LocalRight
    <3> QED BY <1>1, <3>1, MatchingIs
  <2>2. CASE written[LocalKey] # {}
    BY <1>1, <2>2 DEF MergeInv, KeyRight, LocalRight
  <2> QED BY <2>1, <2>2
<1>6. LocalRight'
  BY <1>1, <1>2, <1>3, <1>4, <1>5 DEF LocalRight
<1>7. ParamRight'
  <2>1. Added(Param, local_interfaces) \subseteq Added(Param, local_interfaces')
    BY <1>5 DEF Added
  <2> QED BY <1>1, <1>2, <1>3, <2>1 DEF MergeInv, ParamRight
<1>8. KeyRight(LocalKey)' /\ KeyRight(ParamKey)'
  BY <1>1, <1>3 DEF MergeInv, KeyRight
<1> QED BY <1>1, <1>6, <1>7, <1>8 DEF MergeInv

LEMMA MergeStep == ASSUME MergeInv, Merger!Next PROVE MergeInv'
<1>1. ASSUME NEW k \in Merger!Keys, Merger!Visit(k) PROVE MergeInv'
  <2>1. k[2] # "plain" \/ k = LocalKey \/ k = ParamKey
    BY DEF Merger!Keys, Merger!LocalIP, Merger!Plain, LocalKey, ParamKey
  <2> QED BY <1>1, <2>1, VisitOther, VisitLocal, VisitParam
<1> QED BY <1>1, ForceStep DEF Merger!Next

LEMMA MergeStart == ASSUME Merger!Init PROVE MergeInv
<1>1. /\ machine \subseteq Interfaces /\ written \in Files /\ config = written /\ done = FALSE
      /\ todo = {k \in Merger!Keys : config[k] # {}}
      /\ local_interfaces = Local0
  BY DEF Merger!Init, Merger!Has, Local0, Merger!Local0
<1>2. config \in [Merger!Keys -> SUBSET (Interfaces \cup Values)]
  BY <1>1, MergeConstants
<1>3. Local0 \subseteq Interfaces
  BY <1>1, MergeConstants DEF Local0, Merger!Local0, Merger!LocalIP, Merger!Plain
<1>4. KeyRight(LocalKey) /\ KeyRight(ParamKey)
  BY <1>1 DEF KeyRight
<1>5. LocalRight
  <2>1. LocalKey \notin todo => written[LocalKey] = {}
    BY <1>1, MergeConstants
  <2> QED BY <1>1, <1>3, <2>1 DEF LocalRight
<1>6. ParamRight
  <2>1. ParamKey \notin todo => written[ParamKey] = {}
    BY <1>1, MergeConstants
  <2> QED BY <2>1 DEF ParamRight
<1> QED BY <1>1, <1>2, <1>4, <1>5, <1>6 DEF MergeInv

LEMMA MergeHolds ==
  ASSUME MergeInv
  PROVE  Merger!TypeOK /\ Merger!ConfigMerged
<1>1. Merger!TypeOK
  BY DEF MergeInv, LocalRight, Merger!TypeOK
<1>2. /\ \A l : Merger!Selected(Param, l) = written[ParamKey] \cup Added(Param, l)
      /\ Merger!Selected("LOCAL_IP", Local0) = written[LocalKey] \cup Added("LOCAL_IP", Local0)
      /\ Local0 = machine \cup written[LocalKey]
  BY DEF Merger!Selected, Added, LocalKey, ParamKey, Local0, Merger!Local0, Merger!LocalIP, Merger!Plain
<1>3. ASSUME done
      PROVE  /\ local_interfaces = machine \cup Merger!Selected("LOCAL_IP", Local0)
             /\ IF written[ParamKey] = {} THEN config[ParamKey] = {}
                ELSE /\ Merger!Selected(Param, Local0) \subseteq config[ParamKey]
                     /\ config[ParamKey] \subseteq Merger!Selected(Param, local_interfaces)
  <2>1. todo = {}
    BY <1>3 DEF MergeInv
  <2>2. local_interfaces = Local0 \cup Added("LOCAL_IP", Local0)
    BY <1>3, <2>1 DEF MergeInv, LocalRight
  <2>3. written[ParamKey] = {} => config[ParamKey] = {}
    BY DEF MergeInv, KeyRight
  <2>4. written[ParamKey] # {} =>
          /\ written[ParamKey] \cup Added(Param, Local0) \subseteq config[ParamKey]
          /\ config[ParamKey] \subseteq written[ParamKey] \cup Added(Param, local_interfaces)
    BY <2>1 DEF MergeInv, ParamRight
  <2>5. local_interfaces = machine \cup Merger!Selected("LOCAL_IP", Local0)
    BY <1>2, <2>2
  <2> QED BY <1>2, <2>3, <2>4, <2>5
<1>4. Merger!LocalDetermined /\ Merger!ConditionalBetween
  BY <1>3 DEF Merger!LocalDetermined, Merger!ConditionalBetween, Local0, ParamKey, Merger!LocalIP, Merger!Plain
<1> QED BY <1>1, <1>4 DEF Merger!ConfigMerged

-----------------------------------------------------------------------------
(* HttpService: requests over HTTP. *)

Requests == Http!Requests
Places == {"new", "plugins", "plugin answered", "handler", "in handler",
           "respond", "write", "cleanup", "sleep", "over"}
Answering == {"in handler", "respond", "write", "cleanup"}
Marks == {"R", "W", "F", "-"}

(* The number of the last of the handlers q that takes the action a, 0 for  *)
(* none.                                                                    *)
Chosen(q, a, i) ==
  /\ i = 0 => \A j \in 1 .. Len(q) : a \notin GetActions[q[j]]
  /\ i # 0 => /\ a \in GetActions[q[i]]
              /\ \A j \in 1 .. Len(q) : a \in GetActions[q[j]] => j <= i

Shown(place, panic) ==
  CASE place = "new" -> "-"
    [] place = "write" -> "W"
    [] place \in {"cleanup", "sleep"} -> "F"
    [] place = "over" -> IF panic THEN "R" ELSE "-"
    [] OTHER -> "R"

(* A request: begun when the server serves, shown by where it is, given to  *)
(* the right handler, and the only one with its memory.                     *)
RequestRight(r) ==
  /\ at[r] = "new" <=> httpRequestId < r
  /\ at[r] # "new" => serving
  /\ at[r] \in Answering => answered_by[r] = Http!Latest(action[r])
  /\ status[r] = Shown(at[r], panicked[r])
  /\ panicked[r] => at[r] = "over"
  /\ holding[r] => at[r] \in Answering \/ panicked[r]

HttpTypes ==
  /\ action_handlers \in Seq(Handlers) /\ serving \in BOOLEAN
  /\ actionToHandlerNum \in [Actions -> 0 .. Len(action_handlers)]
  /\ httpRequestId \in 0 .. MaxRequests
  /\ status \in [Requests -> Marks] /\ at \in [Requests -> Places]
  /\ action \in [Requests -> Actions] /\ answered_by \in [Requests -> Handlers \cup {"none"}]
  /\ holding \in [Requests -> BOOLEAN] /\ panicked \in [Requests -> BOOLEAN]

HttpInv ==
  /\ HttpTypes
  /\ \A a \in Actions : Chosen(action_handlers, a, actionToHandlerNum[a])
  /\ \A r \in Requests : RequestRight(r)

LEMMA HttpConstants ==
  /\ GetActions \in [Handlers -> SUBSET Actions] /\ MaxRequests \in Nat
  /\ Requests = 1 .. MaxRequests
BY PartsAssumption DEF Http!HttpAssumption, Requests, Http!Requests

(* The last of the positions in a set. *)
LEMMA MaxIs ==
  ASSUME NEW n \in Nat, NEW I, I \subseteq 1 .. n, I # {}
  PROVE  Http!Max(I) \in I /\ \A j \in I : j <= Http!Max(I)
<1>1. PICK m \in I : \A k \in I : k <= m
  BY Largest
<1>2. \E m2 \in I : \A k \in I : m2 >= k
  <2>1. \A k \in I : m >= k
    BY <1>1
  <2> QED BY <2>1
<1>3. Http!Max(I) \in I /\ \A k \in I : Http!Max(I) >= k
  BY <1>2 DEF Http!Max
<1>4. \A k \in I : k \in Nat
  OBVIOUS
<1> QED BY <1>3, <1>4

LEMMA LatestIs ==
  ASSUME action_handlers \in Seq(Handlers), NEW a \in Actions,
         NEW i \in 0 .. Len(action_handlers), Chosen(action_handlers, a, i)
  PROVE  Http!Latest(a) = IF a \in OwnActions \/ i = 0 THEN "none" ELSE action_handlers[i]
<1> DEFINE fit == {j \in DOMAIN action_handlers : a \in GetActions[action_handlers[j]]}
<1>1. DOMAIN action_handlers = 1 .. Len(action_handlers) /\ Len(action_handlers) \in Nat
  BY SeqFacts
<1>2. i = 0 => fit = {}
  BY <1>1 DEF Chosen
<1>3. i # 0 => i \in fit /\ \A j \in fit : j <= i
  BY <1>1 DEF Chosen
<1>4. i # 0 => (CHOOSE m \in fit : \A j \in fit : j <= m) = i
  <2> SUFFICES ASSUME i # 0 PROVE (CHOOSE m \in fit : \A j \in fit : j <= m) = i
    OBVIOUS
  <2>1. \A m \in fit : (\A j \in fit : j <= m) => m = i
    <3>1. fit \subseteq Nat
      BY <1>1
    <3> QED BY <1>3, <3>1
  <2>2. \E m \in fit : \A j \in fit : j <= m
    BY <1>3
  <2>3. PICK l : l = CHOOSE m \in fit : \A j \in fit : j <= m
    OBVIOUS
  <2>4. l \in fit /\ \A j \in fit : j <= l
    BY <2>2, <2>3
  <2> QED BY <2>1, <2>3, <2>4
<1>5. Http!Latest(a) = IF fit = {} \/ a \in OwnActions THEN "none"
                       ELSE action_handlers[CHOOSE m \in fit : \A j \in fit : j <= m]
  BY DEF Http!Latest, Http!NoHandler
<1> HIDE DEF fit
<1> QED BY <1>2, <1>3, <1>4, <1>5

(* RegisterHandler numbers all actions again. *)
LEMMA RegisterStep ==
  ASSUME HttpInv, NEW hs \in Seq(Handlers), Http!Register(hs)
  PROVE  HttpInv'
<1>1. /\ ~serving /\ action_handlers' = action_handlers \o hs
      /\ UNCHANGED <<serving, httpRequestId, status, at, action, answered_by, holding, panicked>>
      /\ actionToHandlerNum' =
           [a \in Actions |-> Http!SelectLastInSeq(action_handlers', LAMBDA h : a \in GetActions[h])]
  BY DEF Http!Register
<1>2. action_handlers' \in Seq(Handlers)
  BY <1>1, ConcatProperties DEF HttpInv, HttpTypes
<1>3. PICK n \in Nat : n = Len(action_handlers')
  BY <1>2, SeqFacts
<1>4. ASSUME NEW a \in Actions
      PROVE  actionToHandlerNum'[a] \in 0 .. n /\ Chosen(action_handlers', a, actionToHandlerNum'[a])
  <2> DEFINE I == {j \in 1 .. Len(action_handlers') : a \in GetActions[action_handlers'[j]]}
             i == IF I # {} THEN Http!Max(I) ELSE 0
  <2>1. actionToHandlerNum'[a] = i
    BY <1>1 DEF Http!SelectLastInSeq
  <2>2. I # {} => Http!Max(I) \in I /\ \A j \in I : j <= Http!Max(I)
    <3>1. I \subseteq 1 .. n
      BY <1>3
    <3> QED BY <3>1, MaxIs
  <2>3. i \in 0 .. n /\ (i = 0 => I = {}) /\ (i # 0 => i \in I /\ \A j \in I : j <= i)
    BY <1>3, <2>2
  <2>4. Chosen(action_handlers', a, i)
    BY <2>3 DEF Chosen
  <2> QED BY <2>1, <2>3, <2>4
<1>5. \A r \in Requests : RequestRight(r)'
  <2>1. \A r \in Requests : at[r] = "new" /\ RequestRight(r)
    BY <1>1 DEF HttpInv, RequestRight
  <2> QED BY <1>1, <2>1 DEF RequestRight, Answering
<1>6. actionToHandlerNum' \in [Actions -> 0 .. Len(action_handlers')]
  BY <1>1, <1>3, <1>4
<1>7. HttpTypes'
  BY <1>1, <1>2, <1>6 DEF HttpInv, HttpTypes, Requests
<1> QED BY <1>4, <1>5, <1>7 DEF HttpInv, Requests

(* A step of one request leaves the others, and the registrations, alone.   *)
Touches(r) ==
  /\ UNCHANGED <<action_handlers, actionToHandlerNum, serving, httpRequestId, action>>
  /\ status' \in [Requests -> Marks] /\ at' \in [Requests -> Places]
  /\ answered_by' \in [Requests -> Handlers \cup {"none"}]
  /\ holding' \in [Requests -> BOOLEAN] /\ panicked' \in [Requests -> BOOLEAN]
  /\ \A d \in Requests \ {r} :
       /\ status'[d] = status[d] /\ at'[d] = at[d] /\ answered_by'[d] = answered_by[d]
       /\ holding'[d] = holding[d] /\ panicked'[d] = panicked[d]

LEMMA TouchesFacts ==
  ASSUME HttpInv, NEW r \in Requests,
         UNCHANGED <<action_handlers, actionToHandlerNum, serving, httpRequestId, action>>,
         NEW s \in Marks, NEW p \in Places, NEW g \in Handlers \cup {"none"},
         NEW h \in BOOLEAN, NEW x \in BOOLEAN,
         status' = status \/ status' = [status EXCEPT ![r] = s],
         at' = [at EXCEPT ![r] = p],
         answered_by' = answered_by \/ answered_by' = [answered_by EXCEPT ![r] = g],
         holding' = holding \/ holding' = [holding EXCEPT ![r] = h],
         panicked' = panicked \/ panicked' = [panicked EXCEPT ![r] = x]
  PROVE  Touches(r) /\ at'[r] = p
BY DEF HttpInv, HttpTypes, Touches

LEMMA OneStep ==
  ASSUME HttpInv, NEW r \in Requests, Touches(r), RequestRight(r)'
  PROVE  HttpInv'
<1>1. \A a : Http!Latest(a)' = Http!Latest(a)
  BY DEF Touches, Http!Latest
<1>2. \A d \in Requests \ {r} : RequestRight(d)'
  BY <1>1 DEF Touches, HttpInv, RequestRight
<1>3. \A d \in Requests : RequestRight(d)'
  BY <1>2
<1>4. HttpTypes'
  BY DEF Touches, HttpInv, HttpTypes, Requests
<1>5. \A a \in Actions : Chosen(action_handlers', a, actionToHandlerNum'[a])
  BY DEF Touches, HttpInv
<1> QED BY <1>3, <1>4, <1>5 DEF HttpInv

(* What is right of a request that the step touches; Latest stays.          *)
LEMMA RightAfter ==
  ASSUME HttpInv, NEW r \in Requests, Touches(r), at[r] # "new", at'[r] # "new",
         at'[r] \in Answering => answered_by'[r] = Http!Latest(action[r]),
         status'[r] = Shown(at'[r], panicked'[r]),
         panicked'[r] => at'[r] = "over",
         holding'[r] => at'[r] \in Answering \/ panicked'[r]
  PROVE  HttpInv'
<1>1. Http!Latest(action[r])' = Http!Latest(action[r])
  BY DEF Touches, Http!Latest
<1>2. RequestRight(r)
  BY DEF HttpInv
<1>3. RequestRight(r)'
  BY <1>1, <1>2 DEF RequestRight, Touches
<1> QED BY <1>3, OneStep

LEMMA RequestFacts ==
  ASSUME HttpInv, NEW r \in Requests
  PROVE  /\ at[r] \in Places /\ status[r] \in Marks /\ action[r] \in Actions
         /\ answered_by[r] \in Handlers \cup {"none"}
         /\ holding[r] \in BOOLEAN /\ panicked[r] \in BOOLEAN
         /\ at[r] \in Answering => answered_by[r] = Http!Latest(action[r])
         /\ status[r] = Shown(at[r], panicked[r])
         /\ panicked[r] => at[r] = "over"
         /\ holding[r] => at[r] \in Answering \/ panicked[r]
         /\ status \in [Requests -> Marks] /\ at \in [Requests -> Places]
         /\ answered_by \in [Requests -> Handlers \cup {"none"}]
         /\ holding \in [Requests -> BOOLEAN] /\ panicked \in [Requests -> BOOLEAN]
<1>1. HttpTypes /\ RequestRight(r)
  BY DEF HttpInv
<1> QED BY <1>1 DEF HttpTypes, RequestRight

Kept == UNCHANGED <<action_handlers, actionToHandlerNum, serving, httpRequestId, action>>

LEMMA PluginsStep ==
  ASSUME HttpInv, NEW r \in Requests, NEW handled \in BOOLEAN, Http!Plugins(r, handled)
  PROVE  HttpInv'
<1>1. PICK p \in {"plugin answered", "handler"} :
        at[r] = "plugins" /\ at' = [at EXCEPT ![r] = p]
  BY DEF Http!Plugins, Http!Goto
<1>2. Kept /\ UNCHANGED <<status, answered_by, holding, panicked>>
  BY DEF Http!Plugins, Http!setup, Kept
<1>3. Touches(r) /\ at'[r] = p
  BY <1>1, <1>2, TouchesFacts DEF Kept, Places, Marks
<1>4. ~panicked[r] /\ ~holding[r] /\ status[r] = "R"
  BY <1>1, RequestFacts DEF Answering, Shown
<1> QED BY <1>1, <1>2, <1>3, <1>4, RightAfter DEF Answering, Shown

LEMMA FinishPluginStep ==
  ASSUME HttpInv, NEW r \in Requests, Http!FinishPlugin(r)
  PROVE  HttpInv'
<1>1. at[r] = "plugin answered" /\ at' = [at EXCEPT ![r] = "sleep"] /\ status' = [status EXCEPT ![r] = "F"]
  BY DEF Http!FinishPlugin, Http!Goto, Http!Show
<1>2. Kept /\ UNCHANGED <<answered_by, holding, panicked>>
  BY DEF Http!FinishPlugin, Http!setup, Kept
<1>3. Touches(r) /\ at'[r] = "sleep" /\ status'[r] = "F"
  BY <1>1, <1>2, TouchesFacts, RequestFacts DEF Kept, Places, Marks
<1>4. ~panicked[r] /\ ~holding[r]
  BY <1>1, RequestFacts DEF Answering
<1> QED BY <1>1, <1>2, <1>3, <1>4, RightAfter DEF Answering, Shown

(* handleRequest: the handler it is given to is the last one registered.    *)
LEMMA HandleRequestStep ==
  ASSUME HttpInv, NEW r \in Requests, NEW allocate \in BOOLEAN, Http!HandleRequest(r, allocate)
  PROVE  HttpInv'
<1> DEFINE i == IF action[r] \in OwnActions THEN 0 ELSE actionToHandlerNum[action[r]]
<1>1. /\ at[r] = "handler" /\ at' = [at EXCEPT ![r] = IF i = 0 THEN "respond" ELSE "in handler"]
      /\ answered_by' = [answered_by EXCEPT ![r] = IF i = 0 THEN "none" ELSE action_handlers[i]]
      /\ holding' = [holding EXCEPT ![r] = allocate /\ i # 0]
      /\ Kept /\ UNCHANGED <<status, panicked>>
  BY DEF Http!HandleRequest, Http!Goto, Http!NoHandler, Http!setup, Kept
<1>2. /\ action[r] \in Actions /\ action_handlers \in Seq(Handlers)
      /\ actionToHandlerNum[action[r]] \in 0 .. Len(action_handlers)
      /\ Chosen(action_handlers, action[r], actionToHandlerNum[action[r]])
  BY DEF HttpInv, HttpTypes
<1>3. Http!Latest(action[r]) = IF action[r] \in OwnActions \/ actionToHandlerNum[action[r]] = 0 THEN "none"
                               ELSE action_handlers[actionToHandlerNum[action[r]]]
  BY <1>2, LatestIs
<1>4. PICK g : g = IF i = 0 THEN "none" ELSE action_handlers[i]
  OBVIOUS
<1>5. g = Http!Latest(action[r])
  BY <1>3, <1>4
<1>6. g \in Handlers \cup {"none"}
  <2>1. i # 0 => i \in 1 .. Len(action_handlers)
    BY <1>2, SeqFacts
  <2> QED BY <1>2, <1>4, <2>1, SeqFacts
<1>7. PICK p \in {"respond", "in handler"} : p = IF i = 0 THEN "respond" ELSE "in handler"
  OBVIOUS
<1>8. PICK h \in BOOLEAN : h = (allocate /\ i # 0)
  OBVIOUS
<1> HIDE DEF i
<1>9. /\ at' = [at EXCEPT ![r] = p] /\ answered_by' = [answered_by EXCEPT ![r] = g]
      /\ holding' = [holding EXCEPT ![r] = h]
  BY <1>1, <1>4, <1>7, <1>8
<1>10. Touches(r) /\ at'[r] = p
  BY <1>1, <1>6, <1>9, TouchesFacts DEF Kept, Places, Marks
<1>11. answered_by'[r] = g
  BY <1>9, RequestFacts
<1>12. ~panicked[r] /\ status[r] = "R"
  BY <1>1, RequestFacts DEF Shown
<1> QED BY <1>1, <1>5, <1>10, <1>11, <1>12, RightAfter DEF Answering, Shown

LEMMA HandlerReturnsStep ==
  ASSUME HttpInv, NEW r \in Requests, Http!HandlerReturns(r)
  PROVE  HttpInv'
<1>1. at[r] = "in handler" /\ at' = [at EXCEPT ![r] = "respond"]
  BY DEF Http!HandlerReturns, Http!Goto
<1>2. Kept /\ UNCHANGED <<status, answered_by, holding, panicked>>
  BY DEF Http!HandlerReturns, Http!setup, Kept
<1>3. Touches(r) /\ at'[r] = "respond"
  BY <1>1, <1>2, TouchesFacts DEF Kept, Places, Marks
<1>4. ~panicked[r] /\ status[r] = "R" /\ answered_by[r] = Http!Latest(action[r])
  BY <1>1, RequestFacts DEF Answering, Shown
<1> QED BY <1>1, <1>2, <1>3, <1>4, RightAfter DEF Answering, Shown

(* What a panic leaves behind stays shown as running.                       *)
LEMMA PanicStep ==
  ASSUME HttpInv, NEW r \in Requests, Http!Panic(r)
  PROVE  HttpInv'
<1>1. /\ at[r] \in {"plugins", "handler", "in handler"} /\ at' = [at EXCEPT ![r] = "over"]
      /\ panicked' = [panicked EXCEPT ![r] = TRUE]
  BY DEF Http!Panic, Http!Goto
<1>2. Kept /\ UNCHANGED <<status, answered_by, holding>>
  BY DEF Http!Panic, Http!setup, Kept
<1>3. Touches(r) /\ at'[r] = "over"
  BY <1>1, <1>2, TouchesFacts DEF Kept, Places, Marks
<1>4. panicked'[r] = TRUE
  BY <1>1, RequestFacts
<1>5. status'[r] = "R"
  BY <1>1, <1>2, RequestFacts DEF Shown
<1> QED BY <1>1, <1>3, <1>4, <1>5, RightAfter DEF Answering, Shown

LEMMA WriteStep ==
  ASSUME HttpInv, NEW r \in Requests, Http!BeginWrite(r) \/ Http!EndWrite(r)
  PROVE  HttpInv'
<1>1. PICK p \in {"write", "cleanup"}, s \in {"W", "F"} :
        /\ at[r] \in {"respond", "write"} /\ at' = [at EXCEPT ![r] = p] /\ status' = [status EXCEPT ![r] = s]
        /\ s = Shown(p, FALSE)
  BY DEF Http!BeginWrite, Http!EndWrite, Http!Goto, Http!Show, Shown
<1>2. Kept /\ UNCHANGED <<answered_by, holding, panicked>>
  BY DEF Http!BeginWrite, Http!EndWrite, Http!setup, Kept
<1>3. Touches(r) /\ at'[r] = p /\ status'[r] = s
  BY <1>1, <1>2, TouchesFacts, RequestFacts DEF Kept, Places, Marks
<1>4. ~panicked[r] /\ answered_by[r] = Http!Latest(action[r])
  BY <1>1, RequestFacts DEF Answering
<1> QED BY <1>1, <1>2, <1>3, <1>4, RightAfter DEF Answering, Shown

LEMMA CleanupStep ==
  ASSUME HttpInv, NEW r \in Requests, Http!Cleanup(r)
  PROVE  HttpInv'
<1>1. /\ at[r] = "cleanup" /\ at' = [at EXCEPT ![r] = "sleep"]
      /\ holding' = [holding EXCEPT ![r] = FALSE]
  BY DEF Http!Cleanup, Http!Goto
<1>2. Kept /\ UNCHANGED <<status, answered_by, panicked>>
  BY DEF Http!Cleanup, Http!setup, Kept
<1>3. Touches(r) /\ at'[r] = "sleep"
  BY <1>1, <1>2, TouchesFacts DEF Kept, Places, Marks
<1>4. holding'[r] = FALSE
  BY <1>1, RequestFacts
<1>5. ~panicked[r] /\ status[r] = "F"
  BY <1>1, RequestFacts DEF Shown
<1> QED BY <1>1, <1>2, <1>3, <1>4, <1>5, RightAfter DEF Answering, Shown

LEMMA DeleteStep ==
  ASSUME HttpInv, NEW r \in Requests, Http!Delete(r)
  PROVE  HttpInv'
<1>1. at[r] = "sleep" /\ at' = [at EXCEPT ![r] = "over"] /\ status' = [status EXCEPT ![r] = "-"]
  BY DEF Http!Delete, Http!Goto, Http!Show
<1>2. Kept /\ UNCHANGED <<answered_by, holding, panicked>>
  BY DEF Http!Delete, Http!setup, Kept
<1>3. Touches(r) /\ at'[r] = "over" /\ status'[r] = "-"
  BY <1>1, <1>2, TouchesFacts, RequestFacts DEF Kept, Places, Marks
<1>4. ~panicked[r] /\ ~holding[r]
  BY <1>1, RequestFacts DEF Answering
<1> QED BY <1>1, <1>2, <1>3, <1>4, RightAfter DEF Answering, Shown

LEMMA StartServerStep ==
  ASSUME HttpInv, Http!StartServer
  PROVE  HttpInv'
<1>1. /\ serving' = TRUE
      /\ UNCHANGED <<action_handlers, actionToHandlerNum, httpRequestId, status, at, action,
                     answered_by, holding, panicked>>
  BY DEF Http!StartServer
<1>2. \A a : Http!Latest(a)' = Http!Latest(a)
  BY <1>1 DEF Http!Latest
<1>3. \A r \in Requests : RequestRight(r)'
  BY <1>1, <1>2 DEF HttpInv, RequestRight
<1>4. HttpTypes'
  BY <1>1 DEF HttpInv, HttpTypes, Requests
<1>5. \A a \in Actions : Chosen(action_handlers', a, actionToHandlerNum'[a])
  BY <1>1 DEF HttpInv
<1> QED BY <1>3, <1>4, <1>5 DEF HttpInv, Requests

(* The new request is the first of those that have not begun.               *)
LEMMA BeginStep ==
  ASSUME HttpInv, Http!Begin
  PROVE  HttpInv'
<1>1. PICK r : r = httpRequestId + 1
  OBVIOUS
<1>2. /\ serving /\ httpRequestId < MaxRequests /\ httpRequestId' = r
      /\ at[r] = "new" /\ at' = [at EXCEPT ![r] = "plugins"] /\ status' = [status EXCEPT ![r] = "R"]
      /\ UNCHANGED <<action_handlers, actionToHandlerNum, serving, action, answered_by, holding, panicked>>
  BY <1>1 DEF Http!Begin, Http!Goto, Http!Show, Http!setup
<1>3. httpRequestId \in 0 .. MaxRequests /\ MaxRequests \in Nat
  BY HttpConstants DEF HttpInv, HttpTypes
<1>4. r \in Requests /\ httpRequestId' \in 0 .. MaxRequests
  BY <1>1, <1>2, <1>3, HttpConstants
<1>5. /\ at' \in [Requests -> Places] /\ status' \in [Requests -> Marks]
      /\ at'[r] = "plugins" /\ status'[r] = "R"
      /\ \A d \in Requests \ {r} : at'[d] = at[d] /\ status'[d] = status[d]
  BY <1>2, <1>4, RequestFacts DEF Places, Marks
<1>6. \A a : Http!Latest(a)' = Http!Latest(a)
  BY <1>2 DEF Http!Latest
<1>7. \A d \in Requests \ {r} : httpRequestId < d <=> httpRequestId' < d
  BY <1>1, <1>2, <1>3, HttpConstants
<1>8. \A d \in Requests \ {r} : RequestRight(d)'
  BY <1>2, <1>5, <1>6, <1>7 DEF HttpInv, RequestRight
<1>9. RequestRight(r)'
  <2>1. ~panicked[r] /\ ~holding[r]
    BY <1>2, <1>4, RequestFacts DEF Answering
  <2>2. ~(httpRequestId' < r)
    BY <1>1, <1>2, <1>3
  <2> QED BY <1>2, <1>5, <2>1, <2>2 DEF RequestRight, Answering, Shown
<1>10. \A d \in Requests : RequestRight(d)'
  BY <1>8, <1>9
<1>11. HttpTypes'
  BY <1>2, <1>4, <1>5 DEF HttpInv, HttpTypes, Requests
<1>12. \A a \in Actions : Chosen(action_handlers', a, actionToHandlerNum'[a])
  BY <1>2 DEF HttpInv
<1> QED BY <1>10, <1>11, <1>12 DEF HttpInv, Requests

LEMMA HttpStep == ASSUME HttpInv, Http!Next PROVE HttpInv'
<1>1. CASE \E h \in Handlers : Http!Register(<<h>>)
  <2>1. \A h \in Handlers : <<h>> \in Seq(Handlers)
    OBVIOUS
  <2> QED BY <1>1, <2>1, RegisterStep
<1>2. CASE \E h, g \in Handlers : Http!Register(<<h, g>>)
  <2>1. \A h, g \in Handlers : <<h, g>> \in Seq(Handlers)
    OBVIOUS
  <2> QED BY <1>2, <2>1, RegisterStep
<1>3. CASE Http!StartServer
  BY <1>3, StartServerStep
<1>4. CASE Http!Begin
  BY <1>4, BeginStep
<1>5. ASSUME NEW r \in Requests,
             \/ \E handled \in BOOLEAN : Http!Plugins(r, handled)
             \/ \E allocate \in BOOLEAN : Http!HandleRequest(r, allocate)
             \/ Http!HandlerReturns(r)
             \/ Http!Panic(r)
             \/ Http!Proceed(r)
      PROVE  HttpInv'
  BY <1>5, PluginsStep, HandleRequestStep, HandlerReturnsStep, PanicStep, FinishPluginStep,
     WriteStep, CleanupStep, DeleteStep DEF Http!Proceed
<1> QED BY <1>1, <1>2, <1>3, <1>4, <1>5 DEF Http!Next, Requests

LEMMA HttpStart == ASSUME Http!Init PROVE HttpInv
<1>1. /\ action_handlers = <<>> /\ serving = FALSE /\ httpRequestId = 0
      /\ actionToHandlerNum = [a \in Actions |-> 0]
      /\ status = [r \in Requests |-> "-"] /\ at = [r \in Requests |-> "new"]
      /\ action \in [Requests -> Actions] /\ answered_by = [r \in Requests |-> "none"]
      /\ holding = [r \in Requests |-> FALSE] /\ panicked = [r \in Requests |-> FALSE]
  BY DEF Http!Init, Requests, Http!NoHandler
<1>2. action_handlers \in Seq(Handlers) /\ Len(action_handlers) = 0
  BY <1>1
<1>3. HttpTypes
  <2>1. 0 \in 0 .. MaxRequests /\ 0 \in 0 .. Len(action_handlers)
    BY <1>2, HttpConstants
  <2>2. actionToHandlerNum \in [Actions -> 0 .. Len(action_handlers)]
    BY <1>1, <2>1
  <2>3. /\ status \in [Requests -> Marks] /\ at \in [Requests -> Places]
        /\ answered_by \in [Requests -> Handlers \cup {"none"}]
        /\ holding \in [Requests -> BOOLEAN] /\ panicked \in [Requests -> BOOLEAN]
    BY <1>1 DEF Marks, Places
  <2> QED BY <1>1, <1>2, <2>1, <2>2, <2>3 DEF HttpTypes
<1>4. \A a \in Actions : Chosen(action_handlers, a, actionToHandlerNum[a])
  BY <1>1, <1>2 DEF Chosen
<1>5. ASSUME NEW r \in Requests PROVE RequestRight(r)
  <2>1. r \in Nat /\ 0 < r
    BY HttpConstants
  <2> QED BY <1>1, <2>1 DEF RequestRight, Answering, Shown
<1> QED BY <1>3, <1>4, <1>5 DEF HttpInv

LEMMA HttpHolds ==
  ASSUME HttpInv
  PROVE  Http!TypeOK /\ Http!RequestsListed
<1>1. Http!TypeOK
  BY DEF HttpInv, HttpTypes, Http!TypeOK, Requests, Places, Marks, Http!NoHandler
<1>2. Http!DispatchedToLatest
  BY DEF HttpInv, RequestRight, Http!DispatchedToLatest, Requests, Answering
<1>3. ASSUME NEW r \in Requests
      PROVE  /\ holding[r] \/ at[r] \notin {"new", "over"} => status[r] # "-"
             /\ at[r] = "over" => /\ status[r] # "-" <=> panicked[r]
                                  /\ holding[r] => panicked[r] /\ status[r] = "R"
  BY RequestFacts DEF Answering, Shown, Places
<1>4. Http!ListExact
  BY <1>3 DEF Http!ListExact, Requests
<1> QED BY <1>1, <1>2, <1>4 DEF Http!RequestsListed

-----------------------------------------------------------------------------
(* A set of numbers that has 0, and with each number the next, has all. *)
LEMMA AllNumbers ==
  ASSUME NEW T, 0 \in T, \A n \in Nat : n \in T => n + 1 \in T
  PROVE  Nat \subseteq T
<1> SUFFICES ASSUME Nat \ T # {} PROVE FALSE
  OBVIOUS
<1>1. PICK m \in Nat \ T : \A n \in Nat \ T : m <= n
  BY NatMinimum
<1>2. m - 1 \in Nat /\ ~(m <= m - 1) /\ (m - 1) + 1 = m
  BY <1>1
<1> QED BY <1>1, <1>2

-----------------------------------------------------------------------------
(* Sums: as many pairs as the numbers say. *)

Row(f, x)  == {x} \X (1 .. f[x])
Pile(f, s) == UNION {Row(f, x) : x \in s}

(* The numbers f are added up in the order in which CHOOSE takes them.      *)
Adds(g, f, S) ==
  g = [s \in SUBSET S |-> IF s = {} THEN 0
                          ELSE f[CHOOSE x \in s : TRUE] + g[s \ {CHOOSE x \in s : TRUE}]]

LEMMA RowCount ==
  ASSUME NEW f, NEW x, f[x] \in Nat
  PROVE  IsFiniteSet(Row(f, x)) /\ Cardinality(Row(f, x)) = f[x]
<1>1. IsFiniteSet({x}) /\ Cardinality({x}) = 1
  BY FS_Singleton
<1>2. IsFiniteSet(1 .. f[x]) /\ Cardinality(1 .. f[x]) = f[x]
  BY FS_Interval
<1> DEFINE S == {x}
           T == 1 .. f[x]
<1> HIDE DEF S, T
<1>3. IsFiniteSet(S \X T) /\ Cardinality(S \X T) = Cardinality(S) * Cardinality(T)
  BY <1>1, <1>2, FS_Product DEF S, T
<1>4. Cardinality(S) * Cardinality(T) = f[x]
  BY <1>1, <1>2 DEF S, T
<1> QED BY <1>3, <1>4 DEF S, T, Row

LEMMA PileCut ==
  ASSUME NEW f, NEW s, NEW x \in s, f[x] \in Nat, IsFiniteSet(Pile(f, s \ {x}))
  PROVE  /\ IsFiniteSet(Pile(f, s))
         /\ Cardinality(Pile(f, s)) = f[x] + Cardinality(Pile(f, s \ {x}))
<1> DEFINE R == Row(f, x)
           P == Pile(f, s \ {x})
<1>1. Pile(f, s) = R \cup P
  BY DEF Pile
<1>2. R \cap P = {}
  BY DEF Pile, Row
<1>3. IsFiniteSet(R) /\ Cardinality(R) = f[x]
  BY RowCount
<1> HIDE DEF R, P
<1>4. IsFiniteSet(P)
  BY DEF P
<1>5. /\ IsFiniteSet(R \cup P)
      /\ Cardinality(R \cup P) = Cardinality(R) + Cardinality(P) - Cardinality(R \cap P)
  BY <1>3, <1>4, FS_Union
<1>6. Cardinality(R \cap P) = 0 /\ Cardinality(P) \in Nat
  BY <1>2, <1>4, FS_EmptySet, FS_CardinalityType
<1>7. Cardinality(R \cup P) = f[x] + Cardinality(P)
  BY <1>3, <1>5, <1>6
<1> QED BY <1>1, <1>5, <1>7 DEF P

LEMMA PileFinite ==
  ASSUME NEW s, IsFiniteSet(s), NEW f, \A x \in s : f[x] \in Nat
  PROVE  IsFiniteSet(Pile(f, s)) /\ Cardinality(Pile(f, s)) \in Nat
<1> DEFINE T == {n \in Nat : \A u \in SUBSET s : Cardinality(u) = n => IsFiniteSet(Pile(f, u))}
<1>1. 0 \in T
  <2>1. ASSUME NEW u \in SUBSET s, Cardinality(u) = 0 PROVE IsFiniteSet(Pile(f, u))
    <3>1. u = {}
      BY <2>1, FS_Subset, FS_EmptySet
    <3>2. Pile(f, u) = {}
      BY <3>1 DEF Pile
    <3> QED BY <3>2, FS_EmptySet
  <2> QED BY <2>1
<1>2. ASSUME NEW n \in Nat, n \in T PROVE n + 1 \in T
  <2>1. ASSUME NEW u \in SUBSET s, Cardinality(u) = n + 1 PROVE IsFiniteSet(Pile(f, u))
    <3>1. IsFiniteSet(u) /\ u # {}
      <4>1. n + 1 # 0
        OBVIOUS
      <4> QED BY <2>1, <4>1, FS_Subset, FS_EmptySet
    <3>2. PICK x \in u : TRUE
      BY <3>1
    <3>3. Cardinality(u \ {x}) = n
      <4>1. Cardinality(u \ {x}) = Cardinality(u) - 1
        BY <3>1, <3>2, FS_RemoveElement
      <4> QED BY <2>1, <4>1
    <3>4. IsFiniteSet(Pile(f, u \ {x}))
      BY <1>2, <3>3
    <3> QED BY <3>2, <3>4, PileCut
  <2> QED BY <2>1
<1>3. Nat \subseteq T
  BY <1>1, <1>2, AllNumbers
<1>4. Cardinality(s) \in Nat
  BY FS_CardinalityType
<1>5. IsFiniteSet(Pile(f, s))
  BY <1>3, <1>4
<1> QED BY <1>5, FS_CardinalityType

LEMMA AddsExists ==
  ASSUME NEW S, IsFiniteSet(S), NEW f, \A x \in S : f[x] \in Nat
  PROVE  \E g : Adds(g, f, S)
<1> DEFINE g == [s \in SUBSET S |-> Cardinality(Pile(f, s))]
<1>1. ASSUME NEW s \in SUBSET S, s # {}
      PROVE  g[s] = f[CHOOSE x \in s : TRUE] + g[s \ {CHOOSE x \in s : TRUE}]
  <2>1. PICK x \in s : x = CHOOSE y \in s : TRUE
    BY <1>1
  <2>2. IsFiniteSet(s \ {x}) /\ s \ {x} \in SUBSET S
    BY FS_Subset
  <2>3. IsFiniteSet(Pile(f, s \ {x}))
    BY <2>2, PileFinite
  <2>4. Cardinality(Pile(f, s)) = f[x] + Cardinality(Pile(f, s \ {x}))
    <3>1. x \in s /\ f[x] \in Nat
      BY <2>1
    <3> QED BY <2>3, <3>1, PileCut
  <2> QED BY <2>1, <2>2, <2>4
<1>2. \A s \in SUBSET S : s = {} => g[s] = 0
  <2>1. Pile(f, {}) = {}
    BY DEF Pile
  <2> QED BY <2>1, FS_EmptySet
<1>3. g = [s \in SUBSET S |-> g[s]]
  OBVIOUS
<1> HIDE DEF g
<1>4. Adds(g, f, S)
  BY <1>1, <1>2, <1>3, Zenon DEF Adds
<1> QED BY <1>4

LEMMA AddsIs ==
  ASSUME NEW S, IsFiniteSet(S), NEW f, \A x \in S : f[x] \in Nat, NEW g, Adds(g, f, S)
  PROVE  g[S] = Cardinality(Pile(f, S))
<1> DEFINE T == {n \in Nat : \A s \in SUBSET S : Cardinality(s) = n => g[s] = Cardinality(Pile(f, s))}
<1>0. \A s \in SUBSET S : g[s] = IF s = {} THEN 0
                                 ELSE f[CHOOSE x \in s : TRUE] + g[s \ {CHOOSE x \in s : TRUE}]
  BY Zenon DEF Adds
<1>1. 0 \in T
  <2>1. ASSUME NEW s \in SUBSET S, Cardinality(s) = 0 PROVE g[s] = Cardinality(Pile(f, s))
    <3>1. s = {}
      BY <2>1, FS_Subset, FS_EmptySet
    <3>2. Pile(f, s) = {}
      BY <3>1 DEF Pile
    <3> QED BY <1>0, <3>1, <3>2, FS_EmptySet
  <2> QED BY <2>1
<1>2. ASSUME NEW n \in Nat, n \in T PROVE n + 1 \in T
  <2>1. ASSUME NEW s \in SUBSET S, Cardinality(s) = n + 1 PROVE g[s] = Cardinality(Pile(f, s))
    <3>1. IsFiniteSet(s) /\ s # {}
      <4>1. n + 1 # 0
        OBVIOUS
      <4> QED BY <2>1, <4>1, FS_Subset, FS_EmptySet
    <3>2. PICK x \in s : x = CHOOSE y \in s : TRUE
      BY <3>1
    <3>3. IsFiniteSet(s \ {x}) /\ s \ {x} \in SUBSET S /\ Cardinality(s \ {x}) = n
      <4>1. Cardinality(s \ {x}) = Cardinality(s) - 1 /\ IsFiniteSet(s \ {x})
        BY <3>1, <3>2, FS_RemoveElement
      <4> QED BY <2>1, <4>1
    <3>4. g[s \ {x}] = Cardinality(Pile(f, s \ {x}))
      BY <1>2, <3>3
    <3>5. Cardinality(Pile(f, s)) = f[x] + Cardinality(Pile(f, s \ {x}))
      <4>1. IsFiniteSet(Pile(f, s \ {x}))
        BY <3>3, PileFinite
      <4>2. x \in s /\ f[x] \in Nat
        BY <3>2
      <4> QED BY <4>1, <4>2, PileCut
    <3>6. g[s] = f[x] + g[s \ {x}]
      BY <1>0, <3>1, <3>2
    <3> QED BY <3>4, <3>5, <3>6
  <2> QED BY <2>1
<1>3. Nat \subseteq T
  BY <1>1, <1>2, AllNumbers
<1>4. Cardinality(S) \in Nat
  BY FS_CardinalityType
<1> QED BY <1>3, <1>4

LEMMA PileSame ==
  ASSUME NEW s, NEW f, NEW g, \A x \in s : f[x] = g[x]
  PROVE  Pile(f, s) = Pile(g, s)
BY DEF Pile, Row

LEMMA PileDrop ==
  ASSUME NEW s, NEW u, u \subseteq s, NEW f, \A x \in s \ u : f[x] = 0
  PROVE  Pile(f, s) = Pile(f, u)
<1>1. \A x \in s \ u : Row(f, x) = {}
  BY DEF Row
<1> QED BY <1>1 DEF Pile

LEMMA PileLeq ==
  ASSUME NEW s, IsFiniteSet(s), NEW u, u \subseteq s, NEW f, NEW g,
         \A x \in s : g[x] \in Nat, \A x \in u : f[x] \in Nat /\ f[x] <= g[x]
  PROVE  Cardinality(Pile(f, u)) <= Cardinality(Pile(g, s))
<1>1. Pile(f, u) \subseteq Pile(g, s)
  <2>1. \A x \in u : Row(f, x) \subseteq Row(g, x)
    BY DEF Row
  <2> QED BY <2>1 DEF Pile
<1>2. IsFiniteSet(Pile(g, s))
  BY PileFinite
<1> QED BY <1>1, <1>2, FS_Subset

LEMMA PileOne ==
  ASSUME NEW s, IsFiniteSet(s), NEW f, \A x \in s : f[x] \in Nat, NEW x \in s
  PROVE  f[x] <= Cardinality(Pile(f, s))
<1>1. IsFiniteSet(s \ {x})
  BY FS_Subset
<1>2. /\ IsFiniteSet(Pile(f, s \ {x})) /\ Cardinality(Pile(f, s \ {x})) \in Nat
  BY <1>1, PileFinite
<1>3. IsFiniteSet(Pile(f, s \ {x})) /\ f[x] \in Nat
  BY <1>2
<1>4. Cardinality(Pile(f, s)) = f[x] + Cardinality(Pile(f, s \ {x}))
  BY <1>3, PileCut
<1> QED BY <1>2, <1>3, <1>4

LEMMA PileMore ==
  ASSUME NEW s, IsFiniteSet(s), NEW f, \A x \in s : f[x] \in Nat, NEW y \in s, NEW d \in Nat,
         NEW g, g[y] = f[y] + d, \A x \in s \ {y} : g[x] = f[x]
  PROVE  Cardinality(Pile(g, s)) = Cardinality(Pile(f, s)) + d
<1>1. IsFiniteSet(s \ {y})
  BY FS_Subset
<1>2. /\ IsFiniteSet(Pile(f, s \ {y})) /\ Cardinality(Pile(f, s \ {y})) \in Nat
  BY <1>1, PileFinite
<1>3. f[y] \in Nat /\ g[y] \in Nat
  OBVIOUS
<1>4. IsFiniteSet(Pile(f, s \ {y}))
  BY <1>2
<1>5. Cardinality(Pile(f, s)) = f[y] + Cardinality(Pile(f, s \ {y}))
  BY <1>3, <1>4, PileCut
<1>6. Pile(g, s \ {y}) = Pile(f, s \ {y})
  BY PileSame
<1>7. IsFiniteSet(Pile(g, s \ {y}))
  BY <1>4, <1>6
<1>8. Cardinality(Pile(g, s)) = g[y] + Cardinality(Pile(g, s \ {y}))
  <2>1. ASSUME NEW h, h[y] \in Nat, IsFiniteSet(Pile(h, s \ {y}))
        PROVE  Cardinality(Pile(h, s)) = h[y] + Cardinality(Pile(h, s \ {y}))
    BY <2>1, PileCut
  <2> QED BY <1>3, <1>7, <2>1, Zenon
<1> QED BY <1>2, <1>3, <1>5, <1>6, <1>8

(* The same numbers, counted from the other end. *)
LEMMA PileTurned ==
  ASSUME NEW n \in Nat, NEW a \in Int, NEW f, NEW h,
         \A i \in 1 .. n : h[i] \in Nat /\ h[i] = f[a - i]
  PROVE  Cardinality(Pile(h, 1 .. n)) = Cardinality(Pile(f, a - n .. a - 1))
<1>0. ASSUME NEW w, NEW s, NEW x \in s, w[x] \in Nat, IsFiniteSet(Pile(w, s \ {x}))
      PROVE  Cardinality(Pile(w, s)) = w[x] + Cardinality(Pile(w, s \ {x}))
  BY <1>0, PileCut
<1> DEFINE T == {m \in Nat : m <= n => Cardinality(Pile(h, 1 .. m)) = Cardinality(Pile(f, a - m .. a - 1))}
<1>1. 0 \in T
  <2>1. 1 .. 0 = {} /\ a - 0 .. a - 1 = {}
    OBVIOUS
  <2>2. Pile(h, {}) = Pile(f, {})
    BY DEF Pile
  <2> QED BY <2>1, <2>2
<1>2. ASSUME NEW m \in Nat, m \in T PROVE m + 1 \in T
  <2> SUFFICES ASSUME m + 1 <= n
               PROVE  Cardinality(Pile(h, 1 .. m + 1)) = Cardinality(Pile(f, a - (m + 1) .. a - 1))
    OBVIOUS
  <2>1. Cardinality(Pile(h, 1 .. m)) = Cardinality(Pile(f, a - m .. a - 1))
    BY <1>2
  <2>2. /\ m + 1 \in 1 .. m + 1 /\ (1 .. m + 1) \ {m + 1} = 1 .. m
        /\ a - (m + 1) \in a - (m + 1) .. a - 1
        /\ (a - (m + 1) .. a - 1) \ {a - (m + 1)} = a - m .. a - 1
    OBVIOUS
  <2>3. h[m + 1] \in Nat /\ h[m + 1] = f[a - (m + 1)]
    OBVIOUS
  <2>4. IsFiniteSet(Pile(h, 1 .. m))
    <3>1. IsFiniteSet(1 .. m) /\ \A i \in 1 .. m : h[i] \in Nat
      BY FS_Interval
    <3> QED BY <3>1, PileFinite
  <2>5. IsFiniteSet(Pile(f, a - m .. a - 1))
    <3>1. IsFiniteSet(a - m .. a - 1)
      BY FS_Interval
    <3>2. ASSUME NEW t \in a - m .. a - 1 PROVE f[t] \in Nat
      <4>1. a - t \in 1 .. n /\ a - (a - t) = t
        OBVIOUS
      <4>2. h[a - t] \in Nat /\ h[a - t] = f[a - (a - t)]
        BY <4>1
      <4> QED BY <4>1, <4>2
    <3> QED BY <3>1, <3>2, PileFinite
  <2>6. Cardinality(Pile(h, 1 .. m + 1)) = h[m + 1] + Cardinality(Pile(h, 1 .. m))
    <3>1. PICK S, x : S = 1 .. m + 1 /\ x = m + 1
      OBVIOUS
    <3>2. x \in S /\ h[x] \in Nat /\ IsFiniteSet(Pile(h, S \ {x}))
      BY <2>2, <2>3, <2>4, <3>1
    <3>3. Cardinality(Pile(h, S)) = h[x] + Cardinality(Pile(h, S \ {x}))
      BY <1>0, <3>2
    <3> QED BY <2>2, <3>1, <3>3
  <2>7. Cardinality(Pile(f, a - (m + 1) .. a - 1)) = f[a - (m + 1)] + Cardinality(Pile(f, a - m .. a - 1))
    <3>1. PICK S, x : S = a - (m + 1) .. a - 1 /\ x = a - (m + 1)
      OBVIOUS
    <3>2. x \in S /\ f[x] \in Nat /\ IsFiniteSet(Pile(f, S \ {x}))
      BY <2>2, <2>3, <2>5, <3>1
    <3>3. Cardinality(Pile(f, S)) = f[x] + Cardinality(Pile(f, S \ {x}))
      BY <1>0, <3>2
    <3> QED BY <2>2, <3>1, <3>3
  <2> QED BY <2>1, <2>3, <2>6, <2>7
<1>3. Nat \subseteq T
  BY <1>1, <1>2, AllNumbers
<1> QED BY <1>3

(* Slots of a ring: what is left of a number. *)

(* Numbers with the same slot are a whole ring apart. *)
LEMMA SlotApart ==
  ASSUME NEW n \in Nat, n > 1, NEW a \in Nat, NEW b \in Nat, a % n = b % n, a < b
  PROVE  b - a >= n
<1>1. PICK p \in Int, q \in Int : a = (n * p) + (a % n) /\ b = (n * q) + (b % n)
  <2>1. a = (n * (a \div n)) + (a % n) /\ b = (n * (b \div n)) + (b % n)
    OBVIOUS
  <2>2. a \div n \in Int /\ b \div n \in Int
    OBVIOUS
  <2> QED BY <2>1, <2>2
<1>2. b - a = n * (q - p)
  <2>1. a % n \in Int
    OBVIOUS
  <2> QED BY <1>1, <2>1
<1>3. q - p >= 1
  <2> SUFFICES ASSUME q - p <= 0 PROVE FALSE
    BY <1>1
  <2>1. n * (q - p) <= 0
    BY <1>1
  <2> QED BY <1>2, <2>1
<1>4. n * (q - p) >= n
  BY <1>1, <1>3
<1> QED BY <1>2, <1>4

(* What is left of a number that is a multiple of n larger. *)
LEMMA SlotShift ==
  ASSUME NEW n \in Nat, n > 1, NEW a \in Nat, NEW b \in Nat, NEW q \in Int, b = a + (n * q)
  PROVE  a % n = b % n
<1>1. PICK p \in Int, r \in Int : a = (n * p) + (a % n) /\ b = (n * r) + (b % n)
  <2>1. a = (n * (a \div n)) + (a % n) /\ b = (n * (b \div n)) + (b % n)
    OBVIOUS
  <2>2. a \div n \in Int /\ b \div n \in Int
    OBVIOUS
  <2> QED BY <2>1, <2>2
<1>2. a % n \in 0 .. n - 1 /\ b % n \in 0 .. n - 1
  OBVIOUS
<1>3. PICK k \in Int : k = (r - p) - q
  OBVIOUS
<1>4. (a % n) - (b % n) = n * k
  BY <1>1, <1>2, <1>3
<1>5. k = 0
  <2>1. CASE k >= 1
    <3>1. n * k >= n
      BY <2>1
    <3> QED BY <1>2, <1>4, <3>1
  <2>2. CASE k <= -1
    <3>1. n * k <= -n
      BY <2>2
    <3> QED BY <1>2, <1>4, <3>1
  <2> QED BY <2>1, <2>2
<1> QED BY <1>2, <1>4, <1>5

-----------------------------------------------------------------------------
(* UptimeHistory: the ring of seconds. *)

Fields    == {"requests", "skipped", "errors"}
HistClock == 0 .. RingSize + Seconds
HistSlots == 0 .. RingSize - 1
EventsOf  == [t \in HistClock |-> events[t].requests + events[t].errors]

(* What a slot has of its second is not too much, and all of it if the page *)
(* was never read late.                                                     *)
SlotRight(s) ==
  LET w == uptime_history[s] IN
  /\ w.timestamp = 0 => w.n = History!Nothing
  /\ w.timestamp # 0 =>
       /\ w.timestamp % RingSize = s /\ w.timestamp <= second
       /\ \A f \in Fields : w.n[f] <= events[w.timestamp][f]
       /\ ~lagged => w.n = events[w.timestamp]

(* A second that the ring reaches back to has its slot, or is empty.        *)
Reached == \A t \in second - RingSize + 1 .. second :
          \/ uptime_history[t % RingSize].timestamp = t
          \/ events[t] = History!Nothing

HistTypes ==
  /\ second \in RingSize .. RingSize + Seconds
  /\ unixTS \in {second - 1, second} /\ unixTS >= RingSize
  /\ uptime_history \in [HistSlots -> [timestamp : HistClock, n : [Fields -> Nat]]]
  /\ events \in [HistClock -> [Fields -> Nat]]
  /\ lagged \in BOOLEAN
  /\ page.read \in [Fields -> 0 .. MaxEvents] /\ page.real \in [Fields -> 0 .. MaxEvents]

HistInv ==
  /\ HistTypes
  /\ \A t \in HistClock : /\ events[t].skipped <= events[t].requests
                          /\ t > second => events[t] = History!Nothing
  /\ Cardinality(Pile(EventsOf, HistClock)) <= MaxEvents
  /\ \A s \in HistSlots : SlotRight(s)
  /\ ~lagged => Reached /\ page.read = page.real

LEMMA HistConstants ==
  /\ RingSize \in Nat /\ RingSize > 1 /\ Seconds \in Nat /\ MaxEvents \in Nat
  /\ History!Clock = HistClock /\ History!First = RingSize /\ History!Last = RingSize + Seconds
  /\ IsFiniteSet(HistClock)
  /\ History!Nothing \in [Fields -> Nat] /\ (\A f \in Fields : History!Nothing[f] = 0)
  /\ DOMAIN History!Nothing = Fields
<1>1. RingSize \in Nat /\ RingSize > 1 /\ Seconds \in Nat /\ MaxEvents \in Nat
  BY PartsAssumption DEF History!HistoryAssumption
<1>2. IsFiniteSet(HistClock)
  BY <1>1, FS_Interval DEF HistClock
<1>3. History!Clock = HistClock
  BY <1>1 DEF History!Clock, History!First, History!Last, HistClock
<1>4. /\ History!Nothing \in [Fields -> Nat] /\ (\A f \in Fields : History!Nothing[f] = 0)
      /\ DOMAIN History!Nothing = Fields
  BY DEF History!Nothing, Fields
<1> QED BY <1>1, <1>2, <1>3, <1>4 DEF History!First, History!Last

LEMMA SumsEvents ==
  ASSUME events \in [HistClock -> [Fields -> Nat]]
  PROVE  /\ History!Events = Cardinality(Pile(EventsOf, HistClock))
         /\ \A t \in HistClock : EventsOf[t] \in Nat /\ EventsOf[t] = events[t].requests + events[t].errors
<1> DEFINE Eq(g) == g = [s \in SUBSET HistClock |->
              IF s = {} THEN 0
              ELSE (events[CHOOSE x \in s : TRUE].requests + events[CHOOSE x \in s : TRUE].errors)
                     + g[s \ {CHOOSE x \in s : TRUE}]]
<1>1. \A t \in HistClock : EventsOf[t] \in Nat /\ EventsOf[t] = events[t].requests + events[t].errors
  BY DEF EventsOf, Fields
<1>2. ASSUME NEW g PROVE Adds(g, EventsOf, HistClock) <=> Eq(g)
  <2>1. ASSUME NEW s \in SUBSET HistClock, s # {}
        PROVE  EventsOf[CHOOSE x \in s : TRUE]
                 = events[CHOOSE x \in s : TRUE].requests + events[CHOOSE x \in s : TRUE].errors
    <3>1. PICK t \in s : t = CHOOSE x \in s : TRUE
      BY <2>1
    <3>2. t \in HistClock
      BY <3>1
    <3> QED BY <1>1, <3>1, <3>2
  <2> DEFINE F(s) == IF s = {} THEN 0
                     ELSE EventsOf[CHOOSE x \in s : TRUE] + g[s \ {CHOOSE x \in s : TRUE}]
             G(s) == IF s = {} THEN 0
                     ELSE (events[CHOOSE x \in s : TRUE].requests + events[CHOOSE x \in s : TRUE].errors)
                            + g[s \ {CHOOSE x \in s : TRUE}]
  <2>2. ASSUME NEW s \in SUBSET HistClock PROVE F(s) = G(s)
    <3>1. CASE s = {}
      BY <3>1
    <3>2. CASE s # {}
      <4>1. PICK t : t = CHOOSE x \in s : TRUE
        OBVIOUS
      <4>2. EventsOf[t] = events[t].requests + events[t].errors
        BY <2>1, <3>2, <4>1
      <4>3. F(s) = EventsOf[t] + g[s \ {t}]
        BY <3>2, <4>1
      <4>4. G(s) = (events[t].requests + events[t].errors) + g[s \ {t}]
        BY <3>2, <4>1
      <4> QED BY <4>2, <4>3, <4>4
    <3> QED BY <3>1, <3>2
  <2>3. /\ Adds(g, EventsOf, HistClock) <=> g = [s \in SUBSET HistClock |-> F(s)]
        /\ Eq(g) <=> g = [s \in SUBSET HistClock |-> G(s)]
    BY Zenon DEF Adds
  <2> HIDE DEF F, G
  <2>4. [s \in SUBSET HistClock |-> F(s)] = [s \in SUBSET HistClock |-> G(s)]
    BY <2>2, Zenon
  <2> QED BY <2>3, <2>4
<1>3. \E g : Eq(g)
  <2>1. PICK g : Adds(g, EventsOf, HistClock)
    BY <1>1, AddsExists, HistConstants
  <2>2. Eq(g)
    BY <1>2, <2>1, Zenon
  <2> HIDE DEF Eq
  <2> QED BY <2>2
<1>4. Eq(CHOOSE g : Eq(g))
  BY <1>3
<1>5. History!Events = (CHOOSE g : Eq(g))[HistClock]
  BY HistConstants DEF History!Events, History!MapThenSumSet, History!MapThenFoldSet
<1> QED BY <1>1, <1>2, <1>4, <1>5, AddsIs, HistConstants

LEMMA HistFacts ==
  ASSUME HistInv
  PROVE  /\ second \in Nat /\ unixTS \in Nat /\ second \in HistClock /\ unixTS \in HistClock
         /\ unixTS <= second /\ second - 1 <= unixTS /\ RingSize <= unixTS
         /\ \A t \in HistClock : /\ t \in Nat /\ events[t] \in [Fields -> Nat]
                                 /\ t % RingSize \in HistSlots
         /\ \A s \in HistSlots : /\ uptime_history[s].timestamp \in HistClock
                                 /\ uptime_history[s].n \in [Fields -> Nat]
                                 /\ uptime_history[s] = [timestamp |-> uptime_history[s].timestamp,
                                                         n |-> uptime_history[s].n]
<1>1. RingSize \in Nat /\ RingSize > 1 /\ Seconds \in Nat
  BY HistConstants
<1>2. /\ second \in RingSize .. RingSize + Seconds
      /\ unixTS \in {second - 1, second} /\ unixTS >= RingSize
  BY DEF HistInv, HistTypes
<1>3. /\ second \in Nat /\ unixTS \in Nat /\ second \in HistClock /\ unixTS \in HistClock
      /\ unixTS <= second /\ second - 1 <= unixTS /\ RingSize <= unixTS
  BY <1>1, <1>2 DEF HistClock
<1>4. ASSUME NEW t \in HistClock
      PROVE  t \in Nat /\ events[t] \in [Fields -> Nat] /\ t % RingSize \in HistSlots
  <2>1. t \in Nat
    BY <1>1 DEF HistClock
  <2>2. t % RingSize \in HistSlots
    BY <1>1, <2>1 DEF HistSlots
  <2> QED BY <2>1, <2>2 DEF HistInv, HistTypes
<1>5. \A s \in HistSlots : uptime_history[s] \in [timestamp : HistClock, n : [Fields -> Nat]]
  BY DEF HistInv, HistTypes
<1> QED BY <1>3, <1>4, <1>5

(* Seconds that are less than a ring apart have different slots. *)
LEMMA SlotOwn ==
  ASSUME NEW a \in Nat, NEW b \in Nat, a % RingSize = b % RingSize,
         a - b < RingSize, b - a < RingSize
  PROVE  a = b
<1>1. RingSize \in Nat /\ RingSize > 1
  BY HistConstants
<1>2. ~(a < b)
  <2> SUFFICES ASSUME a < b PROVE FALSE
    OBVIOUS
  <2>1. b - a >= RingSize
    BY <1>1, SlotApart
  <2> QED BY <1>1, <2>1
<1>3. ~(b < a)
  <2> SUFFICES ASSUME b < a PROVE FALSE
    OBVIOUS
  <2>1. a - b >= RingSize
    BY <1>1, SlotApart
  <2> QED BY <1>1, <2>1
<1> QED BY <1>2, <1>3

(* The seconds that the ring reaches back to. *)
LEMMA Window ==
  ASSUME HistInv, NEW t \in second - RingSize + 1 .. second
  PROVE  /\ t \in HistClock /\ t \in Nat /\ t # 0
         /\ \A u \in second - RingSize + 1 .. second : u % RingSize = t % RingSize => u = t
         /\ \A u \in HistClock : u <= second /\ u % RingSize = t % RingSize => u <= t
<1>1. RingSize \in Nat /\ RingSize > 1 /\ Seconds \in Nat
  BY HistConstants
<1>2. second \in RingSize .. RingSize + Seconds
  BY DEF HistInv, HistTypes
<1>3. t \in HistClock /\ t \in Nat /\ t # 0
  BY <1>1, <1>2 DEF HistClock
<1>4. ASSUME NEW u \in second - RingSize + 1 .. second, u % RingSize = t % RingSize PROVE u = t
  <2>1. u \in Nat /\ u - t < RingSize /\ t - u < RingSize
    BY <1>1, <1>2
  <2> QED BY <1>3, <1>4, <2>1, SlotOwn
<1>5. ASSUME NEW u \in HistClock, u <= second, u % RingSize = t % RingSize PROVE u <= t
  <2>1. u \in Nat
    BY <1>1 DEF HistClock
  <2> SUFFICES ASSUME ~(u <= t) PROVE FALSE
    OBVIOUS
  <2>2. u - t < RingSize /\ t - u < RingSize
    BY <1>1, <1>2, <1>3, <1>5, <2>1
  <2>3. u = t
    BY <1>3, <1>5, <2>1, <2>2, SlotOwn
  <2> QED BY <1>3, <2>3
<1> QED BY <1>3, <1>4, <1>5

(* What is counted goes to the second it is counted under, and to no other. *)
LEMMA CountStep ==
  ASSUME HistInv, NEW ts \in {second, unixTS}, NEW n \in [Fields -> Nat],
         n.skipped <= n.requests, n.requests + n.errors = 1, History!Count(ts, n)
  PROVE  HistInv'
<1> DEFINE k   == ts % RingSize
           old == uptime_history[k]
           sum == History!Plus(events[ts], n)
           new == IF old.timestamp = ts THEN History!Plus(old.n, n) ELSE n
<1>1. /\ ts \in HistClock /\ ts \in Nat /\ ts # 0 /\ ts <= second
      /\ ts \in second - RingSize + 1 .. second /\ k \in HistSlots
  <2>1. ts \in second - RingSize + 1 .. second
    BY HistFacts, HistConstants
  <2> QED BY <2>1, HistFacts, Window
<1>2. /\ events \in [HistClock -> [Fields -> Nat]]
      /\ uptime_history \in [HistSlots -> [timestamp : HistClock, n : [Fields -> Nat]]]
  BY DEF HistInv, HistTypes
<1>3. /\ History!Events < MaxEvents
      /\ uptime_history' = [uptime_history EXCEPT ![k] = [timestamp |-> ts, n |-> new]]
      /\ events' = [events EXCEPT ![ts] = sum]
      /\ second' = second /\ unixTS' = unixTS /\ page' = page /\ lagged' = lagged
  BY DEF History!Count, History!Add, History!Slot, History!At
<1>4. /\ sum \in [Fields -> Nat] /\ \A f \in Fields : sum[f] = events[ts][f] + n[f]
  <2>1. events[ts] \in [Fields -> Nat]
    BY <1>1, <1>2
  <2>2. sum = [f \in Fields |-> events[ts][f] + n[f]]
    BY HistConstants DEF History!Plus
  <2> QED BY <2>1, <2>2
<1>5. /\ new \in [Fields -> Nat]
      /\ \A f \in Fields : new[f] = IF old.timestamp = ts THEN old.n[f] + n[f] ELSE n[f]
  <2>1. old.n \in [Fields -> Nat]
    BY <1>1, HistFacts
  <2>2. History!Plus(old.n, n) = [f \in Fields |-> old.n[f] + n[f]]
    BY HistConstants DEF History!Plus
  <2> QED BY <2>1, <2>2
<1> HIDE DEF sum, new
<1>6. /\ events' \in [HistClock -> [Fields -> Nat]] /\ events'[ts] = sum
      /\ \A t \in HistClock : t # ts => events'[t] = events[t]
  BY <1>1, <1>2, <1>3, <1>4
<1>7. /\ uptime_history' \in [HistSlots -> [timestamp : HistClock, n : [Fields -> Nat]]]
      /\ uptime_history'[k].timestamp = ts /\ uptime_history'[k].n = new
      /\ \A s \in HistSlots : s # k => uptime_history'[s] = uptime_history[s]
  BY <1>1, <1>2, <1>3, <1>5
<1>8. HistTypes'
  BY <1>3, <1>6, <1>7 DEF HistInv, HistTypes
<1>9. ASSUME NEW t \in HistClock
      PROVE  events'[t].skipped <= events'[t].requests /\ (t > second => events'[t] = History!Nothing)
  <2>1. CASE t = ts
    <3>1. /\ events[ts].skipped <= events[ts].requests
          /\ events[ts].skipped \in Nat /\ events[ts].requests \in Nat
          /\ n.skipped \in Nat /\ n.requests \in Nat
      BY <1>1, <1>2 DEF HistInv, Fields
    <3>2. sum.skipped = events[ts].skipped + n.skipped /\ sum.requests = events[ts].requests + n.requests
      BY <1>4 DEF Fields
    <3>3. ~(t > second)
      BY <2>1, <1>1, HistFacts
    <3> QED BY <1>6, <2>1, <3>1, <3>2, <3>3
  <2>2. CASE t # ts
    BY <1>6, <2>2 DEF HistInv
  <2> QED BY <2>1, <2>2
<1>10. Cardinality(Pile(EventsOf, HistClock))' <= MaxEvents
  <2>1. /\ History!Events = Cardinality(Pile(EventsOf, HistClock))
        /\ \A t \in HistClock : EventsOf[t] \in Nat /\ EventsOf[t] = events[t].requests + events[t].errors
    BY <1>2, SumsEvents
  <2>2. PICK g : g = EventsOf'
    OBVIOUS
  <2>3. \A t \in HistClock : g[t] = events'[t].requests + events'[t].errors
    BY <2>2 DEF EventsOf
  <2>4. g[ts] = EventsOf[ts] + 1
    <3>1. /\ events[ts].requests \in Nat /\ events[ts].errors \in Nat
          /\ n.requests \in Nat /\ n.errors \in Nat
      BY <1>1, <1>2 DEF Fields
    <3>2. sum.requests = events[ts].requests + n.requests /\ sum.errors = events[ts].errors + n.errors
      BY <1>4 DEF Fields
    <3>3. g[ts] = sum.requests + sum.errors /\ EventsOf[ts] = events[ts].requests + events[ts].errors
      BY <1>1, <1>6, <2>1, <2>3
    <3> QED BY <3>1, <3>2, <3>3
  <2>5. \A t \in HistClock \ {ts} : g[t] = EventsOf[t]
    BY <1>6, <2>1, <2>3
  <2>6. IsFiniteSet(HistClock) /\ 1 \in Nat
    BY HistConstants
  <2>7. Cardinality(Pile(g, HistClock)) = Cardinality(Pile(EventsOf, HistClock)) + 1
    <3>1. \A t \in HistClock : EventsOf[t] \in Nat
      BY <2>1
    <3>2. ts \in HistClock
      BY <1>1
    <3> QED BY <2>4, <2>5, <2>6, <3>1, <3>2, PileMore
  <2>8. Pile(EventsOf, HistClock)' = Pile(g, HistClock)
    BY <2>2 DEF Pile, Row, HistClock
  <2>9. Cardinality(Pile(EventsOf, HistClock)) \in Nat
    BY <2>1, <2>6, PileFinite
  <2> QED BY <1>3, <2>1, <2>7, <2>8, <2>9, HistConstants
<1>11. ASSUME NEW s \in HistSlots PROVE SlotRight(s)'
  <2>1. CASE s = k
    <3>1. /\ SlotRight(k) /\ old.timestamp \in HistClock /\ old.n \in [Fields -> Nat]
          /\ events[ts] \in [Fields -> Nat]
      BY <1>1, HistFacts DEF HistInv
    <3>2. ASSUME NEW f \in Fields PROVE new[f] <= sum[f]
      <4>1. old.timestamp = ts => old.n[f] <= events[ts][f]
        BY <1>1, <3>1 DEF SlotRight
      <4>2. old.n[f] \in Nat /\ n[f] \in Nat /\ events[ts][f] \in Nat
        BY <3>1
      <4> QED BY <1>4, <1>5, <4>1, <4>2
    <3>3. ASSUME ~lagged PROVE new = sum
      <4>1. CASE old.timestamp = ts
        <5>1. old.n = events[ts]
          BY <1>1, <3>1, <3>3, <4>1 DEF SlotRight
        <5> QED BY <1>4, <1>5, <4>1, <5>1
      <4>2. CASE old.timestamp # ts
        <5>1. events[ts] = History!Nothing
          BY <1>1, <3>3, <4>2 DEF HistInv, Reached
        <5>2. \A f \in Fields : events[ts][f] = 0
          BY <5>1, HistConstants
        <5>3. \A f \in Fields : sum[f] = n[f] /\ new[f] = n[f]
          BY <1>4, <1>5, <4>2, <5>2
        <5> QED BY <1>4, <1>5, <5>3
      <4> QED BY <4>1, <4>2
    <3> QED BY <1>1, <1>3, <1>6, <1>7, <2>1, <3>2, <3>3 DEF SlotRight
  <2>2. CASE s # k
    <3>1. SlotRight(s) /\ uptime_history'[s] = uptime_history[s]
      BY <1>7, <2>2 DEF HistInv
    <3>2. uptime_history[s].timestamp # 0 => events'[uptime_history[s].timestamp] = events[uptime_history[s].timestamp]
      <4>1. uptime_history[s].timestamp \in HistClock
        BY HistFacts
      <4>2. uptime_history[s].timestamp # 0 => uptime_history[s].timestamp # ts
        BY <2>2, <3>1 DEF SlotRight
      <4> QED BY <1>6, <4>1, <4>2
    <3> QED BY <1>3, <3>1, <3>2 DEF SlotRight
  <2> QED BY <2>1, <2>2
<1>12. ASSUME ~lagged' PROVE Reached' /\ page'.read = page'.real
  <2>1. Reached /\ page.read = page.real
    BY <1>3, <1>12 DEF HistInv
  <2>2. ASSUME NEW t \in second - RingSize + 1 .. second
        PROVE  uptime_history'[t % RingSize].timestamp = t \/ events'[t] = History!Nothing
    <3>1. t \in HistClock /\ t % RingSize \in HistSlots
      BY Window, HistFacts
    <3>2. CASE t = ts
      BY <1>7, <3>2
    <3>3. CASE t # ts
      <4>1. t % RingSize # k
        BY <1>1, <3>3, Window
      <4> QED BY <1>6, <1>7, <2>1, <3>1, <3>3, <4>1 DEF Reached
    <3> QED BY <3>2, <3>3
  <2> QED BY <1>3, <2>1, <2>2 DEF Reached
<1> QED BY <1>3, <1>8, <1>9, <1>10, <1>11, <1>12 DEF HistInv

(* The seconds that the page shows, and those of them that have their slot. *)
Past  == (unixTS - RingSize + 1) .. (unixTS - 1)
Match == {t \in Past : uptime_history[t % RingSize].timestamp = t}

InSlots(f)  == [t \in Match |-> uptime_history[t % RingSize].n[f]]
Happened(f) == [t \in Past |-> events[t][f]]

LEMMA PastFacts ==
  ASSUME HistInv
  PROVE  /\ IsFiniteSet(Past) /\ IsFiniteSet(Match) /\ Match \subseteq Past
         /\ Past \subseteq HistClock
         /\ \A t \in Past : /\ t \in HistClock /\ t \in Nat /\ t # 0 /\ t < unixTS /\ t <= second
                            /\ t % RingSize \in HistSlots
         /\ unixTS = second => Past \subseteq second - RingSize + 1 .. second
         /\ \A f \in Fields : /\ \A t \in Match : InSlots(f)[t] \in Nat
                              /\ \A t \in Past : Happened(f)[t] \in Nat
<1>1. RingSize \in Nat /\ RingSize > 1 /\ Seconds \in Nat
  BY HistConstants
<1>2. /\ second \in RingSize .. RingSize + Seconds /\ unixTS \in Nat
      /\ unixTS <= second /\ second - 1 <= unixTS /\ RingSize <= unixTS
  BY HistFacts DEF HistInv, HistTypes
<1>3. IsFiniteSet(Past)
  BY <1>1, <1>2, FS_Interval DEF Past
<1>4. Match \subseteq Past /\ IsFiniteSet(Match)
  BY <1>3, FS_Subset DEF Match
<1>5. ASSUME NEW t \in Past
      PROVE  t \in HistClock /\ t \in Nat /\ t # 0 /\ t < unixTS /\ t <= second
  BY <1>1, <1>2 DEF Past, HistClock
<1>6. unixTS = second => Past \subseteq second - RingSize + 1 .. second
  BY <1>1, <1>2 DEF Past
<1>7. \A t \in Past : t % RingSize \in HistSlots /\ events[t] \in [Fields -> Nat]
  BY <1>5, HistFacts
<1>8. ASSUME NEW f \in Fields
      PROVE  (\A t \in Match : InSlots(f)[t] \in Nat) /\ \A t \in Past : Happened(f)[t] \in Nat
  <2>1. ASSUME NEW t \in Match PROVE InSlots(f)[t] \in Nat
    <3>1. uptime_history[t % RingSize].n \in [Fields -> Nat]
      BY <1>4, <1>7, HistFacts
    <3> QED BY <3>1 DEF InSlots
  <2>2. \A t \in Past : Happened(f)[t] \in Nat
    BY <1>7 DEF Happened
  <2> QED BY <2>1, <2>2
<1> QED BY <1>3, <1>4, <1>5, <1>6, <1>7, <1>8

(* The sums that uh_get makes. *)
Total(f)   == History!MapThenSumSet(LAMBDA t : uptime_history[History!Slot(t)].n[f], Match)
RealSum(f) == History!MapThenSumSet(LAMBDA t : events[t][f], Past)

LEMMA SumsShown ==
  ASSUME HistInv, NEW f \in Fields
  PROVE  Total(f) = Cardinality(Pile(InSlots(f), Match))
<1> DEFINE Eq(g) == g = [s \in SUBSET Match |->
              IF s = {} THEN 0
              ELSE uptime_history[History!Slot(CHOOSE x \in s : TRUE)].n[f]
                     + g[s \ {CHOOSE x \in s : TRUE}]]
<1>1. IsFiniteSet(Match) /\ \A t \in Match : InSlots(f)[t] \in Nat
  BY PastFacts
<1>2. ASSUME NEW g PROVE Adds(g, InSlots(f), Match) <=> Eq(g)
  <2> DEFINE F(s) == IF s = {} THEN 0
                     ELSE InSlots(f)[CHOOSE x \in s : TRUE] + g[s \ {CHOOSE x \in s : TRUE}]
             G(s) == IF s = {} THEN 0
                     ELSE uptime_history[History!Slot(CHOOSE x \in s : TRUE)].n[f]
                            + g[s \ {CHOOSE x \in s : TRUE}]
  <2>1. ASSUME NEW s \in SUBSET Match PROVE F(s) = G(s)
    <3>1. CASE s = {}
      BY <3>1
    <3>2. CASE s # {}
      <4>1. PICK t : t = CHOOSE x \in s : TRUE
        OBVIOUS
      <4>2. t \in Match
        BY <3>2, <4>1
      <4>3. InSlots(f)[t] = uptime_history[History!Slot(t)].n[f]
        BY <4>2 DEF InSlots, History!Slot
      <4>4. F(s) = InSlots(f)[t] + g[s \ {t}]
        BY <3>2, <4>1
      <4>5. G(s) = uptime_history[History!Slot(t)].n[f] + g[s \ {t}]
        BY <3>2, <4>1
      <4> QED BY <4>3, <4>4, <4>5
    <3> QED BY <3>1, <3>2
  <2>2. /\ Adds(g, InSlots(f), Match) <=> g = [s \in SUBSET Match |-> F(s)]
        /\ Eq(g) <=> g = [s \in SUBSET Match |-> G(s)]
    BY Zenon DEF Adds
  <2> HIDE DEF F, G
  <2>3. [s \in SUBSET Match |-> F(s)] = [s \in SUBSET Match |-> G(s)]
    BY <2>1, Zenon
  <2> QED BY <2>2, <2>3
<1>3. \E g : Eq(g)
  <2>1. PICK g : Adds(g, InSlots(f), Match)
    BY <1>1, AddsExists
  <2>2. Eq(g)
    BY <1>2, <2>1, Zenon
  <2> HIDE DEF Eq
  <2> QED BY <2>2
<1>4. Eq(CHOOSE g : Eq(g))
  BY <1>3
<1>5. Total(f) = (CHOOSE g : Eq(g))[Match]
  BY DEF Total, History!MapThenSumSet, History!MapThenFoldSet
<1> QED BY <1>1, <1>2, <1>4, <1>5, AddsIs

LEMMA SumsReal ==
  ASSUME HistInv, NEW f \in Fields
  PROVE  RealSum(f) = Cardinality(Pile(Happened(f), Past))
<1> DEFINE Eq(g) == g = [s \in SUBSET Past |->
              IF s = {} THEN 0
              ELSE events[CHOOSE x \in s : TRUE][f] + g[s \ {CHOOSE x \in s : TRUE}]]
<1>1. IsFiniteSet(Past) /\ \A t \in Past : Happened(f)[t] \in Nat
  BY PastFacts
<1>2. ASSUME NEW g PROVE Adds(g, Happened(f), Past) <=> Eq(g)
  <2> DEFINE F(s) == IF s = {} THEN 0
                     ELSE Happened(f)[CHOOSE x \in s : TRUE] + g[s \ {CHOOSE x \in s : TRUE}]
             G(s) == IF s = {} THEN 0
                     ELSE events[CHOOSE x \in s : TRUE][f] + g[s \ {CHOOSE x \in s : TRUE}]
  <2>1. ASSUME NEW s \in SUBSET Past PROVE F(s) = G(s)
    <3>1. CASE s = {}
      BY <3>1
    <3>2. CASE s # {}
      <4>1. PICK t : t = CHOOSE x \in s : TRUE
        OBVIOUS
      <4>2. t \in Past
        BY <3>2, <4>1
      <4>3. Happened(f)[t] = events[t][f]
        BY <4>2 DEF Happened
      <4>4. F(s) = Happened(f)[t] + g[s \ {t}]
        BY <3>2, <4>1
      <4>5. G(s) = events[t][f] + g[s \ {t}]
        BY <3>2, <4>1
      <4> QED BY <4>3, <4>4, <4>5
    <3> QED BY <3>1, <3>2
  <2>2. /\ Adds(g, Happened(f), Past) <=> g = [s \in SUBSET Past |-> F(s)]
        /\ Eq(g) <=> g = [s \in SUBSET Past |-> G(s)]
    BY Zenon DEF Adds
  <2> HIDE DEF F, G
  <2>3. [s \in SUBSET Past |-> F(s)] = [s \in SUBSET Past |-> G(s)]
    BY <2>1, Zenon
  <2> QED BY <2>2, <2>3
<1>3. \E g : Eq(g)
  <2>1. PICK g : Adds(g, Happened(f), Past)
    BY <1>1, AddsExists
  <2>2. Eq(g)
    BY <1>2, <2>1, Zenon
  <2> HIDE DEF Eq
  <2> QED BY <2>2
<1>4. Eq(CHOOSE g : Eq(g))
  BY <1>3
<1>5. RealSum(f) = (CHOOSE g : Eq(g))[Past]
  BY DEF RealSum, History!MapThenSumSet, History!MapThenFoldSet
<1> QED BY <1>1, <1>2, <1>4, <1>5, AddsIs

LEMMA GetStep ==
  ASSUME HistInv, History!Get
  PROVE  HistInv'
<1> DEFINE taken(s) == \E t \in Past \ Match : t % RingSize = s
<1>1. /\ page' = [read |-> [f \in Fields |-> Total(f)], real |-> [f \in Fields |-> RealSum(f)]]
      /\ lagged' = (lagged \/ unixTS # second)
      /\ second' = second /\ unixTS' = unixTS /\ events' = events
  BY HistConstants DEF History!Get, Past, Match, Total, RealSum, History!Slot
<1>2. /\ uptime_history \in [HistSlots -> [timestamp : HistClock, n : [Fields -> Nat]]]
      /\ lagged \in BOOLEAN
  BY DEF HistInv, HistTypes
<1>3. uptime_history' =
        [s \in HistSlots |->
           IF \E t \in Past \ Match : t % RingSize = s
           THEN [timestamp |-> CHOOSE t \in Past : t % RingSize = s, n |-> History!Nothing]
           ELSE uptime_history[s]]
  <2>1. DOMAIN uptime_history = HistSlots
    BY <1>2
  <2> QED BY <2>1 DEF History!Get, Past, Match, History!Slot, History!At
<1>4. /\ IsFiniteSet(Past) /\ Match \subseteq Past /\ IsFiniteSet(Match)
      /\ \A t \in Past : /\ t \in HistClock /\ t \in Nat /\ t # 0 /\ t < unixTS /\ t <= second
                         /\ t % RingSize \in HistSlots
      /\ unixTS = second => Past \subseteq second - RingSize + 1 .. second
  BY PastFacts
<1>5. ASSUME NEW s \in HistSlots, taken(s)
      PROVE  \E t \in Past \ Match :
               t % RingSize = s /\ uptime_history'[s] = [timestamp |-> t, n |-> History!Nothing]
  <2>1. PICK t \in Past \ Match : t % RingSize = s
    BY <1>5
  <2>2. \A u \in Past : u % RingSize = s => u = t
    <3> SUFFICES ASSUME NEW u \in Past, u % RingSize = s PROVE u = t
      OBVIOUS
    <3>1. u \in Nat /\ t \in Nat /\ u - t < RingSize /\ t - u < RingSize
      <4>1. u \in unixTS - RingSize + 1 .. unixTS - 1 /\ t \in unixTS - RingSize + 1 .. unixTS - 1
        BY <2>1 DEF Past
      <4> QED BY <1>4, <2>1, <4>1, HistFacts, HistConstants
    <3>2. u % RingSize = t % RingSize
      BY <2>1
    <3> QED BY <3>1, <3>2, SlotOwn
  <2>3. (CHOOSE u \in Past : u % RingSize = s) = t
    BY <2>1, <2>2
  <2> QED BY <1>3, <2>1, <2>3
<1>6. \A s \in HistSlots : ~taken(s) => uptime_history'[s] = uptime_history[s]
  BY <1>3
<1> HIDE DEF taken
<1>7. uptime_history' \in [HistSlots -> [timestamp : HistClock, n : [Fields -> Nat]]]
  <2>1. ASSUME NEW s \in HistSlots PROVE uptime_history'[s] \in [timestamp : HistClock, n : [Fields -> Nat]]
    <3>1. CASE taken(s)
      <4>1. PICK t \in Past \ Match : uptime_history'[s] = [timestamp |-> t, n |-> History!Nothing]
        BY <1>5, <3>1
      <4>2. t \in HistClock /\ History!Nothing \in [Fields -> Nat]
        BY <1>4, <4>1, HistConstants
      <4> QED BY <4>1, <4>2
    <3>2. CASE ~taken(s)
      BY <1>2, <1>6, <3>2
    <3> QED BY <3>1, <3>2
  <2>2. uptime_history' = [s \in HistSlots |-> uptime_history'[s]]
    BY <1>3
  <2> QED BY <2>1, <2>2
<1>8. ASSUME NEW s \in HistSlots PROVE SlotRight(s)'
  <2>1. CASE taken(s)
    <3>1. PICK t \in Past \ Match :
            t % RingSize = s /\ uptime_history'[s] = [timestamp |-> t, n |-> History!Nothing]
      BY <1>5, <2>1
    <3>2. t \in HistClock /\ t # 0 /\ t <= second /\ events[t] \in [Fields -> Nat]
      BY <1>4, <3>1, HistFacts
    <3>3. \A f \in Fields : History!Nothing[f] <= events[t][f]
      BY <3>2, HistConstants
    <3>4. ASSUME ~lagged' PROVE events[t] = History!Nothing
      <4>1. t \in second - RingSize + 1 .. second /\ Reached
        BY <1>1, <1>4, <3>1, <3>4 DEF HistInv
      <4>2. uptime_history[t % RingSize].timestamp # t
        BY <3>1 DEF Match
      <4> QED BY <4>1, <4>2 DEF Reached
    <3> QED BY <1>1, <3>1, <3>2, <3>3, <3>4 DEF SlotRight
  <2>2. CASE ~taken(s)
    <3>1. SlotRight(s) /\ uptime_history'[s] = uptime_history[s] /\ (~lagged' => ~lagged)
      BY <1>1, <1>6, <2>2 DEF HistInv
    <3> QED BY <1>1, <3>1 DEF SlotRight
  <2> QED BY <2>1, <2>2
<1>9. ASSUME NEW f \in Fields
      PROVE  /\ Total(f) \in 0 .. MaxEvents /\ RealSum(f) \in 0 .. MaxEvents
             /\ ~lagged' => Total(f) = RealSum(f)
  <2>1. /\ Total(f) = Cardinality(Pile(InSlots(f), Match)) /\ RealSum(f) = Cardinality(Pile(Happened(f), Past))
    BY SumsShown, SumsReal
  <2>2. /\ \A t \in HistClock : EventsOf[t] \in Nat /\ EventsOf[t] = events[t].requests + events[t].errors
        /\ IsFiniteSet(HistClock) /\ Cardinality(Pile(EventsOf, HistClock)) <= MaxEvents
    BY SumsEvents, HistConstants DEF HistInv, HistTypes
  <2>3. \A t \in HistClock : events[t][f] \in Nat /\ events[t][f] <= EventsOf[t]
    <3> SUFFICES ASSUME NEW t \in HistClock PROVE events[t][f] \in Nat /\ events[t][f] <= EventsOf[t]
      OBVIOUS
    <3>1. /\ events[t].requests \in Nat /\ events[t].errors \in Nat /\ events[t].skipped \in Nat
          /\ events[t].skipped <= events[t].requests
      BY HistFacts DEF HistInv, Fields
    <3>2. f \in {"requests", "skipped", "errors"}
      BY DEF Fields
    <3> QED BY <2>2, <3>1, <3>2
  <2>4. \A t \in Past : t \in HistClock /\ Happened(f)[t] = events[t][f]
    BY <1>4 DEF Happened
  <2>5. \A t \in Match : /\ t \in HistClock /\ InSlots(f)[t] = uptime_history[t % RingSize].n[f]
                         /\ uptime_history[t % RingSize].timestamp = t
                         /\ t % RingSize \in HistSlots /\ t # 0
    BY <1>4 DEF InSlots, Match
  <2>6. \A t \in Match : InSlots(f)[t] \in Nat /\ InSlots(f)[t] <= events[t][f]
    <3> SUFFICES ASSUME NEW t \in Match PROVE InSlots(f)[t] \in Nat /\ InSlots(f)[t] <= events[t][f]
      OBVIOUS
    <3>1. SlotRight(t % RingSize) /\ uptime_history[t % RingSize].n \in [Fields -> Nat]
      BY <2>5, HistFacts DEF HistInv
    <3> QED BY <2>5, <3>1 DEF SlotRight
  <2>7. Cardinality(Pile(InSlots(f), Match)) <= Cardinality(Pile(EventsOf, HistClock))
    <3>1. \A t \in Match : InSlots(f)[t] \in Nat /\ InSlots(f)[t] <= EventsOf[t]
      BY <2>2, <2>3, <2>5, <2>6
    <3>2. Match \subseteq HistClock /\ \A t \in HistClock : EventsOf[t] \in Nat
      BY <2>2, <2>5
    <3> QED BY <2>2, <3>1, <3>2, PileLeq
  <2>8. Cardinality(Pile(Happened(f), Past)) <= Cardinality(Pile(EventsOf, HistClock))
    <3>1. \A t \in Past : Happened(f)[t] \in Nat /\ Happened(f)[t] <= EventsOf[t]
      BY <2>3, <2>4
    <3>2. Past \subseteq HistClock /\ \A t \in HistClock : EventsOf[t] \in Nat
      BY <2>2, <2>4
    <3> QED BY <2>2, <3>1, <3>2, PileLeq
  <2>9. Cardinality(Pile(InSlots(f), Match)) \in Nat
    BY <1>4, <2>6, PileFinite
  <2>10. Cardinality(Pile(Happened(f), Past)) \in Nat
    <3>1. \A t \in Past : Happened(f)[t] \in Nat
      BY <2>3, <2>4
    <3> QED BY <1>4, <3>1, PileFinite
  <2>11. Cardinality(Pile(EventsOf, HistClock)) \in Nat /\ MaxEvents \in Nat
    BY <2>2, PileFinite, HistConstants
  <2>12. ASSUME ~lagged' PROVE Total(f) = RealSum(f)
    <3>1. Reached /\ ~lagged /\ Past \subseteq second - RingSize + 1 .. second
      BY <1>1, <1>4, <2>12 DEF HistInv
    <3>2. \A t \in Match : InSlots(f)[t] = Happened(f)[t]
      <4> SUFFICES ASSUME NEW t \in Match PROVE InSlots(f)[t] = Happened(f)[t]
        OBVIOUS
      <4>1. SlotRight(t % RingSize)
        BY <2>5 DEF HistInv
      <4>2. uptime_history[t % RingSize].n = events[t]
        BY <2>5, <3>1, <4>1 DEF SlotRight
      <4>3. t \in Past
        BY <1>4
      <4> QED BY <2>4, <2>5, <4>2, <4>3
    <3>3. \A t \in Past \ Match : Happened(f)[t] = 0
      <4> SUFFICES ASSUME NEW t \in Past \ Match PROVE Happened(f)[t] = 0
        OBVIOUS
      <4>1. events[t] = History!Nothing
        BY <3>1 DEF Reached, Match
      <4> QED BY <2>4, <4>1, HistConstants
    <3>4. Pile(InSlots(f), Match) = Pile(Happened(f), Match)
      BY <3>2, PileSame
    <3>5. Pile(Happened(f), Past) = Pile(Happened(f), Match)
      BY <1>4, <3>3, PileDrop
    <3> QED BY <2>1, <3>4, <3>5
  <2> QED BY <2>1, <2>7, <2>8, <2>9, <2>10, <2>11, <2>2, <2>12
<1>10. /\ page'.read \in [Fields -> 0 .. MaxEvents] /\ page'.real \in [Fields -> 0 .. MaxEvents]
       /\ ~lagged' => page'.read = page'.real
  <2>1. page'.read = [f \in Fields |-> Total(f)] /\ page'.real = [f \in Fields |-> RealSum(f)]
    BY <1>1
  <2> HIDE DEF Total, RealSum
  <2> QED BY <1>9, <2>1
<1>11. ASSUME ~lagged' PROVE Reached'
  <2>1. Reached /\ Past \subseteq second - RingSize + 1 .. second
    BY <1>1, <1>4, <1>11 DEF HistInv
  <2>2. ASSUME NEW t \in second - RingSize + 1 .. second
        PROVE  uptime_history'[t % RingSize].timestamp = t \/ events[t] = History!Nothing
    <3>1. t \in HistClock /\ t % RingSize \in HistSlots
      BY Window, HistFacts
    <3>2. CASE taken(t % RingSize)
      <4>1. PICK u \in Past \ Match :
              /\ u % RingSize = t % RingSize
              /\ uptime_history'[t % RingSize] = [timestamp |-> u, n |-> History!Nothing]
        BY <1>5, <3>1, <3>2
      <4>2. u \in second - RingSize + 1 .. second
        BY <2>1, <4>1
      <4>3. u = t
        BY <4>1, <4>2, Window
      <4> QED BY <4>1, <4>3
    <3>3. CASE ~taken(t % RingSize)
      BY <1>6, <2>1, <3>1, <3>3 DEF Reached
    <3> QED BY <3>2, <3>3
  <2> QED BY <1>1, <2>2 DEF Reached
<1>12. HistTypes'
  <2>1. lagged' \in BOOLEAN
    BY <1>1, <1>2
  <2> QED BY <1>1, <1>7, <1>10, <2>1 DEF HistInv, HistTypes
<1>13. Cardinality(Pile(EventsOf, HistClock))' <= MaxEvents
  <2>1. Pile(EventsOf, HistClock)' = Pile(EventsOf, HistClock)
    BY <1>1 DEF Pile, Row, EventsOf, HistClock
  <2> QED BY <2>1 DEF HistInv
<1> QED BY <1>1, <1>8, <1>10, <1>11, <1>12, <1>13 DEF HistInv

LEMMA HistStep == ASSUME HistInv, History!Next PROVE HistInv'
<1>1. RingSize \in Nat /\ RingSize > 1 /\ Seconds \in Nat
  BY HistConstants
<1>2. CASE \E skip \in BOOLEAN : History!Keepalive(skip)
  <2>1. PICK skip \in BOOLEAN : History!Keepalive(skip)
    BY <1>2
  <2>2. PICK n : n = [requests |-> 1, skipped |-> IF skip THEN 1 ELSE 0, errors |-> 0]
    OBVIOUS
  <2>3. n \in [Fields -> Nat] /\ n.skipped <= n.requests /\ n.requests + n.errors = 1
    <3>1. n.requests = 1 /\ n.skipped \in {0, 1} /\ n.errors = 0
      BY <2>2
    <3>2. n \in [Fields -> Nat]
      BY <2>2 DEF Fields
    <3> QED BY <3>1, <3>2
  <2>4. History!Count(second, n)
    BY <2>1, <2>2 DEF History!Keepalive
  <2> QED BY <2>3, <2>4, CountStep
<1>3. CASE History!CloseError
  <2>1. PICK n : n = [requests |-> 0, skipped |-> 0, errors |-> 1]
    OBVIOUS
  <2>2. n \in [Fields -> Nat] /\ n.skipped <= n.requests /\ n.requests + n.errors = 1
    BY <2>1 DEF Fields
  <2>3. History!Count(unixTS, n)
    BY <1>3, <2>1 DEF History!CloseError
  <2> QED BY <2>2, <2>3, CountStep
<1>4. CASE History!Second
  <2>1. /\ second < RingSize + Seconds /\ unixTS = second /\ second' = second + 1
        /\ unixTS' = unixTS /\ uptime_history' = uptime_history /\ events' = events
        /\ page' = page /\ lagged' = lagged
    BY <1>4, HistConstants DEF History!Second
  <2>2. second \in Nat /\ second >= RingSize /\ second + 1 \in HistClock
    BY <1>1, <2>1 DEF HistClock, HistInv, HistTypes
  <2>3. HistTypes'
    BY <1>1, <2>1, <2>2 DEF HistInv, HistTypes
  <2>4. \A t \in HistClock : /\ events'[t].skipped <= events'[t].requests
                             /\ t > second' => events'[t] = History!Nothing
    <3>1. \A t \in HistClock : t > second + 1 => t > second
      BY <2>2, HistFacts
    <3> QED BY <2>1, <3>1 DEF HistInv
  <2>5. ASSUME NEW s \in HistSlots PROVE SlotRight(s)'
    <3>1. SlotRight(s) /\ uptime_history[s].timestamp \in HistClock
      BY HistFacts DEF HistInv
    <3>2. uptime_history[s].timestamp <= second => uptime_history[s].timestamp <= second + 1
      BY <2>2, <3>1, HistFacts
    <3> QED BY <2>1, <3>1, <3>2 DEF SlotRight
  <2>6. ASSUME ~lagged' PROVE Reached' /\ page'.read = page'.real
    <3>1. Reached /\ page.read = page.real
      BY <2>1, <2>6 DEF HistInv
    <3>2. events[second + 1] = History!Nothing
      <4>1. second + 1 > second
        BY <2>2
      <4> QED BY <2>2, <4>1 DEF HistInv
    <3>3. \A t \in (second + 1) - RingSize + 1 .. second + 1 : t = second + 1 \/ t \in second - RingSize + 1 .. second
      BY <1>1, <2>2
    <3> QED BY <2>1, <3>1, <3>2, <3>3 DEF Reached
  <2>7. Cardinality(Pile(EventsOf, HistClock))' <= MaxEvents
    <3>1. Pile(EventsOf, HistClock)' = Pile(EventsOf, HistClock)
      BY <2>1 DEF Pile, Row, EventsOf, HistClock
    <3> QED BY <3>1 DEF HistInv
  <2> QED BY <2>3, <2>4, <2>5, <2>6, <2>7 DEF HistInv
<1>5. CASE History!RefreshTS
  <2>1. /\ second' = second /\ unixTS' = second /\ uptime_history' = uptime_history /\ events' = events
        /\ page' = page /\ lagged' = lagged
    BY <1>5 DEF History!RefreshTS
  <2>2. HistTypes'
    BY <2>1 DEF HistInv, HistTypes
  <2>3. Pile(EventsOf, HistClock)' = Pile(EventsOf, HistClock)
    BY <2>1 DEF Pile, Row, EventsOf, HistClock
  <2>4. Reached' <=> Reached
    BY <2>1 DEF Reached
  <2>5. \A s \in HistSlots : SlotRight(s)' <=> SlotRight(s)
    BY <2>1 DEF SlotRight
  <2> QED BY <2>1, <2>2, <2>3, <2>4, <2>5 DEF HistInv
<1>6. CASE History!Get
  BY <1>6, GetStep
<1> QED BY <1>2, <1>3, <1>4, <1>5, <1>6 DEF History!Next

LEMMA HistStart == ASSUME History!Init PROVE HistInv
<1>1. RingSize \in Nat /\ RingSize > 1 /\ Seconds \in Nat /\ MaxEvents \in Nat
  BY HistConstants
<1>2. /\ second = RingSize /\ unixTS = RingSize
      /\ uptime_history = [s \in HistSlots |-> [timestamp |-> 0, n |-> History!Nothing]]
      /\ events = [t \in HistClock |-> History!Nothing]
      /\ page = [read |-> History!Nothing, real |-> History!Nothing] /\ lagged = FALSE
  BY HistConstants DEF History!Init, History!At, HistSlots
<1>3. /\ History!Nothing \in [Fields -> Nat] /\ (\A f \in Fields : History!Nothing[f] = 0)
      /\ DOMAIN History!Nothing = Fields /\ 0 \in HistClock
  BY <1>1, HistConstants DEF HistClock
<1>4. History!Nothing \in [Fields -> 0 .. MaxEvents]
  BY <1>1 DEF History!Nothing, Fields
<1>5. HistTypes
  <2>1. uptime_history \in [HistSlots -> [timestamp : HistClock, n : [Fields -> Nat]]]
    BY <1>2, <1>3
  <2>2. events \in [HistClock -> [Fields -> Nat]]
    BY <1>2, <1>3
  <2>3. page.read \in [Fields -> 0 .. MaxEvents] /\ page.real \in [Fields -> 0 .. MaxEvents]
    BY <1>2, <1>4
  <2>4. RingSize \in RingSize .. RingSize + Seconds /\ RingSize >= RingSize
    BY <1>1
  <2> QED BY <1>2, <2>1, <2>2, <2>3, <2>4 DEF HistTypes
<1>6. \A t \in HistClock : /\ events[t].skipped <= events[t].requests
                           /\ t > second => events[t] = History!Nothing
  BY <1>2, <1>3 DEF Fields
<1>7. Cardinality(Pile(EventsOf, HistClock)) <= MaxEvents
  <2>1. \A t \in HistClock : EventsOf[t] = 0
    BY <1>2, <1>3 DEF EventsOf, Fields
  <2>2. Pile(EventsOf, HistClock) = Pile(EventsOf, {})
    BY <2>1, PileDrop
  <2>3. Pile(EventsOf, {}) = {}
    BY DEF Pile
  <2> QED BY <1>1, <2>2, <2>3, FS_EmptySet
<1>8. \A s \in HistSlots : SlotRight(s)
  BY <1>2 DEF SlotRight
<1>9. Reached /\ page.read = page.real
  <2>1. \A t \in second - RingSize + 1 .. second : t \in HistClock
    BY <1>1, <1>2 DEF HistClock
  <2> QED BY <1>2, <2>1 DEF Reached
<1> QED BY <1>5, <1>6, <1>7, <1>8, <1>9 DEF HistInv

LEMMA HistHolds ==
  ASSUME HistInv
  PROVE  History!TypeOK /\ History!HistoryExact
<1>1. RingSize \in Nat /\ RingSize > 1 /\ Seconds \in Nat /\ MaxEvents \in Nat
  BY HistConstants
<1>2. ASSUME NEW t \in HistClock, NEW f \in Fields PROVE events[t][f] \in 0 .. MaxEvents
  <2>1. /\ \A u \in HistClock : EventsOf[u] \in Nat
        /\ EventsOf[t] = events[t].requests + events[t].errors
    BY SumsEvents DEF HistInv, HistTypes
  <2>2. /\ events[t].requests \in Nat /\ events[t].errors \in Nat /\ events[t].skipped \in Nat
        /\ events[t].skipped <= events[t].requests
    BY HistFacts DEF HistInv, Fields
  <2>3. EventsOf[t] <= Cardinality(Pile(EventsOf, HistClock))
    BY <2>1, HistConstants, PileOne
  <2>4. Cardinality(Pile(EventsOf, HistClock)) \in Nat /\ Cardinality(Pile(EventsOf, HistClock)) <= MaxEvents
    BY <2>1, HistConstants, PileFinite DEF HistInv
  <2>5. f \in {"requests", "skipped", "errors"}
    BY DEF Fields
  <2> QED BY <1>1, <2>1, <2>2, <2>3, <2>4, <2>5
<1>3. \A t \in HistClock : events[t] \in [Fields -> 0 .. MaxEvents]
  BY <1>2, HistFacts
<1>4. ASSUME NEW s \in HistSlots
      PROVE  uptime_history[s] \in [timestamp : 0 .. RingSize + Seconds, n : [Fields -> 0 .. MaxEvents]]
  <2>1. /\ SlotRight(s) /\ uptime_history[s].timestamp \in HistClock
        /\ uptime_history[s].n \in [Fields -> Nat]
        /\ uptime_history[s] = [timestamp |-> uptime_history[s].timestamp, n |-> uptime_history[s].n]
    BY HistFacts DEF HistInv
  <2>2. ASSUME NEW f \in Fields PROVE uptime_history[s].n[f] \in 0 .. MaxEvents
    <3>1. CASE uptime_history[s].timestamp = 0
      BY <1>1, <2>1, <3>1, HistConstants DEF SlotRight
    <3>2. CASE uptime_history[s].timestamp # 0
      <4>1. uptime_history[s].n[f] <= events[uptime_history[s].timestamp][f]
        BY <2>1, <3>2 DEF SlotRight
      <4>2. events[uptime_history[s].timestamp][f] \in 0 .. MaxEvents /\ uptime_history[s].n[f] \in Nat
        BY <1>2, <2>1
      <4> QED BY <1>1, <4>1, <4>2
    <3> QED BY <3>1, <3>2
  <2>3. uptime_history[s].n \in [Fields -> 0 .. MaxEvents]
    BY <2>1, <2>2
  <2> QED BY <2>1, <2>3 DEF HistClock
<1>5. History!Counts = [Fields -> 0 .. MaxEvents] /\ History!Last = RingSize + Seconds
  BY HistConstants DEF History!Counts
<1>6. History!TypeOK
  <2>1. uptime_history \in [0 .. RingSize - 1 -> [timestamp : 0 .. History!Last, n : History!Counts]]
    BY <1>4, <1>5 DEF HistInv, HistTypes, HistSlots
  <2>2. events \in [HistClock -> History!Counts]
    BY <1>3, <1>5 DEF HistInv, HistTypes
  <2>3. page.read \in History!Counts /\ page.real \in History!Counts /\ lagged \in BOOLEAN
    BY <1>5 DEF HistInv, HistTypes
  <2> QED BY <2>1, <2>2, <2>3, HistFacts, HistConstants DEF History!TypeOK
<1>7. History!LastSecondsExact
  BY DEF HistInv, History!LastSecondsExact
<1>8. History!SlotComplete
  <2>1. DOMAIN uptime_history = HistSlots /\ DOMAIN History!Nothing = Fields
    BY HistConstants DEF HistInv, HistTypes
  <2>2. \A s \in HistSlots : SlotRight(s) /\ uptime_history[s].timestamp \in Nat
    BY HistFacts DEF HistInv
  <2> QED BY <2>1, <2>2 DEF SlotRight, History!SlotComplete
<1> QED BY <1>6, <1>7, <1>8 DEF History!HistoryExact

-----------------------------------------------------------------------------
(* CompressStats: the ring of slices. *)

Kinds      == {"pieces", "failed"}
StatClock  == 0 .. Slices + MaxSlices
StatSlots  == 0 .. Slices - 1
Working    == {w \in Workers : worker[w] = "compressing"}
CountOf(f) == [t \in StatClock |-> counted[t][f]]

StatTypes ==
  /\ time \in StatClock /\ ticked \in StatClock /\ ticked \in {time, time - 1} /\ ticked >= Slices
  /\ curr_slice = ticked % Slices
  /\ s_last_70 \in [StatSlots -> [Kinds -> Nat]] /\ s_totals \in [Kinds -> Nat]
  /\ worker \in [Workers -> {"waiting", "compressing"}]
  /\ thread_running \in [Workers -> BOOLEAN] /\ last_failed \in [Workers -> BOOLEAN]
  /\ counted \in [StatClock -> [Kinds -> Nat]]

(* Each slot has all of its slice; a worker reports one piece at a time.    *)
StatsInv ==
  /\ StatTypes
  /\ \A t \in StatClock : t > ticked => counted[t] = Stats!Zero
  /\ \A t \in ticked - Slices + 1 .. ticked : s_last_70[t % Slices] = counted[t]
  /\ \A f \in Kinds : s_totals[f] = Cardinality(Pile(CountOf(f), StatClock))
  /\ s_totals.pieces + s_totals.failed + Cardinality(Working) <= MaxPieces + Cardinality(Workers)
  /\ Stats!RunningShown

LEMMA StatConstants ==
  /\ IsFiniteSet(Workers) /\ Cardinality(Workers) \in Nat /\ Stats!Cardinality(Workers) = Cardinality(Workers)
  /\ Slices \in Nat /\ Slices > 2 /\ MaxSlices \in Nat /\ MaxPieces \in Nat
  /\ Stats!Clock = StatClock /\ Stats!First = Slices /\ IsFiniteSet(StatClock)
  /\ Stats!Zero \in [Kinds -> Nat] /\ (\A f \in Kinds : Stats!Zero[f] = 0)
  /\ DOMAIN Stats!Zero = Kinds
<1>1. /\ IsFiniteSet(Workers)
      /\ Slices \in Nat /\ Slices > 2 /\ MaxSlices \in Nat /\ MaxPieces \in Nat
  BY PartsAssumption DEF Stats!StatsAssumption, Stats!IsFiniteSet, IsFiniteSet
<1>2. Cardinality(Workers) \in Nat
  BY <1>1, FS_CardinalityType
<1>3. Stats!Cardinality(Workers) = Cardinality(Workers)
  BY DEF Stats!Cardinality, Cardinality
<1>4. IsFiniteSet(StatClock)
  BY <1>1, FS_Interval DEF StatClock
<1>5. Stats!Clock = StatClock /\ Stats!First = Slices
  BY DEF Stats!Clock, Stats!First, StatClock
<1>6. /\ Stats!Zero \in [Kinds -> Nat] /\ (\A f \in Kinds : Stats!Zero[f] = 0)
      /\ DOMAIN Stats!Zero = Kinds
  BY DEF Stats!Zero, Kinds
<1> QED BY <1>1, <1>2, <1>3, <1>4, <1>5, <1>6

(* The seconds of the page, from the slice before the current one back.     *)
Before     == 1 .. Slices - 1
SlotsOf(f) == [i \in Before |-> s_last_70[(curr_slice + Slices - i) % Slices][f]]

LEMMA BackInRing ==
  ASSUME StatsInv, NEW i \in 0 .. Slices - 1
  PROVE  /\ (curr_slice + Slices - i) % Slices = (ticked - i) % Slices
         /\ (ticked - i) % Slices \in StatSlots
         /\ ticked - i \in StatClock /\ ticked - i \in ticked - Slices + 1 .. ticked
         /\ s_last_70[(ticked - i) % Slices] = counted[ticked - i]
<1>1. Slices \in Nat /\ Slices > 2 /\ MaxSlices \in Nat
  BY StatConstants
<1>2. /\ ticked \in StatClock /\ ticked >= Slices /\ curr_slice = ticked % Slices
  BY DEF StatsInv, StatTypes
<1>3. ticked \in Nat /\ ticked - i \in Nat /\ ticked - i \in StatClock
  BY <1>1, <1>2 DEF StatClock
<1>4. curr_slice \in 0 .. Slices - 1 /\ curr_slice + Slices - i \in Nat
  BY <1>1, <1>2, <1>3
<1>5. PICK q \in Int : ticked = (Slices * q) + curr_slice
  <2>1. ticked = (Slices * (ticked \div Slices)) + (ticked % Slices) /\ ticked \div Slices \in Int
    BY <1>1, <1>3
  <2> QED BY <1>2, <2>1
<1>6. PICK k \in Int : k = q - 1
  OBVIOUS
<1>7. ticked - i = (curr_slice + Slices - i) + (Slices * k)
  BY <1>1, <1>3, <1>4, <1>5, <1>6
<1>8. (curr_slice + Slices - i) % Slices = (ticked - i) % Slices
  <2>1. PICK a \in Nat, b \in Nat : a = curr_slice + Slices - i /\ b = ticked - i
    BY <1>3, <1>4
  <2>2. b = a + (Slices * k) /\ Slices > 1
    BY <1>1, <1>7, <2>1
  <2>3. a % Slices = b % Slices
    BY <1>1, <2>2, SlotShift
  <2> QED BY <2>1, <2>3
<1>9. (ticked - i) % Slices \in StatSlots
  BY <1>1, <1>3 DEF StatSlots
<1>10. ticked - i \in ticked - Slices + 1 .. ticked
  BY <1>1, <1>3
<1>11. s_last_70[(ticked - i) % Slices] = counted[ticked - i]
  BY <1>10 DEF StatsInv
<1> QED BY <1>3, <1>8, <1>9, <1>10, <1>11

LEMMA SumsSlots ==
  ASSUME StatsInv, NEW f \in Kinds
  PROVE  Stats!SumOf(f) = Cardinality(Pile(SlotsOf(f), Before))
<1> DEFINE Eq(g) == g = [s \in SUBSET Before |->
              IF s = {} THEN 0
              ELSE s_last_70[(curr_slice + Slices - (CHOOSE x \in s : TRUE)) % Slices][f]
                     + g[s \ {CHOOSE x \in s : TRUE}]]
<1>1. IsFiniteSet(Before)
  BY StatConstants, FS_Interval DEF Before
<1>2. \A i \in Before : SlotsOf(f)[i] \in Nat
  <2> SUFFICES ASSUME NEW i \in Before PROVE SlotsOf(f)[i] \in Nat
    OBVIOUS
  <2>1. i \in 0 .. Slices - 1
    BY DEF Before
  <2>2. s_last_70[(curr_slice + Slices - i) % Slices] \in [Kinds -> Nat]
    BY <2>1, BackInRing DEF StatsInv, StatTypes
  <2> QED BY <2>2 DEF SlotsOf
<1>3. ASSUME NEW g PROVE Adds(g, SlotsOf(f), Before) <=> Eq(g)
  <2> DEFINE F(s) == IF s = {} THEN 0
                     ELSE SlotsOf(f)[CHOOSE x \in s : TRUE] + g[s \ {CHOOSE x \in s : TRUE}]
             G(s) == IF s = {} THEN 0
                     ELSE s_last_70[(curr_slice + Slices - (CHOOSE x \in s : TRUE)) % Slices][f]
                            + g[s \ {CHOOSE x \in s : TRUE}]
  <2>1. ASSUME NEW s \in SUBSET Before PROVE F(s) = G(s)
    <3>1. CASE s = {}
      BY <3>1
    <3>2. CASE s # {}
      <4>1. PICK i : i = CHOOSE x \in s : TRUE
        OBVIOUS
      <4>2. i \in Before
        BY <3>2, <4>1
      <4>3. SlotsOf(f)[i] = s_last_70[(curr_slice + Slices - i) % Slices][f]
        BY <4>2 DEF SlotsOf
      <4>4. F(s) = SlotsOf(f)[i] + g[s \ {i}]
        BY <3>2, <4>1
      <4>5. G(s) = s_last_70[(curr_slice + Slices - i) % Slices][f] + g[s \ {i}]
        BY <3>2, <4>1
      <4> QED BY <4>3, <4>4, <4>5
    <3> QED BY <3>1, <3>2
  <2>2. /\ Adds(g, SlotsOf(f), Before) <=> g = [s \in SUBSET Before |-> F(s)]
        /\ Eq(g) <=> g = [s \in SUBSET Before |-> G(s)]
    BY Zenon DEF Adds
  <2> HIDE DEF F, G
  <2>3. [s \in SUBSET Before |-> F(s)] = [s \in SUBSET Before |-> G(s)]
    BY <2>1, Zenon
  <2> QED BY <2>2, <2>3
<1>4. \E g : Eq(g)
  <2>1. PICK g : Adds(g, SlotsOf(f), Before)
    BY <1>1, <1>2, AddsExists
  <2>2. Eq(g)
    BY <1>3, <2>1, Zenon
  <2> HIDE DEF Eq
  <2> QED BY <2>2
<1>5. Eq(CHOOSE g : Eq(g))
  BY <1>4
<1>6. Stats!SumOf(f) = (CHOOSE g : Eq(g))[Before]
  BY DEF Stats!SumOf, Stats!MapThenSumSet, Stats!MapThenFoldSet, Before
<1> QED BY <1>1, <1>2, <1>3, <1>5, <1>6, AddsIs

Between(from, to) == {t \in StatClock : from <= t /\ t <= to}

LEMMA SumsReported ==
  ASSUME StatsInv, NEW f \in Kinds, NEW from, NEW to
  PROVE  Stats!Reported(f, from, to) = Cardinality(Pile(CountOf(f), Between(from, to)))
<1> DEFINE Some  == Between(from, to)
           Eq(g) == g = [s \in SUBSET Some |->
              IF s = {} THEN 0
              ELSE counted[CHOOSE x \in s : TRUE][f] + g[s \ {CHOOSE x \in s : TRUE}]]
<1>1. Some \subseteq StatClock /\ IsFiniteSet(Some)
  <2>1. Some \subseteq StatClock
    BY DEF Between
  <2> QED BY <2>1, StatConstants, FS_Subset
<1>2. \A t \in Some : CountOf(f)[t] \in Nat /\ CountOf(f)[t] = counted[t][f]
  BY <1>1 DEF CountOf, StatsInv, StatTypes
<1>3. ASSUME NEW g PROVE Adds(g, CountOf(f), Some) <=> Eq(g)
  <2> DEFINE F(s) == IF s = {} THEN 0
                     ELSE CountOf(f)[CHOOSE x \in s : TRUE] + g[s \ {CHOOSE x \in s : TRUE}]
             G(s) == IF s = {} THEN 0
                     ELSE counted[CHOOSE x \in s : TRUE][f] + g[s \ {CHOOSE x \in s : TRUE}]
  <2>1. ASSUME NEW s \in SUBSET Some PROVE F(s) = G(s)
    <3>1. CASE s = {}
      BY <3>1
    <3>2. CASE s # {}
      <4>1. PICK t : t = CHOOSE x \in s : TRUE
        OBVIOUS
      <4>2. t \in Some
        BY <3>2, <4>1
      <4>3. CountOf(f)[t] = counted[t][f]
        BY <1>2, <4>2
      <4>4. F(s) = CountOf(f)[t] + g[s \ {t}]
        BY <3>2, <4>1
      <4>5. G(s) = counted[t][f] + g[s \ {t}]
        BY <3>2, <4>1
      <4> QED BY <4>3, <4>4, <4>5
    <3> QED BY <3>1, <3>2
  <2>2. /\ Adds(g, CountOf(f), Some) <=> g = [s \in SUBSET Some |-> F(s)]
        /\ Eq(g) <=> g = [s \in SUBSET Some |-> G(s)]
    BY Zenon DEF Adds
  <2> HIDE DEF F, G, Some
  <2>3. [s \in SUBSET Some |-> F(s)] = [s \in SUBSET Some |-> G(s)]
    BY <2>1, Zenon
  <2> QED BY <2>2, <2>3
<1>4. \E g : Eq(g)
  <2>1. PICK g : Adds(g, CountOf(f), Some)
    <3>1. \A t \in Some : CountOf(f)[t] \in Nat
      BY <1>2
    <3> HIDE DEF Some
    <3> QED BY <1>1, <3>1, AddsExists
  <2>2. Eq(g)
    BY <1>3, <2>1, Zenon
  <2> HIDE DEF Eq
  <2> QED BY <2>2
<1>5. Eq(CHOOSE g : Eq(g))
  BY <1>4
<1>6. Stats!Reported(f, from, to) = (CHOOSE g : Eq(g))[Some]
  BY StatConstants DEF Stats!Reported, Stats!MapThenSumSet, Stats!MapThenFoldSet, Between
<1>7. Adds(CHOOSE g : Eq(g), CountOf(f), Some)
  <2> HIDE DEF Eq, Some
  <2> QED BY <1>3, <1>5
<1>8. \A t \in Some : CountOf(f)[t] \in Nat
  BY <1>2
<1> HIDE DEF Eq, Some
<1>9. (CHOOSE g : Eq(g))[Some] = Cardinality(Pile(CountOf(f), Some))
  BY <1>1, <1>7, <1>8, AddsIs
<1> QED BY <1>6, <1>9 DEF Some

LEMMA SliceFacts ==
  ASSUME StatsInv
  PROVE  /\ time \in Nat /\ ticked \in Nat /\ ticked >= Slices /\ ticked <= time
         /\ time \in StatClock /\ ticked \in StatClock /\ curr_slice \in StatSlots
         /\ curr_slice = ticked % Slices
         /\ IsFiniteSet(Working) /\ Working \subseteq Workers
         /\ Cardinality(Working) \in Nat /\ Cardinality(Working) <= Cardinality(Workers)
         /\ s_totals.pieces \in Nat /\ s_totals.failed \in Nat
         /\ \A t \in StatClock : t \in Nat /\ counted[t] \in [Kinds -> Nat]
         /\ \A f \in Kinds : \A t \in StatClock : CountOf(f)[t] \in Nat /\ CountOf(f)[t] = counted[t][f]
<1>1. Slices \in Nat /\ Slices > 2 /\ MaxSlices \in Nat /\ IsFiniteSet(Workers)
  BY StatConstants
<1>2. /\ time \in StatClock /\ ticked \in StatClock /\ ticked \in {time, time - 1} /\ ticked >= Slices
      /\ curr_slice = ticked % Slices
  BY DEF StatsInv, StatTypes
<1>3. /\ time \in Nat /\ ticked \in Nat /\ ticked <= time
  BY <1>1, <1>2 DEF StatClock
<1>4. curr_slice \in StatSlots
  BY <1>1, <1>2, <1>3 DEF StatSlots
<1>5. Working \subseteq Workers
  BY DEF Working
<1>6. IsFiniteSet(Working) /\ Cardinality(Working) \in Nat /\ Cardinality(Working) <= Cardinality(Workers)
  BY <1>1, <1>5, FS_Subset, FS_CardinalityType
<1>7. s_totals.pieces \in Nat /\ s_totals.failed \in Nat
  BY DEF StatsInv, StatTypes, Kinds
<1>8. \A t \in StatClock : t \in Nat /\ counted[t] \in [Kinds -> Nat]
  BY <1>1 DEF StatsInv, StatTypes, StatClock
<1>9. \A f \in Kinds : \A t \in StatClock : CountOf(f)[t] \in Nat /\ CountOf(f)[t] = counted[t][f]
  BY <1>8 DEF CountOf
<1> QED BY <1>1, <1>2, <1>3, <1>4, <1>5, <1>6, <1>7, <1>8, <1>9

(* Slices that are less than a ring apart have different slots. *)
LEMMA SliceOwn ==
  ASSUME StatsInv, NEW t \in ticked - Slices + 1 .. ticked
  PROVE  t \in StatClock /\ t % Slices \in StatSlots /\ (t % Slices = ticked % Slices => t = ticked)
<1>1. Slices \in Nat /\ Slices > 2 /\ MaxSlices \in Nat
  BY StatConstants
<1>2. ticked \in Nat /\ ticked >= Slices /\ ticked \in StatClock
  BY SliceFacts
<1>3. t \in Nat /\ t \in StatClock /\ t <= ticked /\ ticked - t < Slices
  BY <1>1, <1>2 DEF StatClock
<1>4. t % Slices \in StatSlots
  BY <1>1, <1>3 DEF StatSlots
<1>5. ASSUME t % Slices = ticked % Slices PROVE t = ticked
  <2> SUFFICES ASSUME t < ticked PROVE FALSE
    BY <1>2, <1>3
  <2>1. Slices > 1
    BY <1>1
  <2>2. ticked - t >= Slices
    BY <1>1, <1>2, <1>3, <1>5, <2>1, SlotApart
  <2> QED BY <1>1, <1>2, <1>3, <2>2
<1> QED BY <1>3, <1>4, <1>5

LEMMA ReportStep ==
  ASSUME StatsInv, NEW w \in Workers, NEW n \in [Kinds -> Nat], n.pieces + n.failed = 1,
         Stats!Report(w, n),
         thread_running' = [thread_running EXCEPT ![w] = (n.failed > 0)]
  PROVE  StatsInv'
<1> DEFINE sum == Stats!Add(counted[ticked], n)
<1>1. /\ worker[w] = "compressing" /\ worker' = [worker EXCEPT ![w] = "waiting"]
      /\ s_totals' = Stats!Add(s_totals, n)
      /\ s_last_70' = [s_last_70 EXCEPT ![curr_slice] = Stats!Add(s_last_70[curr_slice], n)]
      /\ counted' = [counted EXCEPT ![ticked] = sum]
      /\ last_failed' = [last_failed EXCEPT ![w] = n.failed > 0]
      /\ time' = time /\ curr_slice' = curr_slice /\ ticked' = ticked
  BY DEF Stats!Report
<1>2. \A a, b : Stats!Add(a, b) = [f \in Kinds |-> a[f] + b[f]]
  BY StatConstants DEF Stats!Add
<1>3. /\ ticked \in StatClock /\ curr_slice \in StatSlots /\ curr_slice = ticked % Slices /\ ticked \in Nat
      /\ counted[ticked] \in [Kinds -> Nat] /\ s_totals \in [Kinds -> Nat]
  BY SliceFacts DEF StatsInv, StatTypes
<1>4. s_last_70[curr_slice] = counted[ticked]
  <2>1. ticked \in ticked - Slices + 1 .. ticked
    BY <1>3, StatConstants
  <2> QED BY <1>3, <2>1 DEF StatsInv
<1>5. sum \in [Kinds -> Nat] /\ \A f \in Kinds : sum[f] = counted[ticked][f] + n[f]
  BY <1>2, <1>3
<1>6. s_totals' \in [Kinds -> Nat] /\ \A f \in Kinds : s_totals'[f] = s_totals[f] + n[f]
  BY <1>1, <1>2, <1>3
<1> HIDE DEF sum
<1>7. /\ s_last_70' = [s_last_70 EXCEPT ![curr_slice] = sum]
  BY <1>1, <1>4 DEF sum
<1>8. /\ counted' \in [StatClock -> [Kinds -> Nat]] /\ counted'[ticked] = sum
      /\ \A t \in StatClock : t # ticked => counted'[t] = counted[t]
      /\ s_last_70' \in [StatSlots -> [Kinds -> Nat]] /\ s_last_70'[curr_slice] = sum
      /\ \A s \in StatSlots : s # curr_slice => s_last_70'[s] = s_last_70[s]
  BY <1>1, <1>3, <1>5, <1>7 DEF StatsInv, StatTypes
<1>9. /\ worker \in [Workers -> {"waiting", "compressing"}]
      /\ thread_running \in [Workers -> BOOLEAN] /\ last_failed \in [Workers -> BOOLEAN]
  BY DEF StatsInv, StatTypes
<1>10. StatTypes'
  <2>1. /\ worker' \in [Workers -> {"waiting", "compressing"}]
        /\ thread_running' \in [Workers -> BOOLEAN] /\ last_failed' \in [Workers -> BOOLEAN]
    BY <1>1, <1>9
  <2> QED BY <1>1, <1>6, <1>8, <2>1 DEF StatsInv, StatTypes
<1>11. \A t \in StatClock : t > ticked' => counted'[t] = Stats!Zero
  <2>1. \A t \in StatClock : t > ticked => t # ticked
    BY <1>3
  <2> QED BY <1>1, <1>8, <2>1 DEF StatsInv
<1>12. ASSUME NEW t \in ticked - Slices + 1 .. ticked PROVE s_last_70'[t % Slices] = counted'[t]
  <2>1. t \in StatClock /\ t % Slices \in StatSlots /\ (t % Slices = curr_slice => t = ticked)
    BY <1>3, SliceOwn
  <2>2. s_last_70[t % Slices] = counted[t]
    BY DEF StatsInv
  <2> QED BY <1>3, <1>8, <2>1, <2>2
<1>13. ASSUME NEW f \in Kinds PROVE s_totals'[f] = Cardinality(Pile(CountOf(f), StatClock))'
  <2>1. \A t \in StatClock : CountOf(f)[t] \in Nat
    BY SliceFacts
  <2>2. PICK g : g = CountOf(f)'
    OBVIOUS
  <2>3. \A t \in StatClock : g[t] = counted'[t][f] /\ CountOf(f)[t] = counted[t][f]
    BY <2>2 DEF CountOf
  <2>4. n[f] \in Nat /\ g[ticked] = CountOf(f)[ticked] + n[f]
    BY <1>3, <1>5, <1>8, <2>3
  <2>5. \A t \in StatClock \ {ticked} : g[t] = CountOf(f)[t]
    BY <1>8, <2>3
  <2>6. IsFiniteSet(StatClock) /\ ticked \in StatClock
    BY <1>3, StatConstants
  <2>7. Cardinality(Pile(g, StatClock)) = Cardinality(Pile(CountOf(f), StatClock)) + n[f]
    BY <2>1, <2>4, <2>5, <2>6, PileMore
  <2>8. Pile(CountOf(f), StatClock)' = Pile(g, StatClock)
    BY <2>2 DEF Pile, Row, StatClock
  <2>9. s_totals[f] = Cardinality(Pile(CountOf(f), StatClock))
    BY DEF StatsInv
  <2> QED BY <1>6, <2>7, <2>8, <2>9
<1>14. s_totals'.pieces + s_totals'.failed + Cardinality(Working') <= MaxPieces + Cardinality(Workers)
  <2>1. Working' = Working \ {w} /\ w \in Working
    BY <1>1, <1>9 DEF Working
  <2>2. IsFiniteSet(Working)
    BY SliceFacts
  <2>3. Cardinality(Working \ {w}) = Cardinality(Working) - 1
    BY <2>1, <2>2, FS_RemoveElement
  <2>4. /\ s_totals'.pieces = s_totals.pieces + n.pieces /\ s_totals'.failed = s_totals.failed + n.failed
        /\ n.pieces \in Nat /\ n.failed \in Nat
    BY <1>6 DEF Kinds
  <2>5. s_totals.pieces + s_totals.failed + Cardinality(Working) <= MaxPieces + Cardinality(Workers)
    BY DEF StatsInv
  <2>6. /\ s_totals.pieces \in Nat /\ s_totals.failed \in Nat /\ Cardinality(Working) \in Nat
        /\ MaxPieces \in Nat /\ Cardinality(Workers) \in Nat
    BY SliceFacts, StatConstants
  <2>7. Cardinality(Working') = Cardinality(Working) - 1
    BY <2>1, <2>3
  <2> HIDE DEF Working
  <2> QED BY <2>4, <2>5, <2>6, <2>7
<1>15. Stats!RunningShown'
  <2>1. ASSUME NEW v \in Workers
        PROVE  thread_running'[v] <=> worker'[v] = "compressing" \/ last_failed'[v]
    <3>1. CASE v = w
      BY <1>1, <1>9, <3>1
    <3>2. CASE v # w
      BY <1>1, <1>9, <3>2 DEF StatsInv, Stats!RunningShown
    <3> QED BY <3>1, <3>2
  <2> QED BY <2>1 DEF Stats!RunningShown
<1> QED BY <1>1, <1>10, <1>11, <1>12, <1>13, <1>14, <1>15 DEF StatsInv

LEMMA TickStep ==
  ASSUME StatsInv, Stats!Tick
  PROVE  StatsInv'
<1>1. /\ ticked # time /\ ticked' = time /\ curr_slice' = time % Slices
      /\ s_last_70' = [s_last_70 EXCEPT ![time % Slices] = Stats!Zero]
      /\ UNCHANGED <<time, s_totals, worker, thread_running, last_failed, counted>>
  BY DEF Stats!Tick
<1>2. Slices \in Nat /\ Slices > 2 /\ Slices > 1 /\ MaxSlices \in Nat
  BY StatConstants
<1>3. /\ time = ticked + 1 /\ ticked \in Nat /\ time \in Nat /\ time \in StatClock /\ ticked >= Slices
      /\ time > ticked
  <2>1. ticked \in {time, time - 1}
    BY DEF StatsInv, StatTypes
  <2> QED BY <1>1, <2>1, SliceFacts
<1>4. time % Slices \in StatSlots
  BY <1>2, <1>3 DEF StatSlots
<1>5. /\ s_last_70' \in [StatSlots -> [Kinds -> Nat]] /\ s_last_70'[time % Slices] = Stats!Zero
      /\ \A s \in StatSlots : s # time % Slices => s_last_70'[s] = s_last_70[s]
  BY <1>1, <1>4, StatConstants DEF StatsInv, StatTypes
<1>6. StatTypes'
  <2>1. time \in {time, time - 1} /\ time >= Slices
    BY <1>2, <1>3
  <2> QED BY <1>1, <1>3, <1>5, <2>1 DEF StatsInv, StatTypes
<1>7. \A t \in StatClock : t > time => counted'[t] = Stats!Zero
  <2>1. \A t \in StatClock : t > time => t > ticked
    BY <1>3, SliceFacts
  <2> QED BY <1>1, <2>1 DEF StatsInv
<1>8. ASSUME NEW t \in time - Slices + 1 .. time PROVE s_last_70'[t % Slices] = counted'[t]
  <2>1. CASE t = time
    <3>1. counted[time] = Stats!Zero
      BY <1>3 DEF StatsInv
    <3> QED BY <1>1, <1>5, <2>1, <3>1
  <2>2. CASE t # time
    <3>1. t \in ticked - Slices + 1 .. ticked
      BY <1>2, <1>3, <2>2
    <3>2. t \in StatClock /\ t % Slices \in StatSlots /\ t \in Nat
      BY <3>1, SliceOwn, SliceFacts
    <3>3. t < time /\ time - t < Slices
      BY <1>2, <1>3, <2>2
    <3>4. t % Slices # time % Slices
      <4> SUFFICES ASSUME t % Slices = time % Slices PROVE FALSE
        OBVIOUS
      <4>1. time - t >= Slices
        BY <1>2, <1>3, <3>2, <3>3, SlotApart
      <4> QED BY <1>2, <1>3, <3>2, <3>3, <4>1
    <3>5. s_last_70[t % Slices] = counted[t]
      BY <3>1 DEF StatsInv
    <3> QED BY <1>1, <1>5, <3>2, <3>4, <3>5
  <2> QED BY <2>1, <2>2
<1>9. \A f \in Kinds : s_totals'[f] = Cardinality(Pile(CountOf(f), StatClock))'
  <2>1. \A f \in Kinds : Pile(CountOf(f), StatClock)' = Pile(CountOf(f), StatClock)
    BY <1>1 DEF Pile, Row, CountOf, StatClock
  <2> QED BY <1>1, <2>1 DEF StatsInv
<1>10. Working' = Working
  BY <1>1 DEF Working
<1>11. s_totals'.pieces + s_totals'.failed + Cardinality(Working') <= MaxPieces + Cardinality(Workers)
  BY <1>1, <1>10 DEF StatsInv
<1>12. Stats!RunningShown'
  BY <1>1 DEF StatsInv, Stats!RunningShown
<1> QED BY <1>1, <1>6, <1>7, <1>8, <1>9, <1>11, <1>12 DEF StatsInv

(* The sums over what was counted, in a step that counts nothing. *)
LEMMA SumsStay ==
  ASSUME StatsInv, UNCHANGED <<counted, s_totals>>
  PROVE  \A f \in Kinds : s_totals'[f] = Cardinality(Pile(CountOf(f), StatClock))'
<1>1. \A f \in Kinds : Pile(CountOf(f), StatClock)' = Pile(CountOf(f), StatClock)
  BY DEF Pile, Row, CountOf, StatClock
<1> QED BY <1>1 DEF StatsInv

LEMMA PassStep ==
  ASSUME StatsInv, Stats!Pass
  PROVE  StatsInv'
<1>1. /\ time < Slices + MaxSlices /\ ticked = time /\ time' = time + 1
      /\ UNCHANGED <<curr_slice, ticked, s_last_70, s_totals, worker, thread_running, last_failed, counted>>
  BY StatConstants DEF Stats!Pass
<1>2. time + 1 \in StatClock /\ ticked \in {time + 1, (time + 1) - 1}
  BY <1>1, SliceFacts, StatConstants DEF StatClock
<1>3. StatTypes'
  BY <1>1, <1>2 DEF StatsInv, StatTypes
<1>4. Working' = Working
  BY <1>1 DEF Working
<1>5. \A f \in Kinds : s_totals'[f] = Cardinality(Pile(CountOf(f), StatClock))'
  BY <1>1, SumsStay
<1>6. Stats!RunningShown'
  BY <1>1 DEF StatsInv, Stats!RunningShown
<1> QED BY <1>1, <1>3, <1>4, <1>5, <1>6 DEF StatsInv

LEMMA TakeStep ==
  ASSUME StatsInv, NEW w \in Workers, Stats!Take(w)
  PROVE  StatsInv'
<1>1. /\ worker[w] = "waiting" /\ s_totals.pieces + s_totals.failed < MaxPieces
      /\ worker' = [worker EXCEPT ![w] = "compressing"]
      /\ thread_running' = [thread_running EXCEPT ![w] = TRUE]
      /\ UNCHANGED <<time, curr_slice, ticked, s_last_70, s_totals, last_failed, counted>>
  BY DEF Stats!Take
<1>2. /\ worker \in [Workers -> {"waiting", "compressing"}]
      /\ thread_running \in [Workers -> BOOLEAN] /\ last_failed \in [Workers -> BOOLEAN]
  BY DEF StatsInv, StatTypes
<1>3. StatTypes'
  <2>1. worker' \in [Workers -> {"waiting", "compressing"}] /\ thread_running' \in [Workers -> BOOLEAN]
    BY <1>1, <1>2
  <2> QED BY <1>1, <2>1 DEF StatsInv, StatTypes
<1>4. s_totals'.pieces + s_totals'.failed + Cardinality(Working') <= MaxPieces + Cardinality(Workers)
  <2>1. IsFiniteSet(Workers) /\ Working' \subseteq Workers
    BY StatConstants DEF Working
  <2>2. Cardinality(Working') <= Cardinality(Workers) /\ Cardinality(Working') \in Nat
    BY <2>1, FS_Subset, FS_CardinalityType
  <2>3. /\ s_totals.pieces \in Nat /\ s_totals.failed \in Nat
        /\ MaxPieces \in Nat /\ Cardinality(Workers) \in Nat
    BY SliceFacts, StatConstants
  <2> HIDE DEF Working
  <2> QED BY <1>1, <2>2, <2>3
<1>5. \A f \in Kinds : s_totals'[f] = Cardinality(Pile(CountOf(f), StatClock))'
  BY <1>1, SumsStay
<1>6. Stats!RunningShown'
  <2>1. ASSUME NEW v \in Workers
        PROVE  thread_running'[v] <=> worker'[v] = "compressing" \/ last_failed'[v]
    <3>1. CASE v = w
      BY <1>1, <1>2, <3>1
    <3>2. CASE v # w
      BY <1>1, <1>2, <3>2 DEF StatsInv, Stats!RunningShown
    <3> QED BY <3>1, <3>2
  <2> QED BY <2>1 DEF Stats!RunningShown
<1> QED BY <1>1, <1>3, <1>4, <1>5, <1>6 DEF StatsInv

LEMMA StatsStep == ASSUME StatsInv, Stats!Next PROVE StatsInv'
<1>1. CASE Stats!Pass
  BY <1>1, PassStep
<1>2. CASE Stats!Tick
  BY <1>2, TickStep
<1>3. CASE \E w \in Workers : Stats!Take(w)
  BY <1>3, TakeStep
<1>4. ASSUME NEW w \in Workers, Stats!DoStats(w) PROVE StatsInv'
  <2>1. PICK n : n = [pieces |-> 1, failed |-> 0]
    OBVIOUS
  <2>2. n \in [Kinds -> Nat] /\ n.pieces + n.failed = 1 /\ (n.failed > 0) = FALSE
    BY <2>1 DEF Kinds
  <2>3. Stats!Report(w, n) /\ thread_running' = [thread_running EXCEPT ![w] = FALSE]
    BY <1>4, <2>1 DEF Stats!DoStats
  <2>4. thread_running' = [thread_running EXCEPT ![w] = (n.failed > 0)]
    BY <2>2, <2>3
  <2> QED BY <2>2, <2>3, <2>4, ReportStep
<1>5. ASSUME NEW w \in Workers, Stats!ReportFailure(w) PROVE StatsInv'
  <2>1. PICK n : n = [pieces |-> 0, failed |-> 1]
    OBVIOUS
  <2>2. n \in [Kinds -> Nat] /\ n.pieces + n.failed = 1 /\ (n.failed > 0) = TRUE
    BY <2>1 DEF Kinds
  <2>3. Stats!Report(w, n) /\ thread_running' = thread_running
    BY <1>5, <2>1 DEF Stats!ReportFailure
  <2>4. thread_running[w] = TRUE /\ thread_running \in [Workers -> BOOLEAN]
    BY <2>3 DEF StatsInv, StatTypes, Stats!RunningShown, Stats!Report
  <2>5. thread_running' = [thread_running EXCEPT ![w] = (n.failed > 0)]
    BY <2>2, <2>3, <2>4
  <2> QED BY <2>2, <2>3, <2>5, ReportStep
<1> QED BY <1>1, <1>2, <1>3, <1>4, <1>5 DEF Stats!Next

LEMMA StatsStart == ASSUME Stats!Init PROVE StatsInv
<1>1. /\ time = Slices /\ curr_slice = Slices % Slices /\ ticked = Slices
      /\ s_last_70 = [s \in StatSlots |-> Stats!Zero] /\ s_totals = Stats!Zero
      /\ worker = [w \in Workers |-> "waiting"]
      /\ thread_running = [w \in Workers |-> FALSE] /\ last_failed = [w \in Workers |-> FALSE]
      /\ counted = [t \in StatClock |-> Stats!Zero]
  BY StatConstants DEF Stats!Init, StatSlots
<1>2. Slices \in Nat /\ Slices > 2 /\ MaxSlices \in Nat /\ MaxPieces \in Nat /\ Cardinality(Workers) \in Nat
  BY StatConstants
<1>3. /\ Stats!Zero \in [Kinds -> Nat] /\ (\A f \in Kinds : Stats!Zero[f] = 0)
  BY StatConstants
<1>4. StatTypes
  <2>1. Slices \in StatClock /\ Slices \in {Slices, Slices - 1} /\ Slices >= Slices
    BY <1>2 DEF StatClock
  <2>2. s_last_70 \in [StatSlots -> [Kinds -> Nat]] /\ counted \in [StatClock -> [Kinds -> Nat]]
    BY <1>1, <1>3
  <2> QED BY <1>1, <1>3, <2>1, <2>2 DEF StatTypes
<1>5. ASSUME NEW t \in ticked - Slices + 1 .. ticked PROVE s_last_70[t % Slices] = counted[t]
  <2>1. t \in StatClock /\ t % Slices \in StatSlots
    BY <1>1, <1>2 DEF StatClock, StatSlots
  <2> QED BY <1>1, <2>1
<1>6. ASSUME NEW f \in Kinds PROVE s_totals[f] = Cardinality(Pile(CountOf(f), StatClock))
  <2>1. \A t \in StatClock : CountOf(f)[t] = 0
    BY <1>1, <1>3 DEF CountOf
  <2>2. Pile(CountOf(f), StatClock) = Pile(CountOf(f), {})
    BY <2>1, PileDrop
  <2>3. Pile(CountOf(f), {}) = {}
    BY DEF Pile
  <2> QED BY <1>1, <1>3, <2>2, <2>3, FS_EmptySet
<1>7. s_totals.pieces + s_totals.failed + Cardinality(Working) <= MaxPieces + Cardinality(Workers)
  <2>1. Working = {}
    BY <1>1 DEF Working
  <2>2. Cardinality(Working) = 0
    BY <2>1, FS_EmptySet
  <2>3. s_totals.pieces = 0 /\ s_totals.failed = 0
    BY <1>1, <1>3 DEF Kinds
  <2> QED BY <1>2, <2>2, <2>3
<1>8. Stats!RunningShown
  BY <1>1 DEF Stats!RunningShown
<1>9. \A t \in StatClock : t > ticked => counted[t] = Stats!Zero
  BY <1>1
<1> QED BY <1>4, <1>5, <1>6, <1>7, <1>8, <1>9 DEF StatsInv

LEMMA StatsHolds ==
  ASSUME StatsInv
  PROVE  Stats!TypeOK /\ Stats!StatsExact
<1>1. /\ Slices \in Nat /\ Slices > 2 /\ MaxSlices \in Nat /\ MaxPieces \in Nat
      /\ Cardinality(Workers) \in Nat /\ IsFiniteSet(StatClock)
  BY StatConstants
<1>2. /\ time \in Nat /\ ticked \in Nat /\ ticked >= Slices /\ ticked <= time
      /\ time \in StatClock /\ ticked \in StatClock /\ curr_slice \in StatSlots
  BY SliceFacts
<1>3. PICK n \in Nat : n = MaxPieces + Cardinality(Workers)
  BY <1>1
<1>4. s_totals \in [Kinds -> 0 .. n]
  <2>1. /\ s_totals.pieces \in Nat /\ s_totals.failed \in Nat /\ Cardinality(Working) \in Nat
        /\ s_totals.pieces + s_totals.failed + Cardinality(Working) <= n
    BY <1>3, SliceFacts DEF StatsInv
  <2>2. s_totals.pieces \in 0 .. n /\ s_totals.failed \in 0 .. n
    BY <2>1
  <2>3. s_totals \in [Kinds -> Nat]
    BY DEF StatsInv, StatTypes
  <2>4. \A f \in Kinds : s_totals[f] \in 0 .. n
    BY <2>2 DEF Kinds
  <2> QED BY <2>3, <2>4
<1>5. ASSUME NEW t \in StatClock, NEW f \in Kinds PROVE counted[t][f] \in 0 .. n
  <2>1. \A u \in StatClock : CountOf(f)[u] \in Nat
    BY SliceFacts
  <2>2. CountOf(f)[t] = counted[t][f] /\ CountOf(f)[t] \in Nat
    BY SliceFacts
  <2>3. CountOf(f)[t] <= Cardinality(Pile(CountOf(f), StatClock))
    BY <1>1, <2>1, PileOne
  <2>4. s_totals[f] = Cardinality(Pile(CountOf(f), StatClock)) /\ s_totals[f] \in 0 .. n
    BY <1>4 DEF StatsInv
  <2> QED BY <2>2, <2>3, <2>4
<1>6. ASSUME NEW s \in StatSlots PROVE s_last_70[s] \in [Kinds -> 0 .. n]
  <2>1. \E t \in ticked - Slices + 1 .. ticked : t % Slices = s
    <3>1. PICK q \in Int : ticked = (Slices * q) + (ticked % Slices)
      <4>1. ticked = (Slices * (ticked \div Slices)) + (ticked % Slices) /\ ticked \div Slices \in Int
        BY <1>1, <1>2
      <4> QED BY <4>1
    <3>2. PICK r \in 0 .. Slices - 1 : r = ticked % Slices
      BY <1>1, <1>2
    <3>3. s \in 0 .. Slices - 1
      BY DEF StatSlots
    <3>4. PICK d \in {0, 1} : s - r - (Slices * d) \in -Slices + 1 .. 0
      <4>1. CASE s <= r
        BY <1>1, <3>3, <4>1
      <4>2. CASE s > r
        BY <1>1, <3>3, <4>2
      <4> QED BY <3>3, <4>1, <4>2
    <3>5. PICK t : t = ticked + (s - r - (Slices * d))
      OBVIOUS
    <3>6. t \in ticked - Slices + 1 .. ticked /\ t \in Nat /\ s \in Nat
      BY <1>1, <1>2, <3>3, <3>4, <3>5
    <3>7. PICK k \in Int : k = q - d
      BY <3>1, <3>4
    <3>8. t = s + (Slices * k)
      BY <1>1, <3>1, <3>2, <3>3, <3>4, <3>5, <3>7
    <3>9. s % Slices = t % Slices
      <4>1. Slices > 1
        BY <1>1
      <4> QED BY <1>1, <3>6, <3>8, <4>1, SlotShift
    <3>10. s % Slices = s
      BY <1>1, <3>3
    <3> QED BY <3>6, <3>9, <3>10
  <2>2. PICK t \in ticked - Slices + 1 .. ticked : t % Slices = s
    BY <2>1
  <2>3. t \in StatClock /\ s_last_70[s] = counted[t]
    BY <2>2, SliceOwn DEF StatsInv
  <2>4. counted[t] \in [Kinds -> Nat]
    BY <2>3, SliceFacts
  <2> QED BY <1>5, <2>3, <2>4
<1>7. Stats!Counts = [Kinds -> 0 .. n]
  BY <1>3, StatConstants DEF Stats!Counts
<1>8. Stats!TypeOK
  <2>1. s_last_70 \in [0 .. Slices - 1 -> Stats!Counts]
    BY <1>6, <1>7 DEF StatsInv, StatTypes, StatSlots
  <2> QED BY <1>2, <1>4, <1>7, <2>1, StatConstants DEF Stats!TypeOK, StatsInv, StatTypes, StatSlots
<1>9. ASSUME NEW f \in Kinds PROVE Stats!SumOf(f) = Stats!Reported(f, ticked - Slices + 1, ticked - 1)
  <2>1. PICK m \in Nat : m = Slices - 1
    BY <1>1
  <2>2. Between(ticked - Slices + 1, ticked - 1) = ticked - m .. ticked - 1
    BY <1>1, <1>2, <2>1 DEF Between, StatClock
  <2>3. ASSUME NEW i \in 1 .. m
        PROVE  SlotsOf(f)[i] \in Nat /\ SlotsOf(f)[i] = CountOf(f)[ticked - i]
    <3>1. i \in 0 .. Slices - 1 /\ i \in Before
      BY <1>1, <2>1 DEF Before
    <3>2. /\ (curr_slice + Slices - i) % Slices = (ticked - i) % Slices /\ ticked - i \in StatClock
          /\ s_last_70[(ticked - i) % Slices] = counted[ticked - i]
      BY <3>1, BackInRing
    <3>3. SlotsOf(f)[i] = counted[ticked - i][f]
      BY <3>1, <3>2 DEF SlotsOf
    <3>4. CountOf(f)[ticked - i] = counted[ticked - i][f] /\ CountOf(f)[ticked - i] \in Nat
      BY <3>2, SliceFacts
    <3> QED BY <3>3, <3>4
  <2>4. ticked \in Int
    BY <1>2
  <2>5. Cardinality(Pile(SlotsOf(f), 1 .. m)) = Cardinality(Pile(CountOf(f), ticked - m .. ticked - 1))
    BY <2>3, <2>4, PileTurned
  <2>6. Before = 1 .. m
    BY <2>1 DEF Before
  <2> QED BY <2>2, <2>5, <2>6, SumsSlots, SumsReported
<1>10. ASSUME NEW f \in Kinds PROVE s_totals[f] = Stats!Reported(f, 0, ticked)
  <2>1. Between(0, ticked) \subseteq StatClock
    BY DEF Between
  <2>2. \A t \in StatClock \ Between(0, ticked) : CountOf(f)[t] = 0
    <3> SUFFICES ASSUME NEW t \in StatClock \ Between(0, ticked) PROVE CountOf(f)[t] = 0
      OBVIOUS
    <3>1. t \in Nat /\ CountOf(f)[t] = counted[t][f]
      BY SliceFacts
    <3>2. t > ticked
      BY <1>2, <3>1 DEF Between
    <3>3. counted[t] = Stats!Zero
      BY <3>2 DEF StatsInv
    <3> QED BY <3>1, <3>3, StatConstants
  <2>3. Pile(CountOf(f), StatClock) = Pile(CountOf(f), Between(0, ticked))
    BY <2>1, <2>2, PileDrop
  <2>4. Stats!Reported(f, 0, ticked) = Cardinality(Pile(CountOf(f), Between(0, ticked)))
    BY SumsReported
  <2> QED BY <2>3, <2>4 DEF StatsInv
<1>11. Stats!LastSlicesExact
  BY <1>9, <1>10, StatConstants DEF Stats!LastSlicesExact
<1> QED BY <1>8, <1>11 DEF StatsInv, Stats!StatsExact

-----------------------------------------------------------------------------
(* The parts together: each step is one of the part that a behaviour is     *)
(* about, and the invariant of that part is kept.                           *)

HistPart   == part = "history" => HistInv
StatsPart  == part = "stats"  => StatsInv
PoolPart   == part = "pool"   => PoolInv
ReloadPart == part = "reload" => ReloadInv
MergePart  == part = "merge"  => MergeInv
HttpPart   == part = "http"   => HttpInv

PartsRight == HistPart /\ StatsPart /\ PoolPart /\ ReloadPart /\ MergePart /\ HttpPart

LEMMA PartsStart == Init => PartsRight
<1> SUFFICES ASSUME Init PROVE PartsRight
  OBVIOUS
<1>1. part = "pool" => Pool!Init
  BY Zenon DEF Init
<1>2. part = "reload" => Reloader!Init
  BY Zenon DEF Init
<1>3. part = "merge" => Merger!Init
  BY Zenon DEF Init
<1>4. part = "http" => Http!Init
  BY Zenon DEF Init
<1>5. part = "history" => History!Init
  BY Zenon DEF Init
<1>6. part = "stats" => Stats!Init
  BY Zenon DEF Init
<1> QED BY <1>1, <1>2, <1>3, <1>4, <1>5, <1>6,
           PoolStart, ReloadStart, MergeStart, HttpStart, HistStart, StatsStart
        DEF PartsRight, PoolPart, ReloadPart, MergePart, HttpPart, HistPart, StatsPart

LEMMA Untouched ==
  /\ PoolInv /\ UNCHANGED pool_vars => PoolInv'
  /\ ReloadInv /\ UNCHANGED reload_vars => ReloadInv'
  /\ MergeInv /\ UNCHANGED merge_vars => MergeInv'
  /\ HttpInv /\ UNCHANGED http_vars => HttpInv'
  /\ HistInv /\ UNCHANGED history_vars => HistInv'
  /\ StatsInv /\ UNCHANGED stats_vars => StatsInv'
<1>1. ASSUME PoolInv, UNCHANGED pool_vars PROVE PoolInv'
  BY <1>1, Zenon DEF pool_vars, PoolInv, Pool!TypeOK, Busy, Pool!Busy, Pushing, Below, Pool!OneUser,
     Pool!WritersMatchPeak, Pool!PredictionsBounded
<1>2. ASSUME ReloadInv, UNCHANGED reload_vars PROVE ReloadInv'
  BY <1>2, Zenon DEF reload_vars, ReloadInv
<1>3. ASSUME MergeInv, UNCHANGED merge_vars PROVE MergeInv'
  <2>1. UNCHANGED <<machine, written, config, todo, local_interfaces, done>>
    BY <1>3 DEF merge_vars
  <2>2. Local0' = Local0 /\ \A p, l : Added(p, l)' = Added(p, l)
    BY <2>1 DEF Local0, Merger!Local0, Added
  <2>3. KeyRight(LocalKey)' /\ KeyRight(ParamKey)'
    BY <1>3, <2>1 DEF MergeInv, KeyRight
  <2>4. LocalRight' /\ ParamRight'
    BY <1>3, <2>1, <2>2 DEF MergeInv, LocalRight, ParamRight
  <2> QED BY <1>3, <2>1, <2>3, <2>4 DEF MergeInv
<1>4. ASSUME HttpInv, UNCHANGED http_vars PROVE HttpInv'
  <2>1. UNCHANGED <<action_handlers, actionToHandlerNum, serving, httpRequestId, status, at,
                    action, answered_by, holding, panicked>>
    BY <1>4 DEF http_vars
  <2>2. \A a : Http!Latest(a)' = Http!Latest(a)
    BY <2>1 DEF Http!Latest
  <2>3. \A r \in Requests : RequestRight(r)'
    BY <1>4, <2>1, <2>2 DEF HttpInv, RequestRight
  <2>4. HttpTypes' /\ \A a \in Actions : Chosen(action_handlers', a, actionToHandlerNum'[a])
    BY <1>4, <2>1 DEF HttpInv, HttpTypes, Requests
  <2> QED BY <2>3, <2>4 DEF HttpInv, Requests
<1>5. ASSUME HistInv, UNCHANGED history_vars PROVE HistInv'
  <2>1. UNCHANGED <<second, unixTS, uptime_history, events, page, lagged>>
    BY <1>5 DEF history_vars
  <2>2. Pile(EventsOf, HistClock)' = Pile(EventsOf, HistClock)
    BY <2>1 DEF Pile, Row, EventsOf, HistClock
  <2>3. (Reached' <=> Reached) /\ \A s \in HistSlots : SlotRight(s)' <=> SlotRight(s)
    BY <2>1 DEF Reached, SlotRight
  <2>4. HistTypes'
    BY <1>5, <2>1 DEF HistInv, HistTypes
  <2> QED BY <1>5, <2>1, <2>2, <2>3, <2>4 DEF HistInv
<1>6. ASSUME StatsInv, UNCHANGED stats_vars PROVE StatsInv'
  <2>1. UNCHANGED <<time, curr_slice, ticked, s_last_70, s_totals, worker, thread_running, last_failed, counted>>
    BY <1>6 DEF stats_vars
  <2>2. \A f \in Kinds : Pile(CountOf(f), StatClock)' = Pile(CountOf(f), StatClock)
    BY <2>1 DEF Pile, Row, CountOf, StatClock
  <2>3. StatTypes' /\ Working' = Working /\ Stats!RunningShown'
    BY <1>6, <2>1 DEF StatsInv, StatTypes, Working, Stats!RunningShown
  <2> QED BY <1>6, <2>1, <2>2, <2>3 DEF StatsInv
<1> QED BY <1>1, <1>2, <1>3, <1>4, <1>5, <1>6

LEMMA PartsStep == PartsRight /\ [Next]_vars => PartsRight'
<1> SUFFICES ASSUME PartsRight, [Next]_vars PROVE PartsRight'
  OBVIOUS
<1>1. part' = part
  BY Zenon DEF Next, vars
<1>2. part = "pool" => Pool!Next \/ UNCHANGED pool_vars
  BY Zenon DEF Next, vars
<1>3. part = "reload" => Reloader!Next \/ UNCHANGED reload_vars
  BY Zenon DEF Next, vars
<1>4. part = "merge" => Merger!Next \/ UNCHANGED merge_vars
  BY Zenon DEF Next, vars
<1>5. part = "http" => Http!Next \/ UNCHANGED http_vars
  BY Zenon DEF Next, vars
<1>6. part = "history" => History!Next \/ UNCHANGED history_vars
  BY Zenon DEF Next, vars
<1>7. part = "stats" => Stats!Next \/ UNCHANGED stats_vars
  BY Zenon DEF Next, vars
<1>8. PoolPart /\ ReloadPart /\ MergePart /\ HttpPart /\ HistPart /\ StatsPart
  BY DEF PartsRight
<1>9. PoolPart'
  BY <1>1, <1>2, <1>8, PoolStep, Untouched DEF PoolPart
<1>10. ReloadPart'
  BY <1>1, <1>3, <1>8, ReloadStep, Untouched DEF ReloadPart
<1>11. MergePart'
  BY <1>1, <1>4, <1>8, MergeStep, Untouched DEF MergePart
<1>12. HttpPart'
  BY <1>1, <1>5, <1>8, HttpStep, Untouched DEF HttpPart
<1>13. HistPart'
  BY <1>1, <1>6, <1>8, HistStep, Untouched DEF HistPart
<1>14. StatsPart'
  BY <1>1, <1>7, <1>8, StatsStep, Untouched DEF StatsPart
<1> QED BY <1>9, <1>10, <1>11, <1>12, <1>13, <1>14 DEF PartsRight

(* What each part of a behaviour keeps. *)
THEOREM PartsAlwaysRight == Spec => []PartsRight
BY PartsStart, PartsStep, PTL DEF Spec

(* The last seconds of the status page (stats/stats_history.go): the page   *)
(* shows the requests, skipped responses and errors of the last whole       *)
(* seconds exactly, and a slot of the ring has all that was counted in its  *)
(* second, unless the page was read while the copy of the clock was late;   *)
(* it never has more.                                                       *)
THEOREM HistoryAlwaysExact == Spec => []HistoryExact
<1>1. PartsRight => HistoryExact
  BY HistHolds DEF PartsRight, HistPart, HistoryExact
<1> QED BY <1>1, PartsAlwaysRight, PTL

(* The statistics of the compressor (compress/status.go): a worker is shown *)
(* as running exactly while it compresses or after a piece that failed; the *)
(* slices of the page are those before the current one, each with all that  *)
(* was reported in it and nothing of the round before, and the totals are   *)
(* the sum of all.                                                          *)
THEOREM StatsAlwaysExact == Spec => []StatsExact
<1>1. PartsRight => StatsExact
  BY StatsHolds DEF PartsRight, StatsPart, StatsExact
<1> QED BY <1>1, PartsAlwaysRight, PTL

(* The pool of writers (compress/simple.go): a writer is never given to two *)
(* callers, never on the stack while in use nor on it twice; one is made    *)
(* only when more callers compress at a time than ever before and none is   *)
(* lost; the counters of the predictions never show more than was done, and *)
(* miss nothing while no two callers overlap.                               *)
THEOREM WritersAlwaysExact == Spec => []WritersExact
<1>1. PartsRight => WritersExact
  BY DEF PartsRight, PoolPart, PoolInv, WritersExact, Pool!WritersExact
<1> QED BY <1>1, PartsAlwaysRight, PTL

(* Loading the configuration (config.go): when the configuration in use is  *)
(* not what the file says, although it has the time of the file, then the   *)
(* file was changed between its stat and its read, or in the very second in *)
(* which it was loaded.                                                     *)
THEOREM StaleOnlyEverByRace == Spec => []StaleOnlyByRace
<1>1. PartsRight => StaleOnlyByRace
  BY ReloadHolds DEF PartsRight, ReloadPart, StaleOnlyByRace
<1> QED BY <1>1, PartsAlwaysRight, PTL

(* Merging the configuration (config.go): in whatever order the keys of the *)
(* file are visited, the local interfaces come out the same, and a          *)
(* parameter gets all that the first local interfaces add to it and nothing *)
(* that no local interface adds.                                            *)
THEOREM ConfigAlwaysMerged == Spec => []ConfigMerged
<1>1. PartsRight => ConfigMerged
  BY MergeHolds DEF PartsRight, MergePart, ConfigMerged
<1> QED BY <1>1, PartsAlwaysRight, PTL

(* Requests over HTTP (hs_http.go): each is given to the handler registered *)
(* last for its action, and the list of the status page has exactly those   *)
(* that run, that hold memory, or that panicked.                            *)
THEOREM RequestsAlwaysListed == Spec => []RequestsListed
<1>1. PartsRight => RequestsListed
  BY HttpHolds DEF PartsRight, HttpPart, RequestsListed
<1> QED BY <1>1, PartsAlwaysRight, PTL
=============================================================================
