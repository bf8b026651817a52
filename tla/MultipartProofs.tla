--------------------------- MODULE MultipartProofs ---------------------------
(***************************************************************************)
(* Proofs about MultipartCompress, for every number of callers, workers    *)
(* and pieces and every capacity of the channels.                          *)
(***************************************************************************)
EXTENDS MultipartCompress, FiniteSetTheorems, SequenceTheorems, TLAPS

-----------------------------------------------------------------------------
(* The inductive invariant. *)

(* A piece of a caller is somewhere on its way. *)
InQueue(c, n)  == \E p \in Pools : \E i \in DOMAIN queue[p] :
                    queue[p][i].caller = c /\ queue[p][i].piece = n
InWork(c, n)   == \E w \in Workers \cup FastWorkers :
                    job[w] # NoJob /\ job[w].caller = c /\ job[w].piece = n
Answered(c, n) == \E i \in DOMAIN ch_out[c] : ch_out[c][i].piece = n
Pending(c, n)  == InQueue(c, n) \/ InWork(c, n) \/ Answered(c, n)

Calling == {"send", "receive", "drain"}

(* Where the caller is tells how many of its pieces are on their way. *)
Counted ==
  \A c \in Callers :
    /\ IsFiniteSet(AtWork(c))
    /\ pc[c] \in {"idle", "fastSend"} => InFlight(c) = 0
    /\ pc[c] = "fastWait" => InFlight(c) = 1
    /\ pc[c] \in Calling => in_progress[c] = InFlight(c)

(* The loop over the blocks. *)
InLoop ==
  \A c \in Callers :
    /\ pc[c] = "send" => in_progress[c] < Window /\ piece_no[c] < tasks_no[c]
    /\ pc[c] \in {"send", "receive"} => ~is_broken[c] /\ piece_no[c] <= tasks_no[c]
    /\ pc[c] = "drain" => is_broken[c] \/ piece_no[c] = tasks_no[c]

(* Of a call's pieces only those sent are on their way, and while none      *)
(* failed each piece sent is recorded or on its way.                        *)
Sent ==
  \A c \in Callers : pc[c] \in Calling =>
    /\ \A n \in Pieces : Pending(c, n) => n < piece_no[c]
    /\ ~is_broken[c] =>
         /\ \A n \in chunks[c] : n < piece_no[c]
         /\ \A n \in 0 .. piece_no[c] - 1 : n \in chunks[c] \/ Pending(c, n)

(* No two places in the queues and at the workers have the same piece of    *)
(* the same caller.                                                         *)
QueuedApart ==
  \A p, q \in Pools : \A i \in DOMAIN queue[p], j \in DOMAIN queue[q] :
    p # q \/ i # j => \/ queue[p][i].caller # queue[q][j].caller
                      \/ queue[p][i].piece # queue[q][j].piece
WorkApart ==
  \A p \in Pools : \A i \in DOMAIN queue[p] : \A w \in Workers \cup FastWorkers :
    job[w] # NoJob => \/ queue[p][i].caller # job[w].caller
                      \/ queue[p][i].piece # job[w].piece
Apart == QueuedApart /\ WorkApart /\ OneWriter

IInv == TypeOK /\ Counted /\ InLoop /\ Sent /\ Apart

-----------------------------------------------------------------------------
(* Sequences of pieces. *)

LEMMA TailFacts ==
  ASSUME NEW S, NEW q \in Seq(S), q # <<>>
  PROVE  /\ Len(q) \in Nat \ {0} /\ DOMAIN q = 1 .. Len(q)
         /\ Head(q) = q[1] /\ 1 \in DOMAIN q /\ Head(q) \in S
         /\ Tail(q) \in Seq(S) /\ Len(Tail(q)) = Len(q) - 1
         /\ DOMAIN Tail(q) = 1 .. Len(q) - 1
         /\ \A i \in 1 .. Len(q) - 1 : Tail(q)[i] = q[i + 1]
<1>1. Len(q) \in Nat \ {0} /\ DOMAIN q = 1 .. Len(q)
  BY EmptySeq, LenProperties
<1>2. Tail(q) \in Seq(S) /\ Len(Tail(q)) = Len(q) - 1 /\ Head(q) \in S
  BY HeadTailProperties
<1>3. DOMAIN Tail(q) = 1 .. Len(Tail(q))
  BY <1>2, LenProperties
<1>4. \A i \in 1 .. Len(Tail(q)) : Tail(q)[i] = q[i + 1]
  BY HeadTailProperties
<1>5. Head(q) = q[1]
  OBVIOUS
<1> QED BY <1>1, <1>2, <1>3, <1>4, <1>5

LEMMA SentByType ==
  ASSUME NEW q \in Seq(QueuedPiece), NEW c
  PROVE  /\ IsFiniteSet(SentBy(c, q))
         /\ Cardinality(SentBy(c, q)) \in Nat
         /\ Cardinality(SentBy(c, q)) = 0 => \A i \in DOMAIN q : q[i].caller # c
<1>1. DOMAIN q = 1 .. Len(q) /\ Len(q) \in Nat
  BY LenProperties
<1>2. SentBy(c, q) \subseteq 1 .. Len(q)
  BY <1>1 DEF SentBy
<1>3. IsFiniteSet(SentBy(c, q))
  <2>1. IsFiniteSet(1 .. Len(q))
    BY <1>1, FS_Interval
  <2> QED BY <1>2, <2>1, FS_Subset
<1>4. Cardinality(SentBy(c, q)) = 0 => SentBy(c, q) = {}
  BY <1>3, FS_EmptySet
<1> QED BY <1>3, <1>4, FS_CardinalityType DEF SentBy

LEMMA SentByAppend ==
  ASSUME NEW q \in Seq(QueuedPiece), NEW e \in QueuedPiece, NEW c
  PROVE  Cardinality(SentBy(c, Append(q, e))) =
           Cardinality(SentBy(c, q)) + (IF e.caller = c THEN 1 ELSE 0)
<1> DEFINE r == Append(q, e)
           k == Len(q) + 1
<1>1. /\ Len(q) \in Nat /\ DOMAIN q = 1 .. Len(q)
      /\ r \in Seq(QueuedPiece) /\ Len(r) = k /\ DOMAIN r = 1 .. k
      /\ \A i \in 1 .. Len(q) : r[i] = q[i]
      /\ r[k] = e
  BY LenProperties, AppendProperties
<1> HIDE DEF r
<1>2. k \notin SentBy(c, q)
  BY <1>1 DEF SentBy
<1>3. CASE e.caller = c
  <2>1. SentBy(c, r) = SentBy(c, q) \cup {k}
    BY <1>1, <1>3 DEF SentBy
  <2> QED BY <2>1, <1>2, <1>3, SentByType, FS_AddElement DEF r
<1>4. CASE e.caller # c
  <2>1. SentBy(c, r) = SentBy(c, q)
    BY <1>1, <1>4 DEF SentBy
  <2> QED BY <2>1, <1>4, SentByType DEF r
<1> QED BY <1>3, <1>4

LEMMA SentByTail ==
  ASSUME NEW q \in Seq(QueuedPiece), q # <<>>, NEW c
  PROVE  Cardinality(SentBy(c, q)) =
           Cardinality(SentBy(c, Tail(q))) + (IF Head(q).caller = c THEN 1 ELSE 0)
<1> DEFINE t == Tail(q)
           S == SentBy(c, q) \ {1}
           T == SentBy(c, t)
           f == [i \in T |-> i + 1]
<1>1. /\ Len(q) \in Nat \ {0} /\ DOMAIN q = 1 .. Len(q) /\ Head(q) = q[1]
      /\ t \in Seq(QueuedPiece) /\ Len(t) = Len(q) - 1 /\ DOMAIN t = 1 .. Len(q) - 1
      /\ \A i \in 1 .. Len(q) - 1 : t[i] = q[i + 1]
  BY TailFacts
<1>2. S \subseteq 2 .. Len(q) /\ T \subseteq 1 .. Len(q) - 1
  BY <1>1 DEF SentBy
<1>3. f \in Bijection(T, S)
  <2>1. \A i \in T : i + 1 \in S
    BY <1>1 DEF SentBy
  <2>2. \A j \in S : j - 1 \in T /\ (j - 1) + 1 = j
    BY <1>1, <1>2 DEF SentBy
  <2> HIDE DEF S, T
  <2>3. f \in [T -> S] /\ \A i, j \in T : f[i] = f[j] => i = j
    BY <2>1, <1>2
  <2>4. \A j \in S : \E i \in T : f[i] = j
    BY <2>2
  <2> QED BY <2>3, <2>4 DEF Bijection, Injection, IsInjective, Surjection
<1>4. IsFiniteSet(T) /\ IsFiniteSet(SentBy(c, q))
  BY <1>1, SentByType
<1>5. Cardinality(S) = Cardinality(T)
  BY <1>3, <1>4, FS_Bijection DEF ExistsBijection
<1>6. 1 \in SentBy(c, q) <=> Head(q).caller = c
  BY <1>1 DEF SentBy
<1> HIDE DEF S, T
<1>7. Cardinality(SentBy(c, q)) = Cardinality(T) + (IF Head(q).caller = c THEN 1 ELSE 0)
  <2>1. Cardinality(S) = IF 1 \in SentBy(c, q) THEN Cardinality(SentBy(c, q)) - 1
                         ELSE Cardinality(SentBy(c, q))
    BY <1>4, FS_RemoveElement DEF S
  <2>2. Cardinality(SentBy(c, q)) \in Nat /\ Cardinality(T) \in Nat
    BY <1>4, FS_CardinalityType
  <2> QED BY <2>1, <2>2, <1>5, <1>6
<1> QED BY <1>7 DEF T


-----------------------------------------------------------------------------
(* The number of a caller's pieces on their way. *)

LEMMA QueueFacts ==
  ASSUME TypeOK
  PROVE  /\ \A p \in Pools : /\ queue[p] \in Seq(QueuedPiece) /\ Len(queue[p]) \in Nat
                             /\ DOMAIN queue[p] = 1 .. Len(queue[p])
                             /\ \A i \in DOMAIN queue[p] : queue[p][i] \in QueuedPiece
         /\ \A c \in Callers :
              /\ ch_out[c] \in Seq([piece : Pieces, ok : BOOLEAN]) /\ Len(ch_out[c]) \in Nat
              /\ DOMAIN ch_out[c] = 1 .. Len(ch_out[c])
              /\ \A i \in DOMAIN ch_out[c] : ch_out[c][i] \in [piece : Pieces, ok : BOOLEAN]
<1>1. \A S : \A q \in Seq(S) : /\ Len(q) \in Nat /\ DOMAIN q = 1 .. Len(q)
                               /\ \A i \in DOMAIN q : q[i] \in S
  BY LenProperties, ElementOfSeq
<1>2. /\ \A p \in Pools : queue[p] \in Seq(QueuedPiece)
      /\ \A c \in Callers : ch_out[c] \in Seq([piece : Pieces, ok : BOOLEAN])
  BY DEF TypeOK
<1> QED BY <1>1, <1>2

LEMMA InFlightType ==
  ASSUME TypeOK, NEW c \in Callers, IsFiniteSet(AtWork(c))
  PROVE  /\ Cardinality(SentBy(c, queue["normal"])) \in Nat
         /\ Cardinality(SentBy(c, queue["fast"])) \in Nat
         /\ Cardinality(AtWork(c)) \in Nat
         /\ Len(ch_out[c]) \in Nat
         /\ InFlight(c) \in Nat
BY QueueFacts, SentByType, FS_CardinalityType DEF InFlight, Pools

(* Nothing on its way, nothing pending. *)
LEMMA NothingPending ==
  ASSUME TypeOK, NEW c \in Callers, IsFiniteSet(AtWork(c)), InFlight(c) = 0
  PROVE  /\ \A n : ~Pending(c, n)
         /\ AtWork(c) = {} /\ ch_out[c] = <<>>
<1>1. /\ Cardinality(SentBy(c, queue["normal"])) = 0
      /\ Cardinality(SentBy(c, queue["fast"])) = 0
      /\ Cardinality(AtWork(c)) = 0 /\ Len(ch_out[c]) = 0
  BY InFlightType DEF InFlight
<1>2. \A p \in Pools : \A i \in DOMAIN queue[p] : queue[p][i].caller # c
  BY <1>1, QueueFacts, SentByType DEF Pools
<1>3. AtWork(c) = {}
  BY <1>1, FS_EmptySet
<1>4. ch_out[c] = <<>> /\ DOMAIN ch_out[c] = {}
  BY <1>1, QueueFacts, EmptySeq
<1> QED BY <1>2, <1>3, <1>4 DEF Pending, InQueue, InWork, Answered, AtWork

(* A piece goes into a queue. *)
LEMMA SendEffect ==
  ASSUME TypeOK, Counted, NEW p \in Pools, NEW c \in Callers, NEW n \in Pieces,
         Send(p, c, n), UNCHANGED <<job, ch_out>>
  PROVE  /\ queue' \in [Pools -> Seq(QueuedPiece)]
         /\ \A x \in Pools : Len(queue'[x]) <= Cap(x)
         /\ \A d \in Callers :
              /\ IsFiniteSet(AtWork(d))'
              /\ InFlight(d)' = InFlight(d) + (IF d = c THEN 1 ELSE 0)
              /\ \A m \in Pieces : Pending(d, m)' <=> Pending(d, m) \/ (d = c /\ m = n)
         /\ ~Pending(c, n) /\ Apart => Apart'
<1> DEFINE e == [caller |-> c, piece |-> n]
<1>1. e \in QueuedPiece /\ e.caller = c /\ e.piece = n
  BY DEF QueuedPiece
<1>2. /\ queue' = [queue EXCEPT ![p] = Append(queue[p], e)]
      /\ Len(queue[p]) < Cap(p)
  BY DEF Send
<1> HIDE DEF e
<1>3. /\ queue'[p] = Append(queue[p], e)
      /\ \A x \in Pools : x # p => queue'[x] = queue[x]
  BY <1>2 DEF TypeOK
<1>4. /\ queue'[p] \in Seq(QueuedPiece) /\ Len(queue'[p]) = Len(queue[p]) + 1
      /\ DOMAIN queue'[p] = 1 .. Len(queue[p]) + 1
      /\ \A i \in 1 .. Len(queue[p]) : queue'[p][i] = queue[p][i]
      /\ queue'[p][Len(queue[p]) + 1] = e
  BY <1>1, <1>3, QueueFacts, AppendProperties, LenProperties
<1>9. ASSUME NEW x \in Pools, NEW i \in DOMAIN queue'[x]
      PROVE  \/ i \in DOMAIN queue[x] /\ queue'[x][i] = queue[x][i]
             \/ x = p /\ i = Len(queue[p]) + 1 /\ queue'[x][i] = e
  <2>1. CASE x = p
    <3>1. DOMAIN queue[p] = 1 .. Len(queue[p]) /\ Len(queue[p]) \in Nat
      BY QueueFacts
    <3> QED BY <2>1, <3>1, <1>4
  <2>2. CASE x # p
    BY <2>2, <1>3
  <2> QED BY <2>1, <2>2
<1>10. /\ \A x \in Pools : \A i \in DOMAIN queue[x] :
            i \in DOMAIN queue'[x] /\ queue'[x][i] = queue[x][i]
       /\ \E i \in DOMAIN queue'[p] : queue'[p][i] = e
  <2>1. DOMAIN queue[p] = 1 .. Len(queue[p]) /\ Len(queue[p]) \in Nat
    BY QueueFacts
  <2> QED BY <2>1, <1>3, <1>4
<1>5. queue' \in [Pools -> Seq(QueuedPiece)]
  BY <1>2, <1>3, <1>4 DEF TypeOK
<1>6. \A x \in Pools : Len(queue'[x]) <= Cap(x)
  <2> SUFFICES ASSUME NEW x \in Pools PROVE Len(queue'[x]) <= Cap(x)
    OBVIOUS
  <2>1. CASE x = p
    BY <2>1, <1>2, <1>4, QueueFacts, EngineAssumption DEF Cap
  <2>2. CASE x # p
    BY <2>2, <1>3 DEF TypeOK
  <2> QED BY <2>1, <2>2
<1>7. ASSUME NEW d \in Callers
      PROVE  /\ IsFiniteSet(AtWork(d))'
             /\ InFlight(d)' = InFlight(d) + (IF d = c THEN 1 ELSE 0)
             /\ \A m \in Pieces : Pending(d, m)' <=> Pending(d, m) \/ (d = c /\ m = n)
  <2>1. AtWork(d)' = AtWork(d) /\ IsFiniteSet(AtWork(d))
    BY DEF AtWork, Counted
  <2>2. Cardinality(SentBy(d, queue'[p])) =
          Cardinality(SentBy(d, queue[p])) + (IF d = c THEN 1 ELSE 0)
    BY <1>1, <1>3, QueueFacts, SentByAppend
  <2>3. InFlight(d)' = InFlight(d) + (IF d = c THEN 1 ELSE 0)
    <3> DEFINE k == IF d = c THEN 1 ELSE 0
    <3>0. k \in Nat /\ Cardinality(SentBy(d, queue'[p])) = Cardinality(SentBy(d, queue[p])) + k
      BY <2>2
    <3> HIDE DEF k
    <3>1. CASE p = "normal"
      <4>1. queue'["fast"] = queue["fast"]
        BY <3>1, <1>3 DEF Pools
      <4>2. InFlight(d)' = InFlight(d) + k
        BY <3>0, <3>1, <4>1, <2>1, InFlightType DEF InFlight
      <4> QED BY <4>2 DEF k
    <3>2. CASE p = "fast"
      <4>1. queue'["normal"] = queue["normal"]
        BY <3>2, <1>3 DEF Pools
      <4>2. InFlight(d)' = InFlight(d) + k
        BY <3>0, <3>2, <4>1, <2>1, InFlightType DEF InFlight
      <4> QED BY <4>2 DEF k
    <3> QED BY <3>1, <3>2 DEF Pools
  <2>4. ASSUME NEW m \in Pieces
        PROVE  InQueue(d, m)' <=> InQueue(d, m) \/ (d = c /\ m = n)
    <3>1. ASSUME NEW x \in Pools, NEW i \in DOMAIN queue'[x],
                 queue'[x][i].caller = d, queue'[x][i].piece = m
          PROVE  InQueue(d, m) \/ (d = c /\ m = n)
      BY <1>1, <3>1, <1>9 DEF InQueue
    <3>2. ASSUME NEW x \in Pools, NEW i \in DOMAIN queue[x],
                 queue[x][i].caller = d, queue[x][i].piece = m
          PROVE  i \in DOMAIN queue'[x] /\ queue'[x][i] = queue[x][i]
      BY <3>2, <1>10
    <3>3. d = c /\ m = n => InQueue(d, m)'
      BY <1>1, <1>10 DEF InQueue
    <3> QED BY <3>1, <3>2, <3>3 DEF InQueue
  <2>5. \A m : (InWork(d, m)' <=> InWork(d, m)) /\ (Answered(d, m)' <=> Answered(d, m))
    BY DEF InWork, Answered
  <2> QED BY <2>1, <2>3, <2>4, <2>5 DEF Pending
<1>8. ASSUME ~Pending(c, n), Apart
      PROVE  Apart'
  <2>1. \A x \in Pools : \A i \in DOMAIN queue[x] :
          queue[x][i].caller # c \/ queue[x][i].piece # n
    BY <1>8 DEF Pending, InQueue
  <2>2. \A w \in Workers \cup FastWorkers :
          job[w] # NoJob => job[w].caller # c \/ job[w].piece # n
    BY <1>8 DEF Pending, InWork
  <2>3. \A x \in Pools : \A i \in DOMAIN queue'[x] :
          \/ i \in DOMAIN queue[x] /\ queue'[x][i] = queue[x][i]
          \/ x = p /\ i = Len(queue[p]) + 1 /\ queue'[x][i] = e
    BY <1>9
  <2>4. QueuedApart'
    BY <1>1, <1>8, <2>1, <2>3 DEF Apart, QueuedApart
  <2>5. WorkApart' /\ OneWriter'
    BY <1>1, <1>8, <2>2, <2>3 DEF Apart, WorkApart, OneWriter
  <2> QED BY <2>4, <2>5 DEF Apart
<1> QED BY <1>5, <1>6, <1>7, <1>8


(* A caller takes an outcome from its channel. *)
LEMMA ReceiveEffect ==
  ASSUME TypeOK, Counted, NEW c \in Callers, ch_out[c] # <<>>,
         ch_out' = [ch_out EXCEPT ![c] = Tail(@)], UNCHANGED <<queue, job>>
  PROVE  /\ ch_out' \in [Callers -> Seq([piece : Pieces, ok : BOOLEAN])]
         /\ \A d \in Callers : Len(ch_out'[d]) <= OutCap
         /\ Head(ch_out[c]) \in [piece : Pieces, ok : BOOLEAN]
         /\ InFlight(c) \in Nat \ {0}
         /\ Pending(c, Head(ch_out[c]).piece)
         /\ \A d \in Callers :
              /\ IsFiniteSet(AtWork(d))'
              /\ InFlight(d)' = InFlight(d) - (IF d = c THEN 1 ELSE 0)
              /\ \A m : Pending(d, m)' => Pending(d, m)
              /\ \A m : Pending(d, m) => \/ Pending(d, m)'
                                         \/ d = c /\ m = Head(ch_out[c]).piece
         /\ Apart => Apart'
<1> DEFINE S == [piece : Pieces, ok : BOOLEAN]
           q == ch_out[c]
           t == Tail(q)
<1>1. /\ q \in Seq(S) /\ Len(q) \in Nat \ {0} /\ DOMAIN q = 1 .. Len(q)
      /\ Head(q) = q[1] /\ Head(q) \in S
      /\ t \in Seq(S) /\ Len(t) = Len(q) - 1 /\ DOMAIN t = 1 .. Len(q) - 1
      /\ \A i \in 1 .. Len(q) - 1 : t[i] = q[i + 1]
  <2>1. q \in Seq(S) /\ q # <<>>
    BY QueueFacts
  <2> HIDE DEF S, q
  <2> QED BY <2>1, TailFacts
<1>2. /\ ch_out'[c] = t
      /\ \A d \in Callers : d # c => ch_out'[d] = ch_out[d]
  BY DEF TypeOK
<1> HIDE DEF t
<1>3. ch_out' \in [Callers -> Seq(S)]
  BY <1>1, <1>2 DEF TypeOK
<1>4. \A d \in Callers : Len(ch_out'[d]) <= OutCap
  <2>1. \A d \in Callers : Len(ch_out[d]) <= OutCap
    BY DEF TypeOK
  <2> QED BY <2>1, <1>1, <1>2, EngineAssumption
<1>5. \A d \in Callers : AtWork(d)' = AtWork(d) /\ IsFiniteSet(AtWork(d))
  BY DEF AtWork, Counted
<1>6. ASSUME NEW d \in Callers
      PROVE  InFlight(d)' = InFlight(d) - (IF d = c THEN 1 ELSE 0)
  <2>1. CASE d = c
    <3>1. Len(ch_out'[c]) = Len(ch_out[c]) - 1
      BY <1>1, <1>2
    <3>2. AtWork(c)' = AtWork(c)
      BY <1>5
    <3>3. InFlight(c)' = InFlight(c) - 1
      BY <3>1, <3>2, <1>5, InFlightType DEF InFlight
    <3> QED BY <2>1, <3>3
  <2>2. CASE d # c
    <3>1. InFlight(d)' = InFlight(d)
      BY <2>2, <1>2, <1>5 DEF InFlight
    <3> QED BY <2>2, <3>1, <1>5, InFlightType
  <2> QED BY <2>1, <2>2
<1>7. InFlight(c) \in Nat \ {0}
  BY <1>1, <1>5, InFlightType DEF InFlight
<1>8. \A d, m : (InQueue(d, m)' <=> InQueue(d, m)) /\ (InWork(d, m)' <=> InWork(d, m))
  BY DEF InQueue, InWork
<1>9. ASSUME NEW d \in Callers, NEW m
      PROVE  /\ Answered(d, m)' => Answered(d, m)
             /\ Answered(d, m) => Answered(d, m)' \/ (d = c /\ m = Head(ch_out[c]).piece)
  <2>1. CASE d # c
    BY <2>1, <1>2 DEF Answered
  <2>2. CASE d = c
    <3>1. \A i \in DOMAIN t : i + 1 \in DOMAIN q /\ t[i] = q[i + 1]
      BY <1>1
    <3>2. \A i \in DOMAIN q : i = 1 \/ (i - 1 \in DOMAIN t /\ t[i - 1] = q[i])
      BY <1>1
    <3>3. Answered(c, m)' <=> \E i \in DOMAIN t : t[i].piece = m
      BY <1>2 DEF Answered
    <3>4. Answered(c, m) <=> \E i \in DOMAIN q : q[i].piece = m
      BY DEF Answered
    <3> QED BY <2>2, <3>1, <3>2, <3>3, <3>4, <1>1
  <2> QED BY <2>1, <2>2
<1>10. Pending(c, Head(ch_out[c]).piece)
  <2>1. Head(q) = q[1] /\ 1 \in DOMAIN q
    BY <1>1
  <2> QED BY <2>1 DEF Pending, Answered
<1>11. Apart => Apart'
  BY DEF Apart, QueuedApart, WorkApart, OneWriter
<1>12. ASSUME NEW d \in Callers, NEW m
       PROVE  /\ Pending(d, m)' => Pending(d, m)
              /\ Pending(d, m) => Pending(d, m)' \/ (d = c /\ m = Head(ch_out[c]).piece)
  BY <1>8, <1>9 DEF Pending
<1>13. \A d \in Callers : IsFiniteSet(AtWork(d))'
  BY <1>5
<1>14. Head(ch_out[c]) \in [piece : Pieces, ok : BOOLEAN]
  BY <1>1
<1> HIDE DEF S, q
<1> QED BY <1>3, <1>4, <1>6, <1>7, <1>10, <1>11, <1>12, <1>13, <1>14 DEF S


-----------------------------------------------------------------------------
(* The steps of the workers move a piece of some caller, and no more. *)

MovesOnly ==
  /\ queue' \in [Pools -> Seq(QueuedPiece)]
  /\ \A p \in Pools : Len(queue'[p]) <= Cap(p)
  /\ job' \in [Workers \cup FastWorkers -> Jobs \cup {NoJob}]
  /\ ch_out' \in [Callers -> Seq([piece : Pieces, ok : BOOLEAN])]
  /\ \A d \in Callers : Len(ch_out'[d]) <= OutCap
  /\ \A d \in Callers :
       /\ IsFiniteSet(AtWork(d))'
       /\ InFlight(d)' = InFlight(d)
       /\ \A m : Pending(d, m)' <=> Pending(d, m)
  /\ Apart => Apart'

LEMMA JobFact == NoJob \notin Jobs
BY EngineAssumption DEF Jobs, Pieces

LEMMA TakeEffect ==
  ASSUME TypeOK, Counted, NEW w \in Workers \cup FastWorkers, Take(w)
  PROVE  MovesOnly
<1> DEFINE W == Workers \cup FastWorkers
           p == Pool(w)
           q == queue[p]
           t == Tail(q)
           h == Head(q)
           j == [caller |-> h.caller, piece |-> h.piece, state |-> "compress"]
<1>1. /\ p \in Pools /\ job[w] = NoJob /\ q # <<>>
      /\ job' = [job EXCEPT ![w] = j] /\ queue' = [queue EXCEPT ![p] = t]
      /\ UNCHANGED ch_out
  BY DEF Take, Pool, Pools
<1>2. /\ q \in Seq(QueuedPiece) /\ Len(q) \in Nat \ {0} /\ DOMAIN q = 1 .. Len(q)
      /\ h = q[1] /\ 1 \in DOMAIN q /\ h \in QueuedPiece
      /\ t \in Seq(QueuedPiece) /\ Len(t) = Len(q) - 1 /\ DOMAIN t = 1 .. Len(q) - 1
      /\ \A i \in 1 .. Len(q) - 1 : t[i] = q[i + 1]
  BY <1>1, QueueFacts, TailFacts
<1>3. /\ j \in Jobs /\ j.caller = h.caller /\ j.piece = h.piece /\ h.caller \in Callers
      /\ j # NoJob
  BY <1>2, JobFact DEF Jobs, QueuedPiece
<1> HIDE DEF p, q, t, h, j
<1>4. /\ queue'[p] = t /\ queue[p] = q
      /\ \A x \in Pools : x # p => queue'[x] = queue[x]
      /\ job'[w] = j
      /\ \A v \in W : v # w => job'[v] = job[v]
  BY <1>1 DEF TypeOK, q
<1>5. /\ \A x \in Pools : queue'[x] \in Seq(QueuedPiece)
      /\ queue' \in [Pools -> Seq(QueuedPiece)]
  BY <1>1, <1>2, <1>4 DEF TypeOK
<1>6. ASSUME NEW x \in Pools PROVE Len(queue'[x]) <= Cap(x)
  <2>1. Len(queue[x]) <= Cap(x) /\ Cap(x) \in Nat
    BY EngineAssumption DEF TypeOK, Cap
  <2> QED BY <2>1, <1>2, <1>4
<1>7. job' \in [W -> Jobs \cup {NoJob}]
  BY <1>1, <1>3 DEF TypeOK
<1>8. ASSUME NEW d \in Callers
      PROVE  IsFiniteSet(AtWork(d))' /\ InFlight(d)' = InFlight(d)
  <2>0. IsFiniteSet(AtWork(d))
    BY DEF Counted
  <2>1. /\ w \notin AtWork(d)
        /\ AtWork(d)' = IF h.caller = d THEN AtWork(d) \cup {w} ELSE AtWork(d)
    BY <1>1, <1>3, <1>4 DEF AtWork
  <2>2. Cardinality(SentBy(d, q)) = Cardinality(SentBy(d, t)) + (IF h.caller = d THEN 1 ELSE 0)
    BY <1>1, <1>2, SentByTail DEF t, h
  <2>3. Cardinality(SentBy(d, t)) \in Nat
    BY <1>2, SentByType
  <2>4. /\ IsFiniteSet(AtWork(d))'
        /\ Cardinality(AtWork(d))' = Cardinality(AtWork(d)) + (IF h.caller = d THEN 1 ELSE 0)
    <3>1. IsFiniteSet(AtWork(d) \cup {w}) /\ Cardinality(AtWork(d) \cup {w}) = Cardinality(AtWork(d)) + 1
      BY <2>0, <2>1, FS_AddElement
    <3>2. Cardinality(AtWork(d)) \in Nat
      BY <2>0, FS_CardinalityType
    <3> QED BY <2>0, <2>1, <3>1, <3>2
  <2>5. Len(ch_out'[d]) = Len(ch_out[d])
    BY <1>1
  <2> DEFINE k == IF h.caller = d THEN 1 ELSE 0
  <2>6. /\ k \in Nat /\ Cardinality(SentBy(d, q)) = Cardinality(SentBy(d, t)) + k
        /\ Cardinality(AtWork(d))' = Cardinality(AtWork(d)) + k
    BY <2>2, <2>4
  <2> HIDE DEF k
  <2>7. CASE p = "normal"
    <3>1. queue'["fast"] = queue["fast"]
      BY <2>7, <1>4 DEF Pools
    <3> QED BY <2>0, <2>3, <2>4, <2>5, <2>6, <2>7, <3>1, <1>4, InFlightType DEF InFlight
  <2>8. CASE p = "fast"
    <3>1. queue'["normal"] = queue["normal"]
      BY <2>8, <1>4 DEF Pools
    <3> QED BY <2>0, <2>3, <2>4, <2>5, <2>6, <2>8, <3>1, <1>4, InFlightType DEF InFlight
  <2> QED BY <1>1, <2>7, <2>8 DEF Pools
(* What is in a queue now was there before, and what was there is there or at w. *)
<1>9. ASSUME NEW x \in Pools, NEW i \in DOMAIN queue'[x]
      PROVE  \/ x = p /\ i + 1 \in DOMAIN queue[x] /\ i # 0 /\ queue'[x][i] = queue[x][i + 1]
             \/ x # p /\ i \in DOMAIN queue[x] /\ queue'[x][i] = queue[x][i]
  BY <1>2, <1>4
<1>10. ASSUME NEW x \in Pools, NEW i \in DOMAIN queue[x]
       PROVE  \/ x = p /\ i = 1 /\ queue[x][i] = h
              \/ x = p /\ i - 1 \in DOMAIN queue'[x] /\ queue'[x][i - 1] = queue[x][i]
              \/ x # p /\ i \in DOMAIN queue'[x] /\ queue'[x][i] = queue[x][i]
  BY <1>2, <1>4
<1>11. ASSUME NEW d \in Callers, NEW m
       PROVE  Pending(d, m)' <=> Pending(d, m)
  <2>1. InQueue(d, m)' => InQueue(d, m)
    BY <1>9 DEF InQueue
  <2>2. InQueue(d, m) => InQueue(d, m)' \/ (h.caller = d /\ h.piece = m)
    BY <1>10 DEF InQueue
  <2>3. InWork(d, m)' <=> InWork(d, m) \/ (h.caller = d /\ h.piece = m)
    BY <1>1, <1>3, <1>4 DEF InWork
  <2>4. h.caller = d /\ h.piece = m => InQueue(d, m)
    BY <1>1, <1>2, <1>4 DEF InQueue
  <2>5. Answered(d, m)' <=> Answered(d, m)
    BY <1>1 DEF Answered
  <2> QED BY <2>1, <2>2, <2>3, <2>4, <2>5 DEF Pending
<1>12. ASSUME Apart PROVE Apart'
  <2>1. QueuedApart'
    <3> SUFFICES ASSUME NEW x \in Pools, NEW y \in Pools,
                        NEW i \in DOMAIN queue'[x], NEW k \in DOMAIN queue'[y], x # y \/ i # k
                 PROVE  \/ queue'[x][i].caller # queue'[y][k].caller
                        \/ queue'[x][i].piece # queue'[y][k].piece
      BY DEF QueuedApart
    <3>1. i \in Int /\ k \in Int
      BY <1>5, LenProperties
    <3> QED BY <3>1, <1>9, <1>12 DEF Apart, QueuedApart
  <2>2. \A x \in Pools : \A i \in DOMAIN queue'[x] :
           queue'[x][i].caller # j.caller \/ queue'[x][i].piece # j.piece
    <3> SUFFICES ASSUME NEW x \in Pools, NEW i \in DOMAIN queue'[x]
                 PROVE  queue'[x][i].caller # h.caller \/ queue'[x][i].piece # h.piece
      BY <1>3
    <3>1. i \in Int
      BY <1>5, LenProperties
    <3>2. 1 \in DOMAIN queue[p] /\ queue[p][1] = h
      BY <1>2, <1>4
    <3> QED BY <3>1, <3>2, <1>1, <1>9, <1>12 DEF Apart, QueuedApart
  <2>3. WorkApart'
    BY <2>2, <1>4, <1>9, <1>12 DEF Apart, WorkApart
  <2>4. OneWriter'
    <3>1. \A v \in W : v # w /\ job[v] # NoJob =>
             job[v].caller # j.caller \/ job[v].piece # j.piece
      BY <1>1, <1>2, <1>3, <1>4, <1>12 DEF Apart, WorkApart
    <3> QED BY <3>1, <1>4, <1>12 DEF Apart, OneWriter
  <2> QED BY <2>1, <2>3, <2>4 DEF Apart
<1> QED BY <1>1, <1>5, <1>6, <1>7, <1>8, <1>11, <1>12 DEF MovesOnly, TypeOK


LEMMA WriteEffect ==
  ASSUME TypeOK, Counted, NEW w \in Workers \cup FastWorkers,
         NEW outcome \in {"fits", "fails"}, Write(w, outcome)
  PROVE  MovesOnly
<1> DEFINE W == Workers \cup FastWorkers
           j == [job[w] EXCEPT !.state = outcome]
<1>1. /\ job[w] # NoJob /\ job' = [job EXCEPT ![w] = j] /\ UNCHANGED <<queue, ch_out>>
  BY DEF Write
<1>2. job[w] \in Jobs
  BY <1>1 DEF TypeOK
<1>3. /\ j \in Jobs /\ j.caller = job[w].caller /\ j.piece = job[w].piece /\ j # NoJob
  BY <1>2, JobFact DEF Jobs
<1> HIDE DEF j
<1>4. job'[w] = j /\ \A v \in W : v # w => job'[v] = job[v]
  BY <1>1 DEF TypeOK
<1>5. \A v \in W : /\ job'[v] = NoJob <=> job[v] = NoJob
                   /\ job'[v].caller = job[v].caller /\ job'[v].piece = job[v].piece
  BY <1>1, <1>3, <1>4
<1>6. ASSUME NEW d \in Callers
      PROVE  /\ IsFiniteSet(AtWork(d))' /\ InFlight(d)' = InFlight(d)
             /\ \A m : Pending(d, m)' <=> Pending(d, m)
  <2>1. AtWork(d)' = AtWork(d)
    BY <1>5 DEF AtWork
  <2>2. IsFiniteSet(AtWork(d))' /\ InFlight(d)' = InFlight(d)
    BY <2>1, <1>1 DEF Counted, InFlight
  <2>3. ASSUME NEW m PROVE Pending(d, m)' <=> Pending(d, m)
    <3>1. InWork(d, m)' <=> InWork(d, m)
      BY <1>5 DEF InWork
    <3> QED BY <3>1, <1>1 DEF Pending, InQueue, Answered
  <2> QED BY <2>2, <2>3
<1>7. Apart => Apart'
  <2>1. QueuedApart => QueuedApart'
    BY <1>1 DEF QueuedApart
  <2>2. WorkApart => WorkApart'
    BY <1>1, <1>5 DEF WorkApart
  <2>3. OneWriter => OneWriter'
    BY <1>5 DEF OneWriter
  <2> QED BY <2>1, <2>2, <2>3 DEF Apart
<1>8. job' \in [W -> Jobs \cup {NoJob}]
  BY <1>1, <1>3 DEF TypeOK
<1> QED BY <1>1, <1>6, <1>7, <1>8 DEF MovesOnly, TypeOK

LEMMA ReportEffect ==
  ASSUME TypeOK, Counted, NEW w \in Workers \cup FastWorkers, Report(w)
  PROVE  MovesOnly
<1> DEFINE W == Workers \cup FastWorkers
           S == [piece : Pieces, ok : BOOLEAN]
           c == job[w].caller
           q == ch_out[c]
           e == [piece |-> job[w].piece, ok |-> job[w].state = "fits"]
<1>1. /\ job[w] # NoJob /\ job' = [job EXCEPT ![w] = NoJob]
      /\ ch_out' = [ch_out EXCEPT ![c] = Append(@, e)]
      /\ Len(q) < ReplyCap(c) /\ UNCHANGED queue
  BY DEF Report
<1>2. c \in Callers /\ job[w] \in Jobs
  BY <1>1 DEF TypeOK, Jobs
<1>3. e \in S /\ e.piece = job[w].piece
  BY <1>2 DEF Jobs
<1>4. q \in Seq(S) /\ Len(q) \in Nat /\ DOMAIN q = 1 .. Len(q)
  BY <1>2, QueueFacts
<1> HIDE DEF c, e, S
<1>5. /\ Append(q, e) \in Seq(S) /\ Len(Append(q, e)) = Len(q) + 1
      /\ DOMAIN Append(q, e) = 1 .. Len(q) + 1
      /\ \A i \in 1 .. Len(q) : Append(q, e)[i] = q[i]
      /\ Append(q, e)[Len(q) + 1] = e
  BY <1>3, <1>4, AppendProperties, LenProperties
<1>6. /\ ch_out'[c] = Append(q, e)
      /\ \A d \in Callers : d # c => ch_out'[d] = ch_out[d]
      /\ job'[w] = NoJob
      /\ \A v \in W : v # w => job'[v] = job[v]
  BY <1>1, <1>2 DEF TypeOK
<1> HIDE DEF q
<1>7. /\ ch_out' \in [Callers -> Seq(S)] /\ job' \in [W -> Jobs \cup {NoJob}]
  BY <1>1, <1>2, <1>5, <1>6 DEF TypeOK, S
<1>8. ASSUME NEW d \in Callers PROVE Len(ch_out'[d]) <= OutCap
  <2>1. Len(ch_out[d]) <= OutCap /\ ReplyCap(d) \in Nat /\ ReplyCap(d) <= OutCap
    BY EngineAssumption DEF TypeOK, ReplyCap
  <2> QED BY <2>1, <1>1, <1>4, <1>5, <1>6, EngineAssumption
<1>9. ASSUME NEW d \in Callers
      PROVE  IsFiniteSet(AtWork(d))' /\ InFlight(d)' = InFlight(d)
  <2>1. IsFiniteSet(AtWork(d))
    BY DEF Counted
  <2>2. CASE d = c
    <3>1. w \in AtWork(d) /\ AtWork(d)' = AtWork(d) \ {w}
      BY <2>2, <1>1, <1>6 DEF AtWork, c
    <3>2. /\ IsFiniteSet(AtWork(d)') /\ Cardinality(AtWork(d)') = Cardinality(AtWork(d)) - 1
      BY <2>1, <3>1, FS_RemoveElement
    <3>3. Len(ch_out'[d]) = Len(ch_out[d]) + 1
      BY <2>2, <1>5, <1>6 DEF q
    <3> QED BY <2>1, <3>2, <3>3, <1>1, InFlightType DEF InFlight
  <2>3. CASE d # c
    <3>1. AtWork(d)' = AtWork(d)
      BY <2>3, <1>1, <1>6 DEF AtWork, c
    <3> QED BY <2>1, <2>3, <3>1, <1>1, <1>6 DEF InFlight
  <2> QED BY <2>2, <2>3
<1>10. ASSUME NEW d \in Callers, NEW m
       PROVE  Pending(d, m)' <=> Pending(d, m)
  <2>1. InQueue(d, m)' <=> InQueue(d, m)
    BY <1>1 DEF InQueue
  <2>2. /\ InWork(d, m)' => InWork(d, m)
        /\ InWork(d, m) => InWork(d, m)' \/ (d = c /\ m = e.piece)
        /\ d = c /\ m = e.piece => InWork(d, m)
    BY <1>1, <1>3, <1>6 DEF InWork, c
  <2>3. Answered(d, m)' <=> Answered(d, m) \/ (d = c /\ m = e.piece)
    <3>1. CASE d # c
      BY <3>1, <1>6 DEF Answered
    <3>2. CASE d = c
      <4>1. \A i \in DOMAIN q : i \in DOMAIN Append(q, e) /\ Append(q, e)[i] = q[i]
        BY <1>4, <1>5
      <4>2. \A i \in DOMAIN Append(q, e) :
               Append(q, e)[i] = e \/ (i \in DOMAIN q /\ Append(q, e)[i] = q[i])
        BY <1>4, <1>5
      <4>3. \E i \in DOMAIN Append(q, e) : Append(q, e)[i] = e
        BY <1>4, <1>5
      <4>4. Answered(d, m)' <=> \E i \in DOMAIN Append(q, e) : Append(q, e)[i].piece = m
        BY <3>2, <1>6 DEF Answered
      <4>5. Answered(d, m) <=> \E i \in DOMAIN q : q[i].piece = m
        BY <3>2 DEF Answered, q
      <4> QED BY <3>2, <4>1, <4>2, <4>3, <4>4, <4>5
    <3> QED BY <3>1, <3>2
  <2> QED BY <2>1, <2>2, <2>3 DEF Pending
<1>11. Apart => Apart'
  <2>1. QueuedApart => QueuedApart'
    BY <1>1 DEF QueuedApart
  <2>2. WorkApart => WorkApart'
    BY <1>1, <1>6 DEF WorkApart
  <2>3. OneWriter => OneWriter'
    BY <1>6 DEF OneWriter
  <2> QED BY <2>1, <2>2, <2>3 DEF Apart
<1> QED BY <1>1, <1>7, <1>8, <1>9, <1>10, <1>11 DEF MovesOnly, TypeOK, S

-----------------------------------------------------------------------------
(* The inductive invariant holds at the beginning and is kept by each step. *)

LEMMA InitIInv == Init => IInv
<1> SUFFICES ASSUME Init PROVE IInv
  OBVIOUS
<1>1. /\ \A p \in Pools : queue[p] = <<>> /\ DOMAIN queue[p] = {} /\ Len(queue[p]) = 0
      /\ \A c \in Callers : ch_out[c] = <<>> /\ DOMAIN ch_out[c] = {} /\ Len(ch_out[c]) = 0
      /\ \A w \in Workers \cup FastWorkers : job[w] = NoJob
      /\ \A c \in Callers : pc[c] = "idle"
  BY DEF Init
<1>2. TypeOK
  <2>1. \A S : <<>> \in Seq(S)
    BY EmptySeq
  <2>2. /\ queue \in [Pools -> Seq(QueuedPiece)]
        /\ ch_out \in [Callers -> Seq([piece : Pieces, ok : BOOLEAN])]
    BY <2>1 DEF Init
  <2>3. /\ \A p \in Pools : Len(queue[p]) <= Cap(p)
        /\ \A c \in Callers : Len(ch_out[c]) <= OutCap
    BY <1>1, EngineAssumption DEF Cap
  <2>4. /\ 0 \in 0 .. MaxPieces /\ 0 \in 0 .. Window
    BY EngineAssumption
  <2> QED BY <2>2, <2>3, <2>4 DEF Init, TypeOK
<1>3. Counted
  <2> SUFFICES ASSUME NEW c \in Callers
               PROVE  IsFiniteSet(AtWork(c)) /\ InFlight(c) = 0
    BY <1>1 DEF Counted, Calling
  <2>1. /\ AtWork(c) = {} /\ SentBy(c, queue["normal"]) = {} /\ SentBy(c, queue["fast"]) = {}
    BY <1>1 DEF AtWork, SentBy, Pools
  <2> QED BY <1>1, <2>1, FS_EmptySet DEF InFlight
<1>4. InLoop /\ Sent
  BY <1>1 DEF InLoop, Sent, Calling
<1>5. Apart
  BY <1>1 DEF Apart, QueuedApart, WorkApart, OneWriter
<1> QED BY <1>2, <1>3, <1>4, <1>5 DEF IInv

LEMMA WorkerIInv ==
  ASSUME IInv, NEW w \in Workers \cup FastWorkers, WorkerStep(w)
  PROVE  IInv'
<1>1. MovesOnly
  BY TakeEffect, WriteEffect, ReportEffect DEF IInv, WorkerStep
<1>2. UNCHANGED <<pc, call_vars, result>>
  BY DEF WorkerStep, Take, Write, Report
<1>3. TypeOK'
  BY <1>1, <1>2 DEF IInv, TypeOK, MovesOnly, call_vars
<1>4. Counted'
  BY <1>1, <1>2 DEF IInv, Counted, MovesOnly, call_vars
<1>5. InLoop'
  BY <1>2 DEF IInv, InLoop, call_vars
<1>6. Sent'
  BY <1>1, <1>2 DEF IInv, Sent, MovesOnly, call_vars
<1>7. Apart'
  BY <1>1 DEF IInv, MovesOnly
<1> QED BY <1>3, <1>4, <1>5, <1>6, <1>7 DEF IInv


LEMMA StillEffect ==
  ASSUME TypeOK, Counted, UNCHANGED <<queue, job, ch_out>>
  PROVE  /\ \A d \in Callers :
              /\ IsFiniteSet(AtWork(d))' /\ InFlight(d)' = InFlight(d) /\ InFlight(d) \in Nat
              /\ \A m : Pending(d, m)' <=> Pending(d, m)
         /\ Apart => Apart'
<1>1. \A d \in Callers : AtWork(d)' = AtWork(d) /\ IsFiniteSet(AtWork(d))
  BY DEF AtWork, Counted
<1>2. \A d \in Callers : InFlight(d)' = InFlight(d) /\ InFlight(d) \in Nat
  BY <1>1, InFlightType DEF InFlight
<1>3. \A d, m : Pending(d, m)' <=> Pending(d, m)
  BY DEF Pending, InQueue, InWork, Answered
<1>4. Apart => Apart'
  BY DEF Apart, QueuedApart, WorkApart, OneWriter
<1> QED BY <1>1, <1>2, <1>3, <1>4

LEMMA CompressIInv ==
  ASSUME IInv, NEW c \in Callers, NEW n \in 1 .. MaxPieces, Compress(c, n)
  PROVE  IInv'
<1> USE DEF Compress, Goto
<1>1. TypeOK'
  <2>1. n \in 0 .. MaxPieces /\ 0 \in 0 .. MaxPieces /\ 0 \in 0 .. Window
    BY EngineAssumption
  <2>2. /\ tasks_no' \in [Callers -> 0 .. MaxPieces] /\ piece_no' \in [Callers -> 0 .. MaxPieces]
        /\ in_progress' \in [Callers -> 0 .. Window] /\ is_broken' \in [Callers -> BOOLEAN]
        /\ chunks' \in [Callers -> SUBSET Pieces]
    BY <2>1 DEF IInv, TypeOK
  <2>3. /\ pc' \in [Callers -> {"idle", "send", "receive", "drain", "fastSend", "fastWait"}]
        /\ result' \in [Callers -> {"none", "nil", "blocks"}]
    BY DEF IInv, TypeOK
  <2> QED BY <2>2, <2>3 DEF IInv, TypeOK
<1>2. /\ pc'[c] = "send" /\ tasks_no'[c] = n /\ piece_no'[c] = 0 /\ in_progress'[c] = 0
      /\ is_broken'[c] = FALSE /\ chunks'[c] = {} /\ InFlight(c) = 0
      /\ \A d \in Callers : d # c =>
           /\ pc'[d] = pc[d] /\ tasks_no'[d] = tasks_no[d] /\ piece_no'[d] = piece_no[d]
           /\ in_progress'[d] = in_progress[d] /\ is_broken'[d] = is_broken[d]
           /\ chunks'[d] = chunks[d]
  BY DEF IInv, TypeOK, Counted
<1>3. /\ \A d \in Callers :
           /\ IsFiniteSet(AtWork(d))' /\ InFlight(d)' = InFlight(d)
           /\ \A m : Pending(d, m)' <=> Pending(d, m)
      /\ Apart'
  BY StillEffect DEF IInv
<1>4. \A m : ~Pending(c, m)'
  BY <1>2, <1>3, NothingPending DEF IInv, Counted
<1>5. Counted'
  BY <1>2, <1>3 DEF IInv, Counted, Calling
<1>6. InLoop'
  BY <1>2, EngineAssumption DEF IInv, InLoop
<1>7. Sent'
  BY <1>2, <1>3, <1>4 DEF IInv, Sent, Calling
<1> QED BY <1>1, <1>3, <1>5, <1>6, <1>7 DEF IInv

(* The steps that leave the pieces and the counters of the callers alone.   *)
LEMMA StillIInv ==
  ASSUME IInv, NEW c \in Callers,
         CompressShort(c) \/ CompressReturn(c)
  PROVE  IInv'
<1>0. /\ UNCHANGED <<queue, job, ch_out, tasks_no, piece_no, in_progress, is_broken, chunks>>
      /\ pc' \in [Callers -> {"idle", "send", "receive", "drain", "fastSend", "fastWait"}]
      /\ result' \in [Callers -> {"none", "nil", "blocks"}]
      /\ pc'[c] \in {"idle", "fastSend"}
      /\ \A d \in Callers : d # c => pc'[d] = pc[d]
      /\ InFlight(c) = 0
  BY DEF IInv, TypeOK, Counted, CompressShort, CompressReturn, Return, Goto, call_vars, Calling
<1>1. TypeOK'
  BY <1>0 DEF IInv, TypeOK
<1>3. /\ \A d \in Callers :
           /\ IsFiniteSet(AtWork(d))' /\ InFlight(d)' = InFlight(d)
           /\ \A m : Pending(d, m)' <=> Pending(d, m)
      /\ Apart'
  BY <1>0, StillEffect DEF IInv
<1>5. Counted'
  BY <1>0, <1>3 DEF IInv, Counted, Calling
<1>6. InLoop'
  BY <1>0 DEF IInv, InLoop
<1>7. Sent'
  BY <1>0, <1>3 DEF IInv, Sent, Calling
<1> QED BY <1>1, <1>3, <1>5, <1>6, <1>7 DEF IInv

LEMMA SendPieceIInv ==
  ASSUME IInv, NEW c \in Callers, SendPiece(c)
  PROVE  IInv'
<1> DEFINE n == piece_no[c]
           where == IF in_progress'[c] >= Window THEN "receive"
                    ELSE IF piece_no'[c] = tasks_no[c] THEN "drain" ELSE "send"
<1>1. /\ pc[c] = "send" /\ Send("normal", c, n)
      /\ piece_no' = [piece_no EXCEPT ![c] = @ + 1]
      /\ in_progress' = [in_progress EXCEPT ![c] = @ + 1]
      /\ pc' = [pc EXCEPT ![c] = where]
      /\ UNCHANGED <<job, ch_out, tasks_no, is_broken, chunks, result>>
  BY DEF SendPiece, Goto
<1>2. /\ n \in Nat /\ tasks_no[c] \in 0 .. MaxPieces /\ n < tasks_no[c] /\ n \in Pieces
      /\ in_progress[c] \in Nat /\ in_progress[c] < Window /\ ~is_broken[c]
      /\ in_progress[c] = InFlight(c)
  BY <1>1, EngineAssumption DEF IInv, TypeOK, InLoop, Counted, Calling, Pieces
<1>3. ~Pending(c, n)
  BY <1>1, <1>2 DEF IInv, Sent, Calling
<1>4. /\ queue' \in [Pools -> Seq(QueuedPiece)]
      /\ \A x \in Pools : Len(queue'[x]) <= Cap(x)
      /\ \A d \in Callers :
           /\ IsFiniteSet(AtWork(d))'
           /\ InFlight(d)' = InFlight(d) + (IF d = c THEN 1 ELSE 0)
           /\ \A m \in Pieces : Pending(d, m)' <=> Pending(d, m) \/ (d = c /\ m = n)
      /\ Apart'
  BY <1>1, <1>2, <1>3, SendEffect DEF IInv, Pools
<1>5. /\ piece_no'[c] = n + 1 /\ in_progress'[c] = in_progress[c] + 1 /\ pc'[c] = where
      /\ \A d \in Callers : d # c =>
           pc'[d] = pc[d] /\ piece_no'[d] = piece_no[d] /\ in_progress'[d] = in_progress[d]
  BY <1>1 DEF IInv, TypeOK
<1>6. TypeOK'
  <2>1. n + 1 \in 0 .. MaxPieces /\ in_progress[c] + 1 \in 0 .. Window
    BY <1>2, EngineAssumption
  <2>2. piece_no' \in [Callers -> 0 .. MaxPieces] /\ in_progress' \in [Callers -> 0 .. Window]
    BY <1>1, <2>1 DEF IInv, TypeOK
  <2> QED BY <1>1, <1>4, <2>2 DEF IInv, TypeOK
<1>7. Counted'
  <2> SUFFICES ASSUME NEW d \in Callers
               PROVE  /\ IsFiniteSet(AtWork(d))'
                      /\ pc'[d] \in {"idle", "fastSend"} => InFlight(d)' = 0
                      /\ pc'[d] = "fastWait" => InFlight(d)' = 1
                      /\ pc'[d] \in Calling => in_progress'[d] = InFlight(d)'
    BY DEF Counted
  <2>1. CASE d = c
    BY <2>1, <1>2, <1>4, <1>5
  <2>2. CASE d # c
    <3>1. InFlight(d) \in Nat
      BY InFlightType DEF IInv, Counted
    <3> QED BY <2>2, <3>1, <1>4, <1>5 DEF IInv, Counted
  <2> QED BY <2>1, <2>2
<1>8. InLoop'
  <2> SUFFICES ASSUME NEW d \in Callers
               PROVE  /\ pc'[d] = "send" => in_progress'[d] < Window /\ piece_no'[d] < tasks_no[d]
                      /\ pc'[d] \in {"send", "receive"} => ~is_broken[d] /\ piece_no'[d] <= tasks_no[d]
                      /\ pc'[d] = "drain" => is_broken[d] \/ piece_no'[d] = tasks_no[d]
    BY <1>1 DEF InLoop
  <2>1. CASE d = c
    BY <2>1, <1>2, <1>5, EngineAssumption
  <2>2. CASE d # c
    BY <2>2, <1>5 DEF IInv, InLoop
  <2> QED BY <2>1, <2>2
<1>9. Sent'
  <2> SUFFICES ASSUME NEW d \in Callers, pc'[d] \in Calling
               PROVE  /\ \A m \in Pieces : Pending(d, m)' => m < piece_no'[d]
                      /\ ~is_broken[d] =>
                           /\ \A m \in chunks[d] : m < piece_no'[d]
                           /\ \A m \in 0 .. piece_no'[d] - 1 : m \in chunks[d] \/ Pending(d, m)'
    BY <1>1 DEF Sent
  <2>0. /\ \A m \in 0 .. piece_no'[d] - 1 : m \in Pieces
        /\ \A m \in Pieces : m \in Nat
        /\ chunks[d] \subseteq Pieces
    <3>1. piece_no'[d] \in 0 .. MaxPieces /\ chunks[d] \subseteq Pieces
      BY <1>6 DEF IInv, TypeOK
    <3> QED BY <3>1, EngineAssumption DEF Pieces
  <2>1. CASE d = c
    <3>1. /\ \A m \in Pieces : Pending(c, m) => m < n
          /\ \A m \in chunks[c] : m < n
          /\ \A m \in 0 .. n - 1 : m \in chunks[c] \/ Pending(c, m)
      BY <1>1, <1>2 DEF IInv, Sent, Calling
    <3>2. piece_no'[c] = n + 1
      BY <1>5
    <3>3. \A m \in Pieces : Pending(c, m)' => m < n + 1
      BY <2>0, <3>1, <1>2, <1>4
    <3>4. \A m \in chunks[c] : m < n + 1
      BY <2>0, <2>1, <3>1, <1>2
    <3>5. ASSUME NEW m \in 0 .. n PROVE m \in chunks[c] \/ Pending(c, m)'
      <4>1. m \in Pieces
        BY <2>0, <2>1, <3>2, <1>2
      <4>2. CASE m = n
        BY <4>1, <4>2, <1>4
      <4>3. CASE m # n
        BY <4>1, <4>3, <3>1, <1>2, <1>4
      <4> QED BY <4>2, <4>3
    <3> QED BY <2>1, <3>2, <3>3, <3>4, <3>5, <1>2
  <2>2. CASE d # c
    BY <2>0, <2>2, <1>4, <1>5 DEF IInv, Sent
  <2> QED BY <2>1, <2>2
<1> QED BY <1>4, <1>6, <1>7, <1>8, <1>9 DEF IInv


LEMMA ReceiveIInv ==
  ASSUME IInv, NEW c \in Callers, ReceiveInLoop(c) \/ Drain(c)
  PROVE  IInv'
<1> DEFINE h == Head(ch_out[c])
<1>1. /\ pc[c] \in {"receive", "drain"} /\ ch_out[c] # <<>>
      /\ ch_out' = [ch_out EXCEPT ![c] = Tail(@)]
      /\ in_progress' = [in_progress EXCEPT ![c] = @ - 1]
      /\ is_broken' = [is_broken EXCEPT ![c] = @ \/ ~h.ok]
      /\ chunks' = IF is_broken'[c] THEN chunks ELSE [chunks EXCEPT ![c] = @ \cup {h.piece}]
      /\ UNCHANGED <<queue, job, tasks_no, piece_no, result>>
  BY DEF ReceiveInLoop, Drain, GetNextPiece
<1>2. /\ pc' \in [Callers -> {"idle", "send", "receive", "drain", "fastSend", "fastWait"}]
      /\ pc'[c] \in {"send", "drain"}
      /\ pc'[c] = "send" => pc[c] = "receive" /\ ~is_broken'[c] /\ piece_no[c] # tasks_no[c]
      /\ pc'[c] = "drain" => \/ pc[c] = "drain" \/ is_broken'[c] \/ piece_no[c] = tasks_no[c]
      /\ \A d \in Callers : d # c => pc'[d] = pc[d]
  BY DEF IInv, TypeOK, ReceiveInLoop, Drain, GetNextPiece, Goto
<1>3. /\ ch_out' \in [Callers -> Seq([piece : Pieces, ok : BOOLEAN])]
      /\ \A d \in Callers : Len(ch_out'[d]) <= OutCap
      /\ h \in [piece : Pieces, ok : BOOLEAN]
      /\ InFlight(c) \in Nat \ {0}
      /\ Pending(c, h.piece)
      /\ \A d \in Callers :
           /\ IsFiniteSet(AtWork(d))'
           /\ InFlight(d)' = InFlight(d) - (IF d = c THEN 1 ELSE 0)
           /\ \A m : Pending(d, m)' => Pending(d, m)
           /\ \A m : Pending(d, m) => Pending(d, m)' \/ (d = c /\ m = h.piece)
      /\ Apart'
  BY <1>1, ReceiveEffect DEF IInv
<1> HIDE DEF h
<1>4. /\ in_progress[c] = InFlight(c) /\ in_progress[c] \in 1 .. Window
      /\ in_progress'[c] = in_progress[c] - 1
      /\ is_broken'[c] = (is_broken[c] \/ ~h.ok)
      /\ ~is_broken'[c] => chunks'[c] = chunks[c] \cup {h.piece}
      /\ \A d \in Callers : d # c => /\ in_progress'[d] = in_progress[d]
                                     /\ is_broken'[d] = is_broken[d]
                                     /\ chunks'[d] = chunks[d]
  <2>1. in_progress[c] = InFlight(c) /\ in_progress[c] \in 0 .. Window
    BY <1>1 DEF IInv, Counted, Calling, TypeOK
  <2> QED BY <2>1, <1>1, <1>3, EngineAssumption DEF IInv, TypeOK
<1>5. TypeOK'
  <2>1. in_progress' \in [Callers -> 0 .. Window]
    <3>1. in_progress[c] - 1 \in 0 .. Window
      BY <1>4, EngineAssumption
    <3> QED BY <3>1, <1>1 DEF IInv, TypeOK
  <2>2. is_broken' \in [Callers -> BOOLEAN]
    BY <1>1, <1>3 DEF IInv, TypeOK
  <2>3. chunks' \in [Callers -> SUBSET Pieces]
    <3>1. h.piece \in Pieces
      BY <1>3
    <3> QED BY <3>1, <1>1 DEF IInv, TypeOK
  <2> QED BY <2>1, <2>2, <2>3, <1>1, <1>2, <1>3 DEF IInv, TypeOK
<1>6. Counted'
  <2> SUFFICES ASSUME NEW d \in Callers
               PROVE  /\ IsFiniteSet(AtWork(d))'
                      /\ pc'[d] \in {"idle", "fastSend"} => InFlight(d)' = 0
                      /\ pc'[d] = "fastWait" => InFlight(d)' = 1
                      /\ pc'[d] \in Calling => in_progress'[d] = InFlight(d)'
    BY DEF Counted
  <2>1. CASE d = c
    BY <2>1, <1>2, <1>3, <1>4
  <2>2. CASE d # c
    <3>1. InFlight(d) \in Nat
      BY InFlightType DEF IInv, Counted
    <3> QED BY <2>2, <3>1, <1>2, <1>3, <1>4 DEF IInv, Counted
  <2> QED BY <2>1, <2>2
<1>7. InLoop'
  <2> SUFFICES ASSUME NEW d \in Callers
               PROVE  /\ pc'[d] = "send" => in_progress'[d] < Window /\ piece_no[d] < tasks_no[d]
                      /\ pc'[d] \in {"send", "receive"} =>
                           ~is_broken'[d] /\ piece_no[d] <= tasks_no[d]
                      /\ pc'[d] = "drain" => is_broken'[d] \/ piece_no[d] = tasks_no[d]
    BY <1>1 DEF InLoop
  <2>1. CASE d = c
    <3>1. /\ pc[c] = "receive" => piece_no[c] <= tasks_no[c]
          /\ pc[c] = "drain" => is_broken[c] \/ piece_no[c] = tasks_no[c]
          /\ piece_no[c] \in Nat /\ tasks_no[c] \in Nat
      BY EngineAssumption DEF IInv, InLoop, TypeOK
    <3>2. in_progress'[c] < Window
      BY <1>4, EngineAssumption
    <3>3. pc'[c] = "send" => ~is_broken'[c] /\ piece_no[c] < tasks_no[c]
      BY <3>1, <1>2
    <3>4. pc'[c] = "drain" => is_broken'[c] \/ piece_no[c] = tasks_no[c]
      BY <3>1, <1>2, <1>4
    <3>5. pc'[c] # "receive"
      BY <1>2
    <3> QED BY <2>1, <3>1, <3>2, <3>3, <3>4, <3>5
  <2>2. CASE d # c
    BY <2>2, <1>2, <1>4 DEF IInv, InLoop
  <2> QED BY <2>1, <2>2
<1>8. Sent'
  <2> SUFFICES ASSUME NEW d \in Callers, pc'[d] \in Calling
               PROVE  /\ \A m \in Pieces : Pending(d, m)' => m < piece_no[d]
                      /\ ~is_broken'[d] =>
                           /\ \A m \in chunks'[d] : m < piece_no[d]
                           /\ \A m \in 0 .. piece_no[d] - 1 : m \in chunks'[d] \/ Pending(d, m)'
    BY <1>1 DEF Sent
  <2>1. CASE d = c
    <3>1. /\ \A m \in Pieces : Pending(c, m) => m < piece_no[c]
          /\ ~is_broken[c] =>
               /\ \A m \in chunks[c] : m < piece_no[c]
               /\ \A m \in 0 .. piece_no[c] - 1 : m \in chunks[c] \/ Pending(c, m)
      BY <1>1 DEF IInv, Sent, Calling
    <3>2. h.piece < piece_no[c]
      BY <3>1, <1>3
    <3>3. \A m \in Pieces : Pending(c, m)' => m < piece_no[c]
      BY <3>1, <1>3
    <3>4. ASSUME ~is_broken'[c]
          PROVE  /\ \A m \in chunks'[c] : m < piece_no[c]
                 /\ \A m \in 0 .. piece_no[c] - 1 : m \in chunks'[c] \/ Pending(c, m)'
      BY <3>1, <3>2, <3>4, <1>3, <1>4
    <3> QED BY <2>1, <3>3, <3>4
  <2>2. CASE d # c
    BY <2>2, <1>2, <1>3, <1>4 DEF IInv, Sent
  <2> QED BY <2>1, <2>2
<1> QED BY <1>3, <1>5, <1>6, <1>7, <1>8 DEF IInv

LEMMA FastSendIInv ==
  ASSUME IInv, NEW c \in Callers, FastSend(c)
  PROVE  IInv'
<1>1. /\ pc[c] = "fastSend" /\ Send("fast", c, 0) /\ pc' = [pc EXCEPT ![c] = "fastWait"]
      /\ UNCHANGED <<job, ch_out, tasks_no, piece_no, in_progress, is_broken, chunks, result>>
  BY DEF FastSend, Goto, call_vars
<1>2. InFlight(c) = 0 /\ 0 \in Pieces
  BY <1>1, EngineAssumption DEF IInv, Counted, Pieces
<1>3. ~Pending(c, 0)
  BY <1>2, NothingPending DEF IInv, Counted
<1>4. /\ queue' \in [Pools -> Seq(QueuedPiece)]
      /\ \A x \in Pools : Len(queue'[x]) <= Cap(x)
      /\ \A d \in Callers :
           /\ IsFiniteSet(AtWork(d))'
           /\ InFlight(d)' = InFlight(d) + (IF d = c THEN 1 ELSE 0)
           /\ \A m \in Pieces : Pending(d, m)' <=> Pending(d, m) \/ (d = c /\ m = 0)
      /\ Apart'
  BY <1>1, <1>2, <1>3, SendEffect DEF IInv, Pools
<1>5. pc'[c] = "fastWait" /\ \A d \in Callers : d # c => pc'[d] = pc[d]
  BY <1>1 DEF IInv, TypeOK
<1>6. TypeOK'
  BY <1>1, <1>4 DEF IInv, TypeOK
<1>7. Counted'
  <2>1. \A d \in Callers : InFlight(d) \in Nat
    BY InFlightType DEF IInv, Counted
  <2> QED BY <2>1, <1>1, <1>2, <1>4, <1>5 DEF IInv, Counted, Calling
<1>8. InLoop'
  BY <1>1, <1>5 DEF IInv, InLoop
<1>9. Sent'
  <2> SUFFICES ASSUME NEW d \in Callers, pc'[d] \in Calling
               PROVE  /\ \A m \in Pieces : Pending(d, m)' => m < piece_no[d]
                      /\ ~is_broken[d] =>
                           /\ \A m \in chunks[d] : m < piece_no[d]
                           /\ \A m \in 0 .. piece_no[d] - 1 : m \in chunks[d] \/ Pending(d, m)'
    BY <1>1 DEF Sent
  <2>1. d # c /\ pc[d] \in Calling
    BY <1>5 DEF Calling
  <2>2. \A m \in 0 .. piece_no[d] - 1 : m \in Pieces
    <3>1. piece_no[d] \in 0 .. MaxPieces
      BY DEF IInv, TypeOK
    <3> QED BY <3>1, EngineAssumption DEF Pieces
  <2> QED BY <2>1, <2>2, <1>4 DEF IInv, Sent
<1> QED BY <1>4, <1>6, <1>7, <1>8, <1>9 DEF IInv

LEMMA FastReturnIInv ==
  ASSUME IInv, NEW c \in Callers, FastReturn(c)
  PROVE  IInv'
<1>1. /\ pc[c] = "fastWait" /\ ch_out[c] # <<>> /\ ch_out' = [ch_out EXCEPT ![c] = Tail(@)]
      /\ pc' = [pc EXCEPT ![c] = "idle"]
      /\ result' \in [Callers -> {"none", "nil", "blocks"}]
      /\ UNCHANGED <<queue, job, tasks_no, piece_no, in_progress, is_broken, chunks>>
  BY DEF IInv, TypeOK, FastReturn, Return, Goto, call_vars
<1>2. InFlight(c) = 1
  BY <1>1 DEF IInv, Counted
<1>3. /\ ch_out' \in [Callers -> Seq([piece : Pieces, ok : BOOLEAN])]
      /\ \A d \in Callers : Len(ch_out'[d]) <= OutCap
      /\ \A d \in Callers :
           /\ IsFiniteSet(AtWork(d))'
           /\ InFlight(d)' = InFlight(d) - (IF d = c THEN 1 ELSE 0)
           /\ \A m : Pending(d, m)' => Pending(d, m)
           /\ \A m : Pending(d, m) => Pending(d, m)' \/ d = c
      /\ Apart'
  BY <1>1, ReceiveEffect DEF IInv
<1>4. pc'[c] = "idle" /\ \A d \in Callers : d # c => pc'[d] = pc[d]
  BY <1>1 DEF IInv, TypeOK
<1>5. TypeOK'
  BY <1>1, <1>3 DEF IInv, TypeOK
<1>6. Counted'
  <2>1. \A d \in Callers : InFlight(d) \in Nat
    BY InFlightType DEF IInv, Counted
  <2> QED BY <2>1, <1>1, <1>2, <1>3, <1>4 DEF IInv, Counted, Calling
<1>7. InLoop'
  BY <1>1, <1>4 DEF IInv, InLoop
<1>8. Sent'
  BY <1>1, <1>3, <1>4 DEF IInv, Sent, Calling
<1> QED BY <1>3, <1>5, <1>6, <1>7, <1>8 DEF IInv

LEMMA NextIInv == IInv /\ [Next]_vars => IInv'
<1> SUFFICES ASSUME IInv, [Next]_vars PROVE IInv'
  OBVIOUS
<1>1. ASSUME NEW c \in Callers, NEW n \in 1 .. MaxPieces, Compress(c, n) PROVE IInv'
  BY <1>1, CompressIInv
<1>2. ASSUME NEW c \in Callers, CompressShort(c) \/ CompressReturn(c) PROVE IInv'
  BY <1>2, StillIInv
<1>3. ASSUME NEW c \in Callers, SendPiece(c) PROVE IInv'
  BY <1>3, SendPieceIInv
<1>4. ASSUME NEW c \in Callers, ReceiveInLoop(c) \/ Drain(c) PROVE IInv'
  BY <1>4, ReceiveIInv
<1>5. ASSUME NEW c \in Callers, FastSend(c) PROVE IInv'
  BY <1>5, FastSendIInv
<1>6. ASSUME NEW c \in Callers, FastReturn(c) PROVE IInv'
  BY <1>6, FastReturnIInv
<1>7. ASSUME NEW w \in Workers \cup FastWorkers, WorkerStep(w) PROVE IInv'
  BY <1>7, WorkerIInv
<1>8. CASE UNCHANGED vars
  <2>1. /\ UNCHANGED <<queue, job, ch_out>>
        /\ UNCHANGED <<pc, tasks_no, piece_no, in_progress, is_broken, chunks, result>>
    BY <1>8 DEF vars, call_vars
  <2>2. /\ \A d \in Callers :
             /\ IsFiniteSet(AtWork(d))' /\ InFlight(d)' = InFlight(d)
             /\ \A m : Pending(d, m)' <=> Pending(d, m)
        /\ Apart'
    BY <2>1, StillEffect DEF IInv
  <2> QED BY <2>1, <2>2 DEF IInv, TypeOK, Counted, InLoop, Sent
<1> QED
  BY <1>1, <1>2, <1>3, <1>4, <1>5, <1>6, <1>7, <1>8 DEF Next, CallerStep

-----------------------------------------------------------------------------
(* The theorems. *)

LEMMA AlwaysIInv == Spec => []IInv
BY InitIInv, NextIInv, PTL DEF Spec

(* The types of the compressor's state; no channel holds more than its      *)
(* capacity and a call never has more than Window pieces in progress.       *)
THEOREM EngineTypeCorrect == Spec => []TypeOK
<1>1. IInv => TypeOK
  BY DEF IInv
<1> QED BY <1>1, AlwaysIInv, PTL

(* A call's output buffer is written only during the call, and no block of  *)
(* it by two workers.                                                       *)
THEOREM BuffersAlwaysPrivate == Spec => []BuffersPrivate
<1>1. IInv => BuffersPrivate
  BY DEF IInv, Counted, Apart, BuffersPrivate, NoStrayPiece
<1> QED BY <1>1, AlwaysIInv, PTL

(* A call counts its pieces on the way exactly, and ends with the size of   *)
(* every piece when none failed.                                            *)
THEOREM PiecesAlwaysExact == Spec => []PiecesExact
<1>1. ASSUME IInv PROVE InProgressExact
  BY <1>1 DEF IInv, Counted, InProgressExact, Calling
<1>2. ASSUME IInv PROVE SizesComplete
  <2> SUFFICES ASSUME NEW c \in Callers, pc[c] = "drain", in_progress[c] = 0, ~is_broken[c]
               PROVE  chunks[c] = 0 .. tasks_no[c] - 1
    BY DEF SizesComplete
  <2>1. \A n : ~Pending(c, n)
    BY <1>2, NothingPending DEF IInv, Counted, Calling
  <2>2. /\ piece_no[c] = tasks_no[c] /\ tasks_no[c] \in Nat /\ chunks[c] \subseteq Pieces
        /\ \A n \in chunks[c] : n < piece_no[c]
        /\ \A n \in 0 .. piece_no[c] - 1 : n \in chunks[c] \/ Pending(c, n)
    BY <1>2 DEF IInv, TypeOK, InLoop, Sent, Calling
  <2>3. chunks[c] \subseteq 0 .. tasks_no[c] - 1
    BY <2>2 DEF Pieces
  <2>4. 0 .. tasks_no[c] - 1 \subseteq chunks[c]
    BY <2>1, <2>2
  <2> QED BY <2>3, <2>4
<1> QED BY <1>1, <1>2, AlwaysIInv, PTL DEF PiecesExact

=============================================================================
