---------------------------- MODULE FramingProofs ----------------------------
(***************************************************************************)
(* Proofs about Framing, part by part.                                     *)
(*                                                                         *)
(* UdpInv says of each sender where its next message begins.  A sender of  *)
(* whole datagrams needs nothing else than that each datagram holds whole  *)
(* messages of one version; for one that cuts, what was heard and what is  *)
(* under way are its cells in order, so that the number of messages taken  *)
(* tells the cell that comes next.  MergeInv says which units of a piece   *)
(* are read as they were written; MessageInv, that what is left to read of *)
(* a message is what was sent behind the parameters read, up to the cut.   *)
(*                                                                         *)
(* FlattenSeq is a recursive function chosen by its equation: that there   *)
(* is one, and that it goes on with the sequence, is shown by the least    *)
(* length for which it would fail.                                         *)
(***************************************************************************)
EXTENDS Framing, FiniteSetTheorems, SequenceTheorems, WellFoundedInduction, TLAPS

LEMMA SeqFacts ==
  ASSUME NEW E, NEW q \in Seq(E)
  PROVE  /\ Len(q) \in Nat /\ DOMAIN q = 1 .. Len(q)
         /\ \A j \in 1 .. Len(q) : q[j] \in E
         /\ q # <<>> <=> Len(q) # 0
<1>1. Len(q) \in Nat /\ DOMAIN q = 1 .. Len(q)
  BY LenProperties
<1>2. q # <<>> <=> Len(q) # 0
  BY EmptySeq
<1> QED BY <1>1, <1>2, ElementOfSeq

LEMMA NatMinimum ==
  ASSUME NEW T, T \subseteq Nat, T # {}
  PROVE  \E m \in T : \A n \in T : m <= n
<1>1. PICK m \in T : \A n \in T : ~(<<n, m>> \in OpToRel(<, Nat))
  BY NatLessThanWellFounded, WFMin, Zenon
<1>2. \A n \in T : ~(n < m)
  BY <1>1 DEF OpToRel
<1> QED BY <1>2

(* A set of numbers that has 0, and with each number the next, has all.     *)
LEMMA AllNumbers ==
  ASSUME NEW T, 0 \in T, \A n \in Nat : n \in T => n + 1 \in T
  PROVE  Nat \subseteq T
<1> SUFFICES ASSUME Nat \ T # {} PROVE FALSE
  OBVIOUS
<1>1. PICK m \in Nat \ T : \A n \in Nat \ T : m <= n
  BY NatMinimum
<1>2. m - 1 \in Nat /\ ~(m <= m - 1) /\ (m - 1) + 1 = m
  BY <1>1
<1> QED BY <1>1, <1>2

-----------------------------------------------------------------------------
(* Sequences of sequences, joined. *)

Joins(f, q, n) == f = [j \in 1 .. n |-> IF j = 1 THEN q[j] ELSE f[j - 1] \o q[j]]

LEMMA JoinExists ==
  ASSUME NEW q
  PROVE  \A n \in Nat : \E f : Joins(f, q, n)
<1> DEFINE T == {n \in Nat : \E f : Joins(f, q, n)}
<1>1. 0 \in T
  <2>1. Joins([j \in 1 .. 0 |-> 0], q, 0)
    BY DEF Joins
  <2> QED BY <2>1
<1>2. ASSUME NEW n \in Nat, n \in T PROVE n + 1 \in T
  <2>1. PICK f : Joins(f, q, n)
    BY <1>2
  <2> DEFINE g == [j \in 1 .. n + 1 |-> IF j = 1 THEN q[j] ELSE f[j - 1] \o q[j]]
  <2>2. \A j \in 1 .. n : g[j] = f[j]
    <3>1. \A j \in 1 .. n : f[j] = IF j = 1 THEN q[j] ELSE f[j - 1] \o q[j]
      BY <2>1, Zenon DEF Joins
    <3>2. \A j \in 1 .. n : j \in 1 .. n + 1
      OBVIOUS
    <3>3. \A j \in 1 .. n + 1 : g[j] = IF j = 1 THEN q[j] ELSE f[j - 1] \o q[j]
      OBVIOUS
    <3> QED BY <3>1, <3>2, <3>3
  <2>3. \A j \in 1 .. n + 1 : j # 1 => j - 1 \in 1 .. n
    OBVIOUS
  <2>4. \A j \in 1 .. n + 1 : g[j] = IF j = 1 THEN q[j] ELSE g[j - 1] \o q[j]
    BY <2>2, <2>3
  <2>5. Joins(g, q, n + 1)
    BY <2>4, Zenon DEF Joins
  <2> QED BY <2>5
<1>3. Nat \subseteq T
  BY <1>1, <1>2, AllNumbers
<1> QED BY <1>3

(* The same up to n. *)
Agree(q, r, n) == \A j \in 1 .. n : q[j] = r[j]

LEMMA JoinUnique ==
  ASSUME NEW q, NEW r, NEW n \in Nat, NEW m \in Nat, n <= m, Agree(q, r, n),
         NEW f, NEW g, Joins(f, q, n), Joins(g, r, m)
  PROVE  Agree(f, g, n)
<1> DEFINE T == {k \in Nat : k \in 1 .. n => f[k] = g[k]}
<1>1. 0 \in T
  OBVIOUS
<1>2. ASSUME NEW k \in Nat, k \in T PROVE k + 1 \in T
  <2> SUFFICES ASSUME k + 1 \in 1 .. n PROVE f[k + 1] = g[k + 1]
    OBVIOUS
  <2>1. k + 1 \in 1 .. m /\ q[k + 1] = r[k + 1] /\ (k + 1) - 1 = k
    BY DEF Agree
  <2>2. f[k + 1] = IF k + 1 = 1 THEN q[k + 1] ELSE f[(k + 1) - 1] \o q[k + 1]
    BY Zenon DEF Joins
  <2>3. g[k + 1] = IF k + 1 = 1 THEN r[k + 1] ELSE g[(k + 1) - 1] \o r[k + 1]
    BY <2>1, Zenon DEF Joins
  <2>4. k + 1 # 1 => k \in 1 .. n
    OBVIOUS
  <2> QED BY <1>2, <2>1, <2>2, <2>3, <2>4
<1>3. Nat \subseteq T
  BY <1>1, <1>2, AllNumbers
<1> QED BY <1>3 DEF Agree

LEMMA FlattenIs ==
  ASSUME NEW q, Len(q) \in Nat, Len(q) # 0
  PROVE  \E f : Joins(f, q, Len(q)) /\ Udp!FlattenSeq(q) = f[Len(q)]
<1> DEFINE f == CHOOSE g : Joins(g, q, Len(q))
<1>1. Joins(f, q, Len(q))
  BY JoinExists
<1>2. Udp!FlattenSeq(q) = f[Len(q)]
  BY DEF Udp!FlattenSeq, Joins
<1> QED BY <1>1, <1>2

(* What a sequence of sequences joined to one holds when one more is added. *)
LEMMA FlattenAppend ==
  ASSUME NEW E, NEW q \in Seq(Seq(E)), NEW m \in Seq(E)
  PROVE  Udp!FlattenSeq(Append(q, m)) = Udp!FlattenSeq(q) \o m
<1>1. PICK r : r = Append(q, m)
  OBVIOUS
<1>2. PICK n \in Nat : n = Len(q)
  BY SeqFacts
<1>3. r \in Seq(Seq(E)) /\ Len(r) = n + 1 /\ r[n + 1] = m /\ \A j \in 1 .. n : r[j] = q[j]
  BY <1>1, <1>2, AppendProperties
<1>4. PICK g : Joins(g, r, n + 1) /\ Udp!FlattenSeq(r) = g[n + 1]
  <2>1. n + 1 \in Nat /\ n + 1 # 0
    BY <1>2
  <2> QED BY <1>3, <2>1, FlattenIs
<1>5. g[n + 1] = IF n + 1 = 1 THEN r[n + 1] ELSE g[(n + 1) - 1] \o r[n + 1]
  <2>1. n + 1 \in 1 .. n + 1
    BY <1>2
  <2> QED BY <1>4, <2>1, Zenon DEF Joins
<1>6. CASE n = 0
  <2>1. Udp!FlattenSeq(q) = <<>>
    <3>1. q = <<>>
      BY <1>2, <1>6, EmptySeq
    <3> QED BY <1>2, <1>6, <3>1 DEF Udp!FlattenSeq
  <2>2. <<>> \o m = m
    BY ConcatEmptySeq
  <2> QED BY <1>1, <1>3, <1>4, <1>5, <1>6, <2>1, <2>2
<1>7. CASE n # 0
  <2>1. PICK f : Joins(f, q, n) /\ Udp!FlattenSeq(q) = f[n]
    BY <1>2, <1>7, FlattenIs
  <2>2. f[n] = g[n]
    <3>1. n <= n + 1 /\ n + 1 \in Nat /\ n \in 1 .. n
      BY <1>2, <1>7
    <3>2. Agree(q, r, n)
      BY <1>3 DEF Agree
    <3>3. Agree(f, g, n)
      BY <1>2, <1>4, <2>1, <3>1, <3>2, JoinUnique
    <3> QED BY <3>1, <3>3 DEF Agree
  <2>3. (n + 1) - 1 = n /\ n + 1 # 1
    BY <1>2, <1>7
  <2> QED BY <1>1, <1>3, <1>4, <1>5, <2>1, <2>2, <2>3
<1> QED BY <1>6, <1>7

-----------------------------------------------------------------------------
(* Messages in datagrams. *)

Cell == [id : Nat, ver : {1, 2}, k : 1 .. 3]

LEMMA CellsAssociate ==
  \A f, b, d \in Seq(Cell) : (f \o b) \o d = f \o (b \o d)
<1> SUFFICES ASSUME NEW f \in Seq(Cell), NEW b \in Seq(Cell), NEW d \in Seq(Cell)
             PROVE  (f \o b) \o d = f \o (b \o d)
  OBVIOUS
<1> HIDE DEF Cell
<1> QED BY ConcatAssociative

(* A whole message of version v behind the first o cells. *)
MessageAt(d, o, v) ==
  /\ d[o + 1].k = 1 /\ d[o + 1].ver = v
  /\ d[o + 2] = [d[o + 1] EXCEPT !.k = 2] /\ d[o + 3] = [d[o + 1] EXCEPT !.k = 3]

(* Nothing but whole messages of version v. *)
Messages(d, v) ==
  \E m \in Nat \ {0} : Len(d) = 3 * m /\ \A t \in 0 .. m - 1 : MessageAt(d, 3 * t, v)

(* It begins at the beginning of a message of version v. *)
HeadRight(b, v) ==
  /\ b # <<>> /\ b[1].k = 1 /\ b[1].ver = v
  /\ Len(b) >= 2 => b[2] = [b[1] EXCEPT !.k = 2]
  /\ Len(b) >= 3 => b[3] = [b[1] EXCEPT !.k = 3]

Busy(s) == at # Udp!Listening /\ at.s = s

(* The datagrams q are what follows the first n cells of c, up to the last. *)
InOrder(q, c, n, last) ==
  \E b \in [1 .. Len(q) + 1 -> 0 .. Len(c)] :
    /\ b[1] = n /\ b[Len(q) + 1] = last
    /\ \A p \in 1 .. Len(q) :
         /\ b[p + 1] = b[p] + Len(q[p])
         /\ \A j \in 1 .. Len(q[p]) : q[p][j] = c[b[p] + j]

(* A sender of whole datagrams: each datagram is in step by itself.         *)
WholeRight(s) ==
  style[s] = "whole" =>
    /\ \E a \in Nat : sent[s] = 3 * a
    /\ \A j \in 1 .. Len(net[s]) : \E v \in {1, 2} : Messages(net[s][j], v)
    /\ Busy(s) => Messages(source_buffer[s], at.ver)
    /\ ~Busy(s) => source_buffer[s] = <<>>

(* A sender that cuts: what was heard of it and what is under way are its   *)
(* cells in order.                                                          *)
CutRight(s) ==
  style[s] # "whole" /\ Udp!InStep(s) =>
    /\ InOrder(net[s], Udp!Cells(s), Len(received[s]), sent[s])
    /\ \A j \in 1 .. Len(received[s]) : received[s][j] = Udp!Cells(s)[j]
    /\ Busy(s) => HeadRight(source_buffer[s], at.ver)

(* What is gathered follows the messages that were started.                 *)
ServedRight(s) ==
  Udp!InStep(s) =>
    /\ \A j \in 1 .. Len(started[s]) : Udp!IsMessage(started[s][j])
    /\ Udp!FlattenSeq(started[s]) \in Seq(Cell)
    /\ Len(Udp!FlattenSeq(started[s])) = 3 * Len(started[s])
    /\ Udp!FlattenSeq(started[s]) \o source_buffer[s] = received[s]

SenderRight(s) == WholeRight(s) /\ CutRight(s) /\ ServedRight(s)

UdpTypes ==
  /\ plan \in [Senders -> Seq({1, 2})] /\ \A s \in Senders : plan[s] \in Plans[s]
  /\ style \in [Senders -> {"whole", "cut"}] /\ \A s \in Senders : style[s] \in Styles[s]
  /\ sent \in [Senders -> Nat] /\ \A s \in Senders : sent[s] <= Len(Udp!Cells(s))
  /\ net \in [Senders -> Seq(Seq(Cell))]
  /\ \A s \in Senders : \A j \in 1 .. Len(net[s]) : net[s][j] # <<>>
  /\ source_buffer \in [Senders -> Seq(Cell)] /\ received \in [Senders -> Seq(Cell)]
  /\ started \in [Senders -> Seq(Seq(Cell))]
  /\ faults \in 0 .. MaxFaults /\ disturbed \in [Senders -> BOOLEAN]
  /\ at = Udp!Listening \/ (at \in [s : Senders, ver : {1, 2}] /\ source_buffer[at.s] # <<>>)
  /\ running \subseteq [s : Senders, n : Nat, hops : 0 .. MaxForwards]
  /\ up \in BOOLEAN

UdpInv ==
  /\ UdpTypes
  /\ \A s \in Senders : SenderRight(s)
  /\ Udp!DownOnlyOutOfStep

LEMMA UdpConstants ==
  /\ \A s \in Senders : Plans[s] \subseteq Seq({1, 2}) /\ Styles[s] \subseteq {"whole", "cut"}
  /\ MaxFaults \in Nat /\ MaxForwards \in Nat
BY PartsAssumption DEF Udp!UdpAssumption

(* The cells of a sender are its messages one after the other. *)
LEMMA CellsAre ==
  ASSUME NEW s \in Senders, plan[s] \in Seq({1, 2})
  PROVE  /\ Udp!Cells(s) \in Seq(Cell) /\ Len(Udp!Cells(s)) = 3 * Len(plan[s])
         /\ \A t \in 0 .. Len(plan[s]) - 1 : MessageAt(Udp!Cells(s), 3 * t, plan[s][t + 1])
<1>1. PICK n \in Nat : n = Len(plan[s]) /\ \A j \in 1 .. n : plan[s][j] \in {1, 2}
  BY SeqFacts
<1> DEFINE c(j) == [id |-> ((j - 1) \div 3) + 1, ver |-> plan[s][((j - 1) \div 3) + 1],
                    k |-> ((j - 1) % 3) + 1]
<1>2. Udp!Cells(s) = [j \in 1 .. 3 * n |-> c(j)]
  BY <1>1 DEF Udp!Cells, Udp!MessageLen
<1>3. ASSUME NEW j \in 1 .. 3 * n PROVE c(j) \in Cell
  <2>1. ((j - 1) \div 3) + 1 \in 1 .. n /\ ((j - 1) % 3) + 1 \in 1 .. 3
    BY <1>1
  <2> QED BY <1>1, <2>1 DEF Cell
<1>4. 3 * n \in Nat
  BY <1>1
<1>5. Udp!Cells(s) \in Seq(Cell) /\ Len(Udp!Cells(s)) = 3 * n
  <2>1. Udp!Cells(s) \in [1 .. 3 * n -> Cell]
    BY <1>2, <1>3
  <2>2. Udp!Cells(s) \in Seq(Cell)
    BY <1>4, <2>1, SeqDef
  <2>3. DOMAIN Udp!Cells(s) = 1 .. 3 * n
    BY <2>1
  <2> QED BY <1>4, <2>2, <2>3, LenProperties
<1>6. ASSUME NEW t \in 0 .. n - 1 PROVE MessageAt(Udp!Cells(s), 3 * t, plan[s][t + 1])
  <2>1. 3 * t + 1 \in 1 .. 3 * n /\ 3 * t + 2 \in 1 .. 3 * n /\ 3 * t + 3 \in 1 .. 3 * n
    BY <1>1
  <2>2. /\ ((3 * t + 1) - 1) \div 3 = t /\ ((3 * t + 1) - 1) % 3 = 0
        /\ ((3 * t + 2) - 1) \div 3 = t /\ ((3 * t + 2) - 1) % 3 = 1
        /\ ((3 * t + 3) - 1) \div 3 = t /\ ((3 * t + 3) - 1) % 3 = 2
    BY <1>1
  <2> HIDE DEF c
  <2>3. /\ Udp!Cells(s)[3 * t + 1] = c(3 * t + 1) /\ Udp!Cells(s)[3 * t + 2] = c(3 * t + 2)
        /\ Udp!Cells(s)[3 * t + 3] = c(3 * t + 3)
    BY <1>2, <2>1
  <2>4. /\ c(3 * t + 1) = [id |-> t + 1, ver |-> plan[s][t + 1], k |-> 1]
        /\ c(3 * t + 2) = [id |-> t + 1, ver |-> plan[s][t + 1], k |-> 2]
        /\ c(3 * t + 3) = [id |-> t + 1, ver |-> plan[s][t + 1], k |-> 3]
    BY <2>2 DEF c
  <2> QED BY <2>3, <2>4 DEF MessageAt
<1> QED BY <1>1, <1>5, <1>6

(* Where a message begins, the rounds of both loops take it whole or wait.  *)
LEMMA Outcomes ==
  ASSUME NEW b \in Seq(Cell), NEW v \in {1, 2}, HeadRight(b, v)
  PROVE  (IF v = 2 THEN Udp!processRequestDataV2(b) ELSE Udp!processRequestData(b))
           = IF Len(b) >= 3 THEN {3} ELSE {0}
<1>1. /\ Len(b) \in Nat /\ Len(b) # 0 /\ b[1].k = 1 /\ b[1].ver = v
      /\ Len(b) >= 2 => b[2] = [b[1] EXCEPT !.k = 2]
      /\ \A j \in 1 .. Len(b) : b[j] \in Cell
  BY SeqFacts DEF HeadRight
<1>2. CASE v = 2
  <2>1. Udp!processRequestDataV2(b) = IF Len(b) >= 3 THEN {3} ELSE {0}
    BY <1>1, <1>2 DEF Udp!processRequestDataV2, Udp!MessageLen, Udp!Wait
  <2> QED BY <1>2, <2>1
<1>3. CASE v = 1
  <2> DEFINE I == {j \in 1 .. Len(b) : b[j].ver = 1 /\ b[j].k = 2}
  <2>1. b[1] \in Cell /\ 1 \notin I /\ (Len(b) >= 2 => 2 \in I)
    <3>1. 1 \in 1 .. Len(b)
      BY <1>1
    <3>2. b[1] \in Cell
      BY <1>1, <3>1
    <3>3. Len(b) >= 2 => 2 \in 1 .. Len(b) /\ b[2].ver = 1 /\ b[2].k = 2
      BY <1>1, <1>3, <3>2 DEF Cell
    <3> QED BY <1>1, <3>2, <3>3
  <2>2. Len(b) < 2 => I = {}
    BY <1>1, <2>1
  <2>3. Len(b) >= 2 => Udp!Min(I) = 2
    <3> SUFFICES ASSUME Len(b) >= 2 PROVE Udp!Min(I) = 2
      OBVIOUS
    <3>1. 2 \in I /\ \A j \in I : 2 <= j
      BY <1>1, <2>1
    <3>2. \A j \in I : j \in Nat
      BY <1>1
    <3>3. PICK m : m = Udp!Min(I)
      OBVIOUS
    <3>4. m \in I /\ \A j \in I : m <= j
      BY <3>1, <3>3 DEF Udp!Min
    <3> QED BY <3>1, <3>2, <3>3, <3>4
  <2>4. PICK lenf : lenf = Udp!SelectInSeq(b, LAMBDA c : c.ver = 1 /\ c.k = 2)
    OBVIOUS
  <2>5. lenf = IF Len(b) >= 2 THEN 2 ELSE 0
    BY <1>1, <2>1, <2>2, <2>3, <2>4 DEF Udp!SelectInSeq
  <2>6. Udp!processRequestData(b) = IF Len(b) >= 3 THEN {3} ELSE {0}
    BY <1>1, <1>3, <2>4, <2>5 DEF Udp!processRequestData, Udp!MessageLen, Udp!Wait
  <2> QED BY <1>3, <2>6
<1> QED BY <1>2, <1>3

(* Whatever they are given, they move on within it, or wait, flush or panic.*)
LEMMA AnyOutcome ==
  ASSUME NEW b \in Seq(Cell), b # <<>>, NEW v \in {1, 2},
         NEW m \in IF v = 2 THEN Udp!processRequestDataV2(b) ELSE Udp!processRequestData(b)
  PROVE  m \in {0, -1, -2} \/ m \in 1 .. Len(b)
<1>1. Len(b) \in Nat /\ Len(b) # 0
  BY SeqFacts
<1>2. CASE v = 2
  BY <1>1, <1>2 DEF Udp!processRequestDataV2, Udp!MessageLen, Udp!Wait, Udp!Flush, Udp!Panic
<1>3. CASE v = 1
  <2> DEFINE I == {j \in 1 .. Len(b) : b[j].ver = 1 /\ b[j].k = 2}
  <2>1. PICK lenf : lenf = Udp!SelectInSeq(b, LAMBDA c : c.ver = 1 /\ c.k = 2)
    OBVIOUS
  <2>2. I # {} => Udp!Min(I) \in I
    <3> SUFFICES ASSUME I # {} PROVE Udp!Min(I) \in I
      OBVIOUS
    <3>1. I \subseteq Nat
      BY <1>1
    <3>2. \E n \in I : \A j \in I : n <= j
      BY <3>1, NatMinimum
    <3> QED BY <3>2 DEF Udp!Min
  <2>3. lenf = 0 \/ lenf \in 1 .. Len(b)
    BY <1>1, <2>1, <2>2 DEF Udp!SelectInSeq
  <2>4. m \in Udp!processRequestData(b)
    BY <1>3
  <2> QED BY <1>1, <2>1, <2>3, <2>4
          DEF Udp!processRequestData, Udp!MessageLen, Udp!Wait, Udp!Flush, Udp!Panic
<1> QED BY <1>2, <1>3

LEMMA RemoveAtFacts ==
  ASSUME NEW E, NEW q \in Seq(E), NEW p \in 1 .. Len(q)
  PROVE  LET r == Udp!RemoveAt(q, p) IN
         /\ r \in Seq(E) /\ Len(r) = Len(q) - 1
         /\ \A j \in 1 .. Len(r) : \E o \in 1 .. Len(q) : r[j] = q[o]
         /\ p = 1 => \A j \in 1 .. Len(r) : r[j] = q[j + 1]
<1> DEFINE x == SubSeq(q, 1, p - 1)
           y == SubSeq(q, p + 1, Len(q))
           r == Udp!RemoveAt(q, p)
<1>1. Len(q) \in Nat /\ \A j \in 1 .. Len(q) : q[j] \in E
  BY SeqFacts
<1>2. /\ x \in Seq(E) /\ Len(x) = p - 1 /\ \A j \in 1 .. p - 1 : x[j] = q[j]
  <2>1. \A j \in 1 .. p - 1 : q[j] \in E
    BY <1>1
  <2>2. 1 \in Int /\ p - 1 \in Int
    BY <1>1
  <2>3. /\ x \in Seq(E) /\ Len(x) = IF 1 <= p - 1 THEN (p - 1) - 1 + 1 ELSE 0
        /\ \A j \in 1 .. (p - 1) - 1 + 1 : x[j] = q[1 + j - 1]
    BY <2>1, <2>2, SubSeqProperties
  <2> HIDE DEF x
  <2>4. (p - 1) - 1 + 1 = p - 1 /\ \A j \in 1 .. p - 1 : 1 + j - 1 = j
    BY <1>1
  <2> QED BY <1>1, <2>3, <2>4
<1>3. /\ y \in Seq(E) /\ Len(y) = Len(q) - p /\ \A j \in 1 .. Len(q) - p : y[j] = q[p + j]
  <2>1. \A j \in p + 1 .. Len(q) : q[j] \in E
    BY <1>1
  <2>2. p + 1 \in Int /\ Len(q) \in Int
    BY <1>1
  <2>3. /\ y \in Seq(E) /\ Len(y) = IF p + 1 <= Len(q) THEN Len(q) - (p + 1) + 1 ELSE 0
        /\ \A j \in 1 .. Len(q) - (p + 1) + 1 : y[j] = q[p + 1 + j - 1]
    BY <2>1, <2>2, SubSeqProperties
  <2> HIDE DEF y
  <2>4. Len(q) - (p + 1) + 1 = Len(q) - p
    BY <1>1
  <2>5. ASSUME NEW j \in 1 .. Len(q) - p PROVE y[j] = q[p + j]
    <3>1. p + 1 + j - 1 = p + j
      BY <1>1
    <3>2. y[j] = q[p + 1 + j - 1]
      BY <2>3, <2>4
    <3> QED BY <3>1, <3>2
  <2>6. Len(y) = Len(q) - p
    <3>1. Len(y) = IF p + 1 <= Len(q) THEN Len(q) - (p + 1) + 1 ELSE 0
      BY <2>3
    <3>2. p <= Len(q) /\ p \in Nat
      BY <1>1
    <3> QED BY <1>1, <3>1, <3>2
  <2> QED BY <2>3, <2>5, <2>6
<1>4. r = x \o y
  BY DEF Udp!RemoveAt
<1> HIDE DEF x, y, r
<1>5. /\ r \in Seq(E) /\ Len(r) = Len(x) + Len(y)
      /\ \A j \in 1 .. Len(x) + Len(y) : r[j] = IF j <= Len(x) THEN x[j] ELSE y[j - Len(x)]
  BY <1>2, <1>3, <1>4, ConcatProperties
<1>6. Len(r) = Len(q) - 1
  BY <1>1, <1>2, <1>3, <1>5
<1>7. ASSUME NEW j \in 1 .. Len(r)
      PROVE  r[j] = IF j <= p - 1 THEN q[j] ELSE q[j + 1]
  <2>1. CASE j <= p - 1
    <3>1. j \in 1 .. p - 1 /\ j <= Len(x) /\ j \in 1 .. Len(x) + Len(y)
      BY <1>1, <1>2, <1>5, <2>1
    <3> QED BY <1>2, <1>5, <2>1, <3>1
  <2>2. CASE ~(j <= p - 1)
    <3>1. /\ j - Len(x) \in 1 .. Len(q) - p /\ ~(j <= Len(x)) /\ j \in 1 .. Len(x) + Len(y)
          /\ p + (j - Len(x)) = j + 1
      BY <1>1, <1>2, <1>3, <1>5, <1>6, <2>2
    <3> QED BY <1>3, <1>5, <2>2, <3>1
  <2> QED BY <2>1, <2>2
<1>8. \A j \in 1 .. Len(r) : j \in 1 .. Len(q) /\ j + 1 \in 1 .. Len(q) /\ (p = 1 => ~(j <= p - 1))
  BY <1>1, <1>6
<1> QED BY <1>5, <1>6, <1>7, <1>8 DEF r

LEMMA InOrderMore ==
  ASSUME NEW q \in Seq(Seq(Cell)), NEW c \in Seq(Cell), NEW d \in Seq(Cell), NEW n, NEW last \in Nat,
         InOrder(q, c, n, last), last + Len(d) <= Len(c), \A j \in 1 .. Len(d) : d[j] = c[last + j]
  PROVE  InOrder(Append(q, d), c, n, last + Len(d))
<1>1. PICK r : r = Append(q, d)
  OBVIOUS
<1>2. PICK l \in Nat : l = Len(q)
  BY SeqFacts
<1>3. Len(r) = l + 1 /\ r[l + 1] = d /\ \A j \in 1 .. l : r[j] = q[j]
  BY <1>1, <1>2, AppendProperties
<1>4. PICK b \in [1 .. l + 1 -> 0 .. Len(c)] :
        /\ b[1] = n /\ b[l + 1] = last
        /\ \A p \in 1 .. l : /\ b[p + 1] = b[p] + Len(q[p])
                             /\ \A j \in 1 .. Len(q[p]) : q[p][j] = c[b[p] + j]
  BY <1>2 DEF InOrder
<1> DEFINE e == [p \in 1 .. Len(r) + 1 |-> IF p <= l + 1 THEN b[p] ELSE last + Len(d)]
<1>5. last + Len(d) \in 0 .. Len(c)
  <2>1. Len(d) \in Nat /\ Len(c) \in Nat
    BY SeqFacts
  <2> QED BY <2>1
<1>6. e \in [1 .. Len(r) + 1 -> 0 .. Len(c)]
  <2>1. \A p \in 1 .. Len(r) + 1 : p <= l + 1 => p \in 1 .. l + 1
    BY <1>2
  <2> QED BY <1>4, <1>5, <2>1
<1>7. /\ \A p \in 1 .. l + 1 : e[p] = b[p]
      /\ e[Len(r) + 1] = last + Len(d)
  <2>1. \A p \in 1 .. l + 1 : p \in 1 .. Len(r) + 1 /\ p <= l + 1
    BY <1>2, <1>3
  <2>2. Len(r) + 1 \in 1 .. Len(r) + 1 /\ ~(Len(r) + 1 <= l + 1)
    BY <1>2, <1>3
  <2> QED BY <2>1, <2>2
<1> HIDE DEF e
<1>8. ASSUME NEW p \in 1 .. Len(r)
      PROVE  /\ e[p + 1] = e[p] + Len(r[p])
             /\ \A j \in 1 .. Len(r[p]) : r[p][j] = c[e[p] + j]
  <2>1. CASE p \in 1 .. l
    <3>1. p \in 1 .. l + 1 /\ p + 1 \in 1 .. l + 1
      BY <1>2, <2>1
    <3>2. e[p] = b[p] /\ e[p + 1] = b[p + 1] /\ r[p] = q[p]
      BY <1>3, <1>7, <2>1, <3>1
    <3>3. /\ b[p + 1] = b[p] + Len(q[p])
          /\ \A j \in 1 .. Len(q[p]) : q[p][j] = c[b[p] + j]
      BY <1>4, <2>1
    <3> QED BY <3>2, <3>3
  <2>2. CASE p = l + 1
    <3>1. l + 1 \in 1 .. l + 1 /\ p + 1 = Len(r) + 1
      BY <1>2, <1>3, <2>2
    <3>2. e[p] = last /\ e[p + 1] = last + Len(d) /\ r[p] = d
      BY <1>3, <1>4, <1>7, <2>2, <3>1
    <3>3. \A j \in 1 .. Len(d) : d[j] = c[last + j]
      OBVIOUS
    <3> QED BY <3>2, <3>3
  <2>3. p \in 1 .. l \/ p = l + 1
    BY <1>2, <1>3
  <2> QED BY <2>1, <2>2, <2>3
<1>9. e[1] = n
  <2>1. 1 \in 1 .. l + 1
    BY <1>2
  <2> QED BY <1>4, <1>7, <2>1
<1> QED BY <1>1, <1>6, <1>7, <1>8, <1>9 DEF InOrder

LEMMA InOrderFirst ==
  ASSUME NEW q \in Seq(Seq(Cell)), q # <<>>, NEW r \in Seq(Seq(Cell)), Len(r) = Len(q) - 1,
         \A j \in 1 .. Len(r) : r[j] = q[j + 1],
         NEW c \in Seq(Cell), NEW n \in Nat, NEW last \in Nat, InOrder(q, c, n, last)
  PROVE  /\ InOrder(r, c, n + Len(q[1]), last) /\ n + Len(q[1]) <= Len(c)
         /\ \A j \in 1 .. Len(q[1]) : q[1][j] = c[n + j]
<1>1. PICK l \in Nat : l = Len(r) /\ Len(q) = l + 1
  BY SeqFacts
<1>2. PICK b \in [1 .. Len(q) + 1 -> 0 .. Len(c)] :
        /\ b[1] = n /\ b[Len(q) + 1] = last
        /\ \A p \in 1 .. Len(q) : /\ b[p + 1] = b[p] + Len(q[p])
                                  /\ \A j \in 1 .. Len(q[p]) : q[p][j] = c[b[p] + j]
  BY DEF InOrder
<1>3. 1 \in 1 .. Len(q) /\ 1 + 1 = 2 /\ 2 \in 1 .. Len(q) + 1
  BY <1>1
<1>4. /\ b[2] = n + Len(q[1]) /\ b[2] \in 0 .. Len(c)
      /\ \A j \in 1 .. Len(q[1]) : q[1][j] = c[n + j]
  BY <1>2, <1>3
<1> DEFINE e == [p \in 1 .. l + 1 |-> b[p + 1]]
<1>5. \A p \in 1 .. l + 1 : p + 1 \in 1 .. Len(q) + 1
  BY <1>1
<1>6. e \in [1 .. l + 1 -> 0 .. Len(c)] /\ \A p \in 1 .. l + 1 : e[p] = b[p + 1]
  BY <1>2, <1>5
<1> HIDE DEF e
<1>7. e[1] = n + Len(q[1]) /\ e[l + 1] = last
  <2>1. 1 \in 1 .. l + 1 /\ l + 1 \in 1 .. l + 1 /\ (l + 1) + 1 = Len(q) + 1
    BY <1>1
  <2> QED BY <1>2, <1>3, <1>4, <1>6, <2>1
<1>8. ASSUME NEW p \in 1 .. l
      PROVE  /\ e[p + 1] = e[p] + Len(r[p])
             /\ \A j \in 1 .. Len(r[p]) : r[p][j] = c[e[p] + j]
  <2>1. p \in 1 .. l + 1 /\ p + 1 \in 1 .. l + 1 /\ p + 1 \in 1 .. Len(q)
    BY <1>1
  <2>2. r[p] = q[p + 1] /\ e[p] = b[p + 1] /\ e[p + 1] = b[(p + 1) + 1]
    BY <1>1, <1>6, <2>1
  <2> QED BY <1>2, <2>1, <2>2
<1>9. InOrder(r, c, n + Len(q[1]), last)
  BY <1>1, <1>6, <1>7, <1>8 DEF InOrder
<1>10. n + Len(q[1]) <= Len(c)
  <2>1. Len(c) \in Nat
    BY SeqFacts
  <2> QED BY <1>4, <2>1
<1> QED BY <1>4, <1>9, <1>10

(* What follows whole messages of a sender begins with its next message.    *)
LEMMA HeadFromCells ==
  ASSUME NEW s \in Senders, plan[s] \in Seq({1, 2}), NEW f \in Seq(Cell), NEW b \in Seq(Cell), b # <<>>,
         NEW m \in Nat, Len(f) = 3 * m, NEW r, r = f \o b, Len(r) <= Len(Udp!Cells(s)),
         \A j \in 1 .. Len(r) : r[j] = Udp!Cells(s)[j]
  PROVE  m + 1 \in 1 .. Len(plan[s]) /\ HeadRight(b, plan[s][m + 1])
<1>1. /\ Len(b) \in Nat /\ Len(b) # 0 /\ Len(plan[s]) \in Nat
  BY SeqFacts
<1>2. Len(r) = 3 * m + Len(b) /\ \A j \in 1 .. Len(b) : r[3 * m + j] = b[j]
  <2>1. Len(r) = Len(f) + Len(b)
        /\ \A j \in 1 .. Len(f) + Len(b) : r[j] = IF j <= Len(f) THEN f[j] ELSE b[j - Len(f)]
    BY ConcatProperties
  <2>2. \A j \in 1 .. Len(b) : /\ 3 * m + j \in 1 .. Len(f) + Len(b) /\ ~(3 * m + j <= Len(f))
                              /\ (3 * m + j) - Len(f) = j
    BY <1>1
  <2> QED BY <2>1, <2>2
<1>3. /\ Len(Udp!Cells(s)) = 3 * Len(plan[s])
      /\ \A t \in 0 .. Len(plan[s]) - 1 : MessageAt(Udp!Cells(s), 3 * t, plan[s][t + 1])
  BY CellsAre
<1>4. m \in 0 .. Len(plan[s]) - 1 /\ m + 1 \in 1 .. Len(plan[s])
  BY <1>1, <1>2, <1>3
<1>5. MessageAt(Udp!Cells(s), 3 * m, plan[s][m + 1])
  BY <1>3, <1>4
<1>6. \A j \in 1 .. Len(b) : b[j] = Udp!Cells(s)[3 * m + j]
  <2>1. \A j \in 1 .. Len(b) : 3 * m + j \in 1 .. Len(r)
    BY <1>1, <1>2
  <2> QED BY <1>2, <2>1
<1>7. /\ 1 \in 1 .. Len(b) /\ (Len(b) >= 2 => 2 \in 1 .. Len(b)) /\ (Len(b) >= 3 => 3 \in 1 .. Len(b))
  BY <1>1
<1> QED BY <1>4, <1>5, <1>6, <1>7 DEF HeadRight, MessageAt

LEMMA MessagesHead ==
  ASSUME NEW b \in Seq(Cell), NEW v, Messages(b, v)
  PROVE  HeadRight(b, v) /\ Len(b) >= 3
<1>1. PICK m \in Nat \ {0} : Len(b) = 3 * m /\ \A t \in 0 .. m - 1 : MessageAt(b, 3 * t, v)
  BY DEF Messages
<1>2. 0 \in 0 .. m - 1 /\ 3 * 0 = 0 /\ 0 + 1 = 1 /\ 0 + 2 = 2 /\ 0 + 3 = 3
  BY <1>1
<1>3. MessageAt(b, 0, v)
  BY <1>1, <1>2
<1>4. Len(b) >= 3 /\ b # <<>>
  <2>1. Len(b) # 0
    BY <1>1
  <2> QED BY <1>1, <2>1, SeqFacts
<1> QED BY <1>2, <1>3, <1>4 DEF HeadRight, MessageAt

(* Behind the first of whole messages there are only whole messages.        *)
LEMMA MessagesRest ==
  ASSUME NEW b \in Seq(Cell), NEW v, Messages(b, v), NEW r \in Seq(Cell), r # <<>>, Len(r) = Len(b) - 3,
         \A j \in 1 .. Len(r) : r[j] = b[3 + j]
  PROVE  Messages(r, v)
<1>1. PICK m \in Nat \ {0} : Len(b) = 3 * m /\ \A t \in 0 .. m - 1 : MessageAt(b, 3 * t, v)
  BY DEF Messages
<1>2. m - 1 \in Nat \ {0} /\ Len(r) = 3 * (m - 1)
  <2>1. Len(r) \in Nat /\ Len(r) # 0
    BY SeqFacts
  <2> QED BY <1>1, <2>1
<1>3. ASSUME NEW t \in 0 .. (m - 1) - 1 PROVE MessageAt(r, 3 * t, v)
  <2>1. /\ t + 1 \in 0 .. m - 1
        /\ 3 * t + 1 \in 1 .. Len(r) /\ 3 * t + 2 \in 1 .. Len(r) /\ 3 * t + 3 \in 1 .. Len(r)
        /\ 3 + (3 * t + 1) = 3 * (t + 1) + 1 /\ 3 + (3 * t + 2) = 3 * (t + 1) + 2
        /\ 3 + (3 * t + 3) = 3 * (t + 1) + 3
    BY <1>1, <1>2
  <2>2. MessageAt(b, 3 * (t + 1), v)
    BY <1>1, <2>1
  <2>3. /\ r[3 * t + 1] = b[3 * (t + 1) + 1] /\ r[3 * t + 2] = b[3 * (t + 1) + 2]
        /\ r[3 * t + 3] = b[3 * (t + 1) + 3]
    BY <2>1
  <2> QED BY <2>2, <2>3 DEF MessageAt
<1> QED BY <1>2, <1>3 DEF Messages

(* The beginning of a sequence and the rest of it. *)
LEMMA CutFacts ==
  ASSUME NEW E, NEW q \in Seq(E), NEW n \in 0 .. Len(q)
  PROVE  LET x == SubSeq(q, 1, n)
             y == SubSeq(q, n + 1, Len(q)) IN
         /\ x \in Seq(E) /\ Len(x) = n /\ \A j \in 1 .. n : x[j] = q[j]
         /\ y \in Seq(E) /\ Len(y) = Len(q) - n /\ \A j \in 1 .. Len(y) : y[j] = q[n + j]
         /\ x \o y = q
<1> DEFINE x == SubSeq(q, 1, n)
           y == SubSeq(q, n + 1, Len(q))
<1>1. Len(q) \in Nat /\ \A j \in 1 .. Len(q) : q[j] \in E
  BY SeqFacts
<1>2. x \in Seq(E) /\ Len(x) = n /\ \A j \in 1 .. n : x[j] = q[j]
  <2>1. \A j \in 1 .. n : q[j] \in E
    BY <1>1
  <2>2. 1 \in Int /\ n \in Int
    BY <1>1
  <2>3. /\ x \in Seq(E) /\ Len(x) = IF 1 <= n THEN n - 1 + 1 ELSE 0
        /\ \A j \in 1 .. n - 1 + 1 : x[j] = q[1 + j - 1]
    BY <2>1, <2>2, SubSeqProperties
  <2> HIDE DEF x
  <2>4. n - 1 + 1 = n /\ \A j \in 1 .. n : 1 + j - 1 = j
    BY <1>1
  <2> QED BY <1>1, <2>3, <2>4
<1>3. /\ y \in Seq(E) /\ Len(y) = Len(q) - n /\ \A j \in 1 .. Len(q) - n : y[j] = q[n + j]
  <2>1. \A j \in n + 1 .. Len(q) : q[j] \in E
    BY <1>1
  <2>2. n + 1 \in Int /\ Len(q) \in Int
    BY <1>1
  <2>3. /\ y \in Seq(E) /\ Len(y) = IF n + 1 <= Len(q) THEN Len(q) - (n + 1) + 1 ELSE 0
        /\ \A j \in 1 .. Len(q) - (n + 1) + 1 : y[j] = q[n + 1 + j - 1]
    BY <2>1, <2>2, SubSeqProperties
  <2> HIDE DEF y
  <2>4. Len(q) - (n + 1) + 1 = Len(q) - n
    BY <1>1
  <2>5. ASSUME NEW j \in 1 .. Len(q) - n PROVE y[j] = q[n + j]
    <3>1. n + 1 + j - 1 = n + j
      BY <1>1
    <3>2. y[j] = q[n + 1 + j - 1]
      BY <2>3, <2>4
    <3> QED BY <3>1, <3>2
  <2>6. Len(y) = Len(q) - n
    <3>1. Len(y) = IF n + 1 <= Len(q) THEN Len(q) - (n + 1) + 1 ELSE 0
      BY <2>3
    <3>2. n <= Len(q) /\ n \in Nat
      BY <1>1
    <3> QED BY <1>1, <3>1, <3>2
  <2> QED BY <2>3, <2>5, <2>6
<1> HIDE DEF x, y
<1>4. /\ x \o y \in Seq(E) /\ Len(x \o y) = Len(q)
      /\ \A j \in 1 .. Len(q) : (x \o y)[j] = IF j <= n THEN x[j] ELSE y[j - n]
  <2>1. /\ x \o y \in Seq(E) /\ Len(x \o y) = Len(x) + Len(y)
        /\ \A j \in 1 .. Len(x) + Len(y) : (x \o y)[j] = IF j <= Len(x) THEN x[j] ELSE y[j - Len(x)]
    BY <1>2, <1>3, ConcatProperties
  <2>2. Len(x) + Len(y) = Len(q)
    BY <1>1, <1>2, <1>3
  <2> QED BY <1>2, <2>1, <2>2
<1>5. \A j \in 1 .. Len(q) : (x \o y)[j] = q[j]
  <2> SUFFICES ASSUME NEW j \in 1 .. Len(q) PROVE (x \o y)[j] = q[j]
    OBVIOUS
  <2>1. CASE j <= n
    <3>1. j \in 1 .. n
      BY <1>1, <2>1
    <3> QED BY <1>2, <1>4, <2>1, <3>1
  <2>2. CASE ~(j <= n)
    <3>1. j - n \in 1 .. Len(q) - n /\ n + (j - n) = j
      BY <1>1, <2>2
    <3> QED BY <1>3, <1>4, <2>2, <3>1
  <2> QED BY <2>1, <2>2
<1>6. x \o y = q
  <2>1. (x \o y) \in Seq(E) /\ Len(x \o y) = Len(q)
    BY <1>4
  <2>2. \A j \in 1 .. Len(x \o y) : (x \o y)[j] = q[j]
    BY <1>4, <1>5
  <2> QED BY <2>1, <2>2, SeqEqual
<1> QED BY <1>2, <1>3, <1>6 DEF x, y

-----------------------------------------------------------------------------

LEMMA SenderTypes ==
  ASSUME UdpTypes, NEW s \in Senders
  PROVE  /\ plan[s] \in Seq({1, 2}) /\ sent[s] \in Nat /\ sent[s] <= Len(Udp!Cells(s))
         /\ net[s] \in Seq(Seq(Cell)) /\ source_buffer[s] \in Seq(Cell) /\ received[s] \in Seq(Cell)
         /\ started[s] \in Seq(Seq(Cell)) /\ disturbed[s] \in BOOLEAN
         /\ \A j \in 1 .. Len(net[s]) : net[s][j] \in Seq(Cell) /\ net[s][j] # <<>>
         /\ Udp!Cells(s) \in Seq(Cell) /\ Len(Udp!Cells(s)) = 3 * Len(plan[s])
         /\ \A t \in 0 .. Len(plan[s]) - 1 : MessageAt(Udp!Cells(s), 3 * t, plan[s][t + 1])
<1>1. /\ plan[s] \in Seq({1, 2}) /\ sent[s] \in Nat /\ sent[s] <= Len(Udp!Cells(s))
      /\ net[s] \in Seq(Seq(Cell)) /\ source_buffer[s] \in Seq(Cell) /\ received[s] \in Seq(Cell)
      /\ started[s] \in Seq(Seq(Cell)) /\ disturbed[s] \in BOOLEAN
      /\ \A j \in 1 .. Len(net[s]) : net[s][j] # <<>>
  BY DEF UdpTypes
<1>2. \A j \in 1 .. Len(net[s]) : net[s][j] \in Seq(Cell)
  BY <1>1, SeqFacts
<1> QED BY <1>1, <1>2, CellsAre

(* What no step changes. *)
Chosen == UNCHANGED <<plan, style>>

LEMMA ChosenStays ==
  ASSUME Chosen, NEW s
  PROVE  /\ Udp!Cells(s)' = Udp!Cells(s) /\ plan'[s] = plan[s] /\ style'[s] = style[s]
         /\ Udp!InStep(s)' => Udp!InStep(s) \/ (disturbed[s] /\ ~disturbed'[s])
         /\ disturbed'[s] = disturbed[s] => (Udp!InStep(s)' <=> Udp!InStep(s))
<1>1. plan' = plan /\ style' = style
  BY DEF Chosen
<1>2. Udp!Cells(s)' = Udp!Cells(s)
  BY <1>1 DEF Udp!Cells
<1>3. Udp!OneVersion(s)' <=> Udp!OneVersion(s)
  BY <1>1 DEF Udp!OneVersion
<1> QED BY <1>1, <1>2, <1>3 DEF Udp!InStep

(* A sender the step is not about. *)
LEMMA OtherStays ==
  ASSUME NEW s, SenderRight(s), Chosen,
         sent'[s] = sent[s], net'[s] = net[s], source_buffer'[s] = source_buffer[s],
         received'[s] = received[s], started'[s] = started[s], disturbed'[s] = disturbed[s],
         Busy(s)' => at' = at, Busy(s)' <=> Busy(s)
  PROVE  SenderRight(s)'
<1>1. /\ Udp!Cells(s)' = Udp!Cells(s) /\ plan'[s] = plan[s] /\ style'[s] = style[s]
      /\ Udp!InStep(s)' <=> Udp!InStep(s)
  BY ChosenStays
<1>2. WholeRight(s)'
  BY <1>1 DEF SenderRight, WholeRight
<1>3. CutRight(s)'
  BY <1>1 DEF SenderRight, CutRight
<1>4. ServedRight(s)'
  BY <1>1 DEF SenderRight, ServedRight
<1> QED BY <1>2, <1>3, <1>4 DEF SenderRight

LEMMA DownStays ==
  ASSUME Udp!DownOnlyOutOfStep, Chosen, up' = up, \A s \in Senders : disturbed[s] => disturbed'[s]
  PROVE  Udp!DownOnlyOutOfStep'
<1>1. \A s \in Senders : Udp!InStep(s)' => Udp!InStep(s)
  BY ChosenStays
<1> QED BY <1>1 DEF Udp!DownOnlyOutOfStep

(* A datagram that follows what was sent, of whole messages of one version  *)
(* or of any cells.                                                         *)
LEMMA SendStep ==
  ASSUME UdpInv, NEW s \in Senders, NEW n \in 1 .. Len(Udp!Cells(s)), Udp!SendDatagram(s, n)
  PROVE  UdpInv'
<1> DEFINE d == SubSeq(Udp!Cells(s), sent[s] + 1, sent[s] + n)
<1>1. /\ sent[s] + n <= Len(Udp!Cells(s))
      /\ style[s] = "whole" => n % 3 = 0 /\ \A j \in 1 .. n : d[j].ver = d[1].ver
      /\ net' = [net EXCEPT ![s] = Append(net[s], d)]
      /\ sent' = [sent EXCEPT ![s] = sent[s] + n]
      /\ UNCHANGED <<plan, style, faults, disturbed, source_buffer, received, at, started, running, up>>
  BY DEF Udp!SendDatagram, Udp!MessageLen
<1>2. UdpTypes /\ SenderRight(s)
  BY DEF UdpInv
<1>3. /\ sent[s] \in Nat /\ n \in Nat \ {0} /\ Len(plan[s]) \in Nat
      /\ net[s] \in Seq(Seq(Cell)) /\ Udp!Cells(s) \in Seq(Cell)
      /\ Len(Udp!Cells(s)) = 3 * Len(plan[s])
      /\ \A t \in 0 .. Len(plan[s]) - 1 : MessageAt(Udp!Cells(s), 3 * t, plan[s][t + 1])
  BY <1>2, SenderTypes, SeqFacts
<1>4. d \in Seq(Cell) /\ Len(d) = n /\ \A j \in 1 .. n : d[j] = Udp!Cells(s)[sent[s] + j]
  <2> DEFINE c == Udp!Cells(s)
  <2>1. \A j \in sent[s] + 1 .. sent[s] + n : j \in 1 .. Len(c)
    BY <1>1, <1>3
  <2>2. \A j \in sent[s] + 1 .. sent[s] + n : c[j] \in Cell
    BY <1>3, <2>1, SeqFacts
  <2>3. sent[s] + 1 \in Int /\ sent[s] + n \in Int /\ sent[s] + 1 <= sent[s] + n
    BY <1>3
  <2>4. /\ d \in Seq(Cell)
        /\ Len(d) = IF sent[s] + 1 <= sent[s] + n THEN (sent[s] + n) - (sent[s] + 1) + 1 ELSE 0
        /\ \A j \in 1 .. (sent[s] + n) - (sent[s] + 1) + 1 : d[j] = c[sent[s] + 1 + j - 1]
    BY <2>2, <2>3, SubSeqProperties
  <2> HIDE DEF d, c
  <2>5. (sent[s] + n) - (sent[s] + 1) + 1 = n
    BY <1>3
  <2>6. ASSUME NEW j \in 1 .. n PROVE d[j] = c[sent[s] + j]
    <3>1. sent[s] + 1 + j - 1 = sent[s] + j
      BY <1>3
    <3>2. d[j] = c[sent[s] + 1 + j - 1]
      BY <2>4, <2>5
    <3> QED BY <3>1, <3>2
  <2> QED BY <2>3, <2>4, <2>5, <2>6 DEF c
<1> HIDE DEF d
<1>5. PICK q : q = Append(net[s], d)
  OBVIOUS
<1>6. PICK l \in Nat : l = Len(net[s])
  BY <1>3, SeqFacts
<1>7. /\ q \in Seq(Seq(Cell)) /\ Len(q) = l + 1 /\ q[l + 1] = d
      /\ \A j \in 1 .. l : q[j] = net[s][j]
  BY <1>3, <1>4, <1>5, <1>6, AppendProperties
<1>8. net' \in [Senders -> Seq(Seq(Cell))] /\ net'[s] = q /\ \A o \in Senders \ {s} : net'[o] = net[o]
  BY <1>1, <1>2, <1>5, <1>7 DEF UdpTypes
<1>9. /\ sent' \in [Senders -> Nat] /\ sent'[s] = sent[s] + n
      /\ \A o \in Senders \ {s} : sent'[o] = sent[o]
  <2>1. sent[s] + n \in Nat /\ sent \in [Senders -> Nat]
    BY <1>2, <1>3 DEF UdpTypes
  <2>2. sent' = [sent EXCEPT ![s] = sent[s] + n]
    BY <1>1
  <2> QED BY <2>1, <2>2
<1>10. Chosen /\ (\A o : Udp!Cells(o)' = Udp!Cells(o)) /\ \A o : Busy(o)' <=> Busy(o)
  <2>1. Chosen
    BY <1>1 DEF Chosen
  <2> QED BY <1>1, <2>1, ChosenStays DEF Busy
<1>11. d # <<>>
  BY <1>3, <1>4, SeqFacts
<1>12. UdpTypes'
  <2>1. \A j \in 1 .. Len(q) : q[j] # <<>>
    <3>1. \A j \in 1 .. Len(q) : j = l + 1 \/ j \in 1 .. l
      BY <1>6, <1>7
    <3> QED BY <1>2, <1>6, <1>7, <1>11, <3>1 DEF UdpTypes
  <2>2. \A o \in Senders : \A j \in 1 .. Len(net'[o]) : net'[o][j] # <<>>
    <3>1. ASSUME NEW o \in Senders, o # s PROVE \A j \in 1 .. Len(net'[o]) : net'[o][j] # <<>>
      BY <1>2, <1>8, <3>1 DEF UdpTypes
    <3> QED BY <1>8, <2>1, <3>1
  <2>3. \A o \in Senders : sent'[o] <= Len(Udp!Cells(o)')
    <3>1. ASSUME NEW o \in Senders, o # s PROVE sent'[o] <= Len(Udp!Cells(o)')
      BY <1>2, <1>9, <1>10, <3>1 DEF UdpTypes
    <3>2. sent'[s] <= Len(Udp!Cells(s)')
      BY <1>1, <1>9, <1>10
    <3> QED BY <3>1, <3>2
  <2> QED BY <1>1, <1>2, <1>8, <1>9, <2>2, <2>3 DEF UdpTypes
<1>13. ASSUME NEW o \in Senders, o # s PROVE SenderRight(o)'
  <2>1. SenderRight(o) /\ sent'[o] = sent[o] /\ net'[o] = net[o]
    BY <1>8, <1>9, <1>13 DEF UdpInv
  <2> QED BY <1>1, <1>10, <2>1, OtherStays
<1>14. WholeRight(s)'
  <2> SUFFICES ASSUME style[s] = "whole" PROVE WholeRight(s)'
    BY <1>1 DEF WholeRight
  <2>1. PICK a \in Nat : sent[s] = 3 * a
    BY <1>2 DEF SenderRight, WholeRight
  <2>2. PICK b \in Nat \ {0} : n = 3 * b
    <3>1. n % 3 = 0
      BY <1>1
    <3>2. n = 3 * (n \div 3) /\ n \div 3 \in Nat \ {0}
      BY <1>3, <3>1
    <3> QED BY <3>2
  <2>3. PICK v : v = d[1].ver
    OBVIOUS
  <2>4. ASSUME NEW t \in 0 .. b - 1 PROVE MessageAt(d, 3 * t, v)
    <3>1. /\ 3 * t + 1 \in 1 .. n /\ 3 * t + 2 \in 1 .. n /\ 3 * t + 3 \in 1 .. n
          /\ sent[s] + (3 * t + 1) = 3 * (a + t) + 1 /\ sent[s] + (3 * t + 2) = 3 * (a + t) + 2
          /\ sent[s] + (3 * t + 3) = 3 * (a + t) + 3
          /\ a + t \in 0 .. Len(plan[s]) - 1
      BY <1>1, <1>3, <2>1, <2>2
    <3>2. MessageAt(Udp!Cells(s), 3 * (a + t), plan[s][(a + t) + 1])
      BY <1>3, <3>1
    <3>3. /\ d[3 * t + 1] = Udp!Cells(s)[3 * (a + t) + 1] /\ d[3 * t + 2] = Udp!Cells(s)[3 * (a + t) + 2]
          /\ d[3 * t + 3] = Udp!Cells(s)[3 * (a + t) + 3]
      BY <1>4, <3>1
    <3>4. d[3 * t + 1].ver = v
      BY <1>1, <2>3, <3>1
    <3> QED BY <3>2, <3>3, <3>4 DEF MessageAt
  <2>5. Messages(d, v)
    BY <1>4, <2>2, <2>4 DEF Messages
  <2>6. v \in {1, 2}
    <3>1. 1 \in 1 .. n
      BY <1>3
    <3>2. d[1] \in Cell
      BY <1>4, <3>1, SeqFacts
    <3> QED BY <2>3, <3>2 DEF Cell
  <2>7. \A j \in 1 .. Len(q) : \E w \in {1, 2} : Messages(q[j], w)
    <3>1. \A j \in 1 .. Len(q) : j = l + 1 \/ j \in 1 .. l
      BY <1>6, <1>7
    <3>2. \A j \in 1 .. l : \E w \in {1, 2} : Messages(net[s][j], w)
      BY <1>2, <1>6 DEF SenderRight, WholeRight
    <3> QED BY <1>7, <2>5, <2>6, <3>1, <3>2
  <2>8. a + b \in Nat /\ sent'[s] = 3 * (a + b)
    BY <1>9, <2>1, <2>2
  <2>9. /\ Busy(s)' => Messages(source_buffer'[s], at'.ver)
        /\ ~Busy(s)' => source_buffer'[s] = <<>>
    BY <1>1, <1>2, <1>10 DEF SenderRight, WholeRight
  <2> QED BY <1>8, <2>7, <2>8, <2>9 DEF WholeRight
<1>15. CutRight(s)'
  <2> SUFFICES ASSUME style[s] # "whole", Udp!InStep(s) PROVE CutRight(s)'
    <3>1. disturbed'[s] = disturbed[s] /\ style'[s] = style[s]
      BY <1>1
    <3> QED BY <1>10, <3>1, ChosenStays DEF CutRight
  <2>1. /\ InOrder(net[s], Udp!Cells(s), Len(received[s]), sent[s])
        /\ \A j \in 1 .. Len(received[s]) : received[s][j] = Udp!Cells(s)[j]
        /\ Busy(s) => HeadRight(source_buffer[s], at.ver)
    BY <1>2 DEF SenderRight, CutRight
  <2>2. InOrder(q, Udp!Cells(s), Len(received[s]), sent[s] + n)
    BY <1>1, <1>3, <1>4, <1>5, <2>1, InOrderMore
  <2> QED BY <1>1, <1>8, <1>9, <1>10, <2>1, <2>2 DEF CutRight
<1>16. ServedRight(s)'
  <2>1. disturbed'[s] = disturbed[s]
    BY <1>1
  <2> QED BY <1>1, <1>2, <1>10, <2>1, ChosenStays DEF SenderRight, ServedRight
<1>17. Udp!DownOnlyOutOfStep'
  BY <1>1, <1>10, DownStays DEF UdpInv
<1> QED BY <1>12, <1>13, <1>14, <1>15, <1>16, <1>17 DEF UdpInv, SenderRight

(* A lost or repeated datagram: a sender of whole datagrams stays in step,  *)
(* another one is not any more.                                             *)
LEMMA FaultStep ==
  ASSUME UdpInv, NEW s \in Senders, NEW p \in DOMAIN net[s], Udp!Lose(s, p) \/ Udp!Duplicate(s, p)
  PROVE  UdpInv'
<1>1. UdpTypes /\ SenderRight(s) /\ net[s] \in Seq(Seq(Cell)) /\ p \in 1 .. Len(net[s])
  <2>1. net[s] \in Seq(Seq(Cell))
    BY SenderTypes DEF UdpInv
  <2> QED BY <2>1, SeqFacts DEF UdpInv
<1>2. PICK q : /\ q \in {Udp!RemoveAt(net[s], p), Append(net[s], net[s][p])}
               /\ net' = [net EXCEPT ![s] = q]
  BY DEF Udp!Lose, Udp!Duplicate
<1>3. /\ faults < MaxFaults /\ faults' = faults + 1
      /\ disturbed' = [disturbed EXCEPT ![s] = TRUE]
      /\ UNCHANGED <<plan, style, sent, source_buffer, received, at, started, running, up>>
  BY DEF Udp!Lose, Udp!Duplicate, Udp!Fault, Udp!clients
<1>4. /\ q \in Seq(Seq(Cell))
      /\ \A j \in 1 .. Len(q) : \E o \in 1 .. Len(net[s]) : q[j] = net[s][o]
  <2>1. CASE q = Udp!RemoveAt(net[s], p)
    <3> DEFINE E == Seq(Cell)
               w == net[s]
    <3>1. w \in Seq(E) /\ p \in 1 .. Len(w)
      BY <1>1
    <3> HIDE DEF E, w
    <3>2. /\ Udp!RemoveAt(w, p) \in Seq(E)
          /\ \A j \in 1 .. Len(Udp!RemoveAt(w, p)) :
               \E o \in 1 .. Len(w) : Udp!RemoveAt(w, p)[j] = w[o]
      BY <3>1, RemoveAtFacts
    <3> QED BY <2>1, <3>2 DEF E, w
  <2>2. CASE q = Append(net[s], net[s][p])
    <3>1. net[s][p] \in Seq(Cell)
      BY <1>1, SeqFacts
    <3>2. PICK l \in Nat : l = Len(net[s])
      BY <1>1, SeqFacts
    <3>3. /\ q \in Seq(Seq(Cell)) /\ Len(q) = l + 1 /\ q[l + 1] = net[s][p]
          /\ \A j \in 1 .. l : q[j] = net[s][j]
      BY <1>1, <2>2, <3>1, <3>2, AppendProperties
    <3>4. \A j \in 1 .. Len(q) : j = l + 1 \/ j \in 1 .. l
      BY <3>2, <3>3
    <3> QED BY <1>1, <3>2, <3>3, <3>4
  <2> QED BY <1>2, <2>1, <2>2
<1>5. net' \in [Senders -> Seq(Seq(Cell))] /\ net'[s] = q /\ \A o \in Senders \ {s} : net'[o] = net[o]
  BY <1>1, <1>2, <1>4 DEF UdpTypes
<1>6. /\ disturbed' \in [Senders -> BOOLEAN] /\ disturbed'[s] = TRUE
      /\ \A o \in Senders \ {s} : disturbed'[o] = disturbed[o]
  BY <1>1, <1>3 DEF UdpTypes
<1>7. Chosen /\ (\A o : Udp!Cells(o)' = Udp!Cells(o)) /\ \A o : Busy(o)' <=> Busy(o)
  <2>1. Chosen
    BY <1>3 DEF Chosen
  <2> QED BY <1>3, <2>1, ChosenStays DEF Busy
<1>8. faults' \in 0 .. MaxFaults
  BY <1>1, <1>3, UdpConstants DEF UdpTypes
<1>9. UdpTypes'
  <2>1. ASSUME NEW o \in Senders PROVE \A j \in 1 .. Len(net'[o]) : net'[o][j] # <<>>
    <3>1. CASE o = s
      <4>1. \A j \in 1 .. Len(net[s]) : net[s][j] # <<>>
        BY <1>1 DEF UdpTypes
      <4> QED BY <1>4, <1>5, <3>1, <4>1
    <3>2. CASE o # s
      <4>1. \A j \in 1 .. Len(net[o]) : net[o][j] # <<>>
        BY <1>1 DEF UdpTypes
      <4> QED BY <1>5, <3>2, <4>1
    <3> QED BY <3>1, <3>2
  <2>2. \A o \in Senders : sent'[o] <= Len(Udp!Cells(o)')
    BY <1>1, <1>3, <1>7 DEF UdpTypes
  <2> QED BY <1>1, <1>3, <1>5, <1>6, <1>8, <2>1, <2>2 DEF UdpTypes
<1>10. ASSUME NEW o \in Senders, o # s PROVE SenderRight(o)'
  <2>1. SenderRight(o) /\ net'[o] = net[o] /\ disturbed'[o] = disturbed[o]
    BY <1>5, <1>6, <1>10 DEF UdpInv
  <2> QED BY <1>3, <1>7, <2>1, OtherStays
<1>11. WholeRight(s)'
  <2> SUFFICES ASSUME style[s] = "whole" PROVE WholeRight(s)'
    BY <1>3 DEF WholeRight
  <2>1. \A j \in 1 .. Len(q) : \E v \in {1, 2} : Messages(q[j], v)
    BY <1>1, <1>4 DEF SenderRight, WholeRight
  <2> QED BY <1>1, <1>3, <1>5, <1>7, <2>1 DEF SenderRight, WholeRight
<1>12. CutRight(s)' /\ ServedRight(s)'
  <2>1. style'[s] # "whole" => ~Udp!InStep(s)'
    BY <1>6 DEF Udp!InStep
  <2>2. style'[s] = "whole" => Udp!InStep(s)
    BY <1>3 DEF Udp!InStep
  <2> QED BY <1>1, <1>3, <2>1, <2>2 DEF SenderRight, CutRight, ServedRight
<1>13. Udp!DownOnlyOutOfStep'
  <2>1. \A o \in Senders : disturbed[o] => disturbed'[o]
    BY <1>6
  <2> QED BY <1>3, <1>7, <2>1, DownStays DEF UdpInv
<1> QED BY <1>9, <1>10, <1>11, <1>12, <1>13 DEF UdpInv, SenderRight

(* A datagram is put behind what has gathered, and the version is told from *)
(* the first byte of all that.                                              *)
LEMMA ReceiveStep ==
  ASSUME UdpInv, NEW s \in Senders, NEW p \in DOMAIN net[s], Udp!ReceiveDatagram(s, p)
  PROVE  UdpInv'
<1>1. /\ UdpTypes /\ SenderRight(s) /\ net[s] \in Seq(Seq(Cell)) /\ p \in 1 .. Len(net[s])
      /\ source_buffer[s] \in Seq(Cell) /\ received[s] \in Seq(Cell)
  <2>1. net[s] \in Seq(Seq(Cell)) /\ source_buffer[s] \in Seq(Cell) /\ received[s] \in Seq(Cell)
    BY SenderTypes DEF UdpInv
  <2> QED BY <2>1, SeqFacts DEF UdpInv
<1>2. PICK d : d = net[s][p]
  OBVIOUS
<1>3. PICK q : q = Udp!RemoveAt(net[s], p)
  OBVIOUS
<1>4. PICK b : b = source_buffer[s] \o d
  OBVIOUS
<1>5. PICK r : r = received[s] \o d
  OBVIOUS
<1>6. /\ at = Udp!Listening
      /\ IF p = 1 THEN UNCHANGED <<faults, disturbed>>
         ELSE /\ faults < MaxFaults /\ faults' = faults + 1
              /\ disturbed' = [disturbed EXCEPT ![s] = TRUE]
      /\ net' = [net EXCEPT ![s] = q]
      /\ received' = [received EXCEPT ![s] = r]
      /\ source_buffer' = [source_buffer EXCEPT ![s] = b]
      /\ UNCHANGED <<plan, style, sent, started, running, up>>
  BY <1>2, <1>3, <1>4, <1>5 DEF Udp!ReceiveDatagram, Udp!Fault, Udp!clients
<1>7. d \in Seq(Cell) /\ d # <<>>
  BY <1>1, <1>2, SenderTypes
<1>8. /\ b \in Seq(Cell) /\ b # <<>> /\ r \in Seq(Cell)
      /\ q \in Seq(Seq(Cell)) /\ Len(q) = Len(net[s]) - 1
      /\ \A j \in 1 .. Len(q) : \E o \in 1 .. Len(net[s]) : q[j] = net[s][o]
      /\ p = 1 => \A j \in 1 .. Len(q) : q[j] = net[s][j + 1]
  <2>1. b \in Seq(Cell) /\ Len(b) = Len(source_buffer[s]) + Len(d) /\ r \in Seq(Cell)
    BY <1>1, <1>4, <1>5, <1>7, ConcatProperties
  <2>2. Len(source_buffer[s]) \in Nat /\ Len(d) \in Nat /\ Len(d) # 0
    BY <1>1, <1>7, SeqFacts
  <2>3. Len(b) # 0
    BY <2>1, <2>2
  <2>4. b # <<>>
    BY <2>1, <2>3, SeqFacts
  <2>5. LET x == Udp!RemoveAt(net[s], p) IN
        /\ x \in Seq(Seq(Cell)) /\ Len(x) = Len(net[s]) - 1
        /\ \A j \in 1 .. Len(x) : \E o \in 1 .. Len(net[s]) : x[j] = net[s][o]
        /\ p = 1 => \A j \in 1 .. Len(x) : x[j] = net[s][j + 1]
    BY <1>1, RemoveAtFacts
  <2> QED BY <1>3, <2>1, <2>4, <2>5
<1>9. /\ net' \in [Senders -> Seq(Seq(Cell))] /\ net'[s] = q
      /\ received' \in [Senders -> Seq(Cell)] /\ received'[s] = r
      /\ source_buffer' \in [Senders -> Seq(Cell)] /\ source_buffer'[s] = b
  BY <1>1, <1>6, <1>8 DEF UdpTypes
<1>10. \A o \in Senders \ {s} :
         net'[o] = net[o] /\ received'[o] = received[o] /\ source_buffer'[o] = source_buffer[o]
  BY <1>1, <1>6 DEF UdpTypes
<1>11. /\ disturbed' \in [Senders -> BOOLEAN] /\ faults' \in 0 .. MaxFaults
       /\ disturbed'[s] = disturbed[s] \/ disturbed'[s] = TRUE
       /\ ~disturbed'[s] => p = 1
       /\ \A o \in Senders \ {s} : disturbed'[o] = disturbed[o]
  <2>1. disturbed \in [Senders -> BOOLEAN] /\ faults \in 0 .. MaxFaults /\ MaxFaults \in Nat
    BY <1>1, UdpConstants DEF UdpTypes
  <2>2. CASE p = 1
    <3>1. faults' = faults /\ disturbed' = disturbed
      BY <1>6, <2>2
    <3> QED BY <2>1, <2>2, <3>1
  <2>3. CASE p # 1
    <3>1. faults < MaxFaults /\ faults' = faults + 1 /\ disturbed' = [disturbed EXCEPT ![s] = TRUE]
      BY <1>6, <2>3
    <3>2. faults' \in 0 .. MaxFaults
      BY <2>1, <3>1
    <3>3. /\ disturbed' \in [Senders -> BOOLEAN] /\ disturbed'[s] = TRUE
          /\ \A o \in Senders \ {s} : disturbed'[o] = disturbed[o]
      BY <2>1, <3>1
    <3> QED BY <3>2, <3>3
  <2> QED BY <2>2, <2>3
<1>12. PICK v \in Udp!Versions(b[1]) : at' = [s |-> s, ver |-> v]
  BY <1>9 DEF Udp!ReceiveDatagram
<1>13. b[1] \in Cell
  <2>1. Len(b) \in Nat /\ Len(b) # 0
    BY <1>8, SeqFacts
  <2>2. 1 \in 1 .. Len(b)
    BY <2>1
  <2> QED BY <1>8, <2>2, SeqFacts
<1>14. v \in {1, 2} /\ (b[1].k = 1 => v = b[1].ver)
  BY <1>12, <1>13 DEF Udp!Versions, Cell
<1>15. /\ at' # Udp!Listening /\ at'.s = s /\ at'.ver = v /\ at' \in [s : Senders, ver : {1, 2}]
       /\ Busy(s)' /\ \A o : ~Busy(o) /\ (o # s => ~Busy(o)')
  BY <1>6, <1>12, <1>14 DEF Udp!Listening, Busy
<1>16. Chosen /\ \A o : Udp!Cells(o)' = Udp!Cells(o)
  <2>1. Chosen
    BY <1>6 DEF Chosen
  <2> QED BY <2>1, ChosenStays
<1>17. UdpTypes'
  <2>1. ASSUME NEW o \in Senders PROVE \A j \in 1 .. Len(net'[o]) : net'[o][j] # <<>>
    <3>1. CASE o = s
      <4>1. \A j \in 1 .. Len(net[s]) : net[s][j] # <<>>
        BY <1>1 DEF UdpTypes
      <4> QED BY <1>8, <1>9, <3>1, <4>1
    <3>2. CASE o # s
      <4>1. \A j \in 1 .. Len(net[o]) : net[o][j] # <<>>
        BY <1>1 DEF UdpTypes
      <4> QED BY <1>10, <3>2, <4>1
    <3> QED BY <3>1, <3>2
  <2>2. \A o \in Senders : sent'[o] <= Len(Udp!Cells(o)')
    BY <1>1, <1>6, <1>16 DEF UdpTypes
  <2>3. source_buffer'[at'.s] # <<>>
    BY <1>8, <1>9, <1>15
  <2> QED BY <1>1, <1>6, <1>9, <1>11, <1>15, <2>1, <2>2, <2>3 DEF UdpTypes
<1>18. ASSUME NEW o \in Senders, o # s PROVE SenderRight(o)'
  <2>1. /\ SenderRight(o) /\ net'[o] = net[o] /\ disturbed'[o] = disturbed[o]
        /\ received'[o] = received[o] /\ source_buffer'[o] = source_buffer[o]
        /\ ~Busy(o)' /\ ~Busy(o)
    BY <1>10, <1>11, <1>15, <1>18 DEF UdpInv
  <2> QED BY <1>6, <1>16, <2>1, OtherStays
<1>19. WholeRight(s)'
  <2> SUFFICES ASSUME style[s] = "whole" PROVE WholeRight(s)'
    BY <1>6 DEF WholeRight
  <2>1. /\ source_buffer[s] = <<>> /\ \E a \in Nat : sent[s] = 3 * a
        /\ \A j \in 1 .. Len(net[s]) : \E w \in {1, 2} : Messages(net[s][j], w)
    BY <1>1, <1>15 DEF SenderRight, WholeRight
  <2>2. b = d
    BY <1>4, <1>7, <2>1, ConcatEmptySeq
  <2>3. PICK w \in {1, 2} : Messages(b, w)
    BY <1>1, <1>2, <2>1, <2>2
  <2>4. w = v
    BY <1>8, <1>14, <2>3, MessagesHead DEF HeadRight
  <2>5. \A j \in 1 .. Len(q) : \E u \in {1, 2} : Messages(q[j], u)
    BY <1>8, <2>1
  <2> QED BY <1>6, <1>9, <1>15, <2>1, <2>3, <2>4, <2>5 DEF WholeRight
<1>20. ServedRight(s)'
  <2> SUFFICES ASSUME Udp!InStep(s) PROVE ServedRight(s)'
    <3>1. Udp!InStep(s)' => Udp!InStep(s)
      BY <1>11, <1>16, ChosenStays
    <3> QED BY <3>1 DEF ServedRight
  <2>1. PICK f : f = Udp!FlattenSeq(started[s])
    OBVIOUS
  <2>2. /\ f \in Seq(Cell) /\ f \o source_buffer[s] = received[s]
        /\ Len(f) = 3 * Len(started[s])
        /\ \A j \in 1 .. Len(started[s]) : Udp!IsMessage(started[s][j])
    BY <1>1, <2>1 DEF SenderRight, ServedRight
  <2>3. f \o b = r
    <3>1. (f \o source_buffer[s]) \o d = f \o (source_buffer[s] \o d)
      BY <1>1, <1>7, <2>2, CellsAssociate
    <3> QED BY <1>4, <1>5, <2>2, <3>1
  <2> QED BY <1>6, <1>9, <2>1, <2>2, <2>3 DEF ServedRight
<1>21. CutRight(s)'
  <2> SUFFICES ASSUME style[s] # "whole", Udp!InStep(s)' PROVE CutRight(s)'
    BY <1>6 DEF CutRight
  <2>1. Udp!InStep(s) /\ p = 1
    <3>1. style'[s] # "whole"
      BY <1>6
    <3>2. ~disturbed'[s]
      BY <3>1 DEF Udp!InStep
    <3> QED BY <1>11, <1>16, <3>2, ChosenStays
  <2>2. /\ InOrder(net[s], Udp!Cells(s), Len(received[s]), sent[s])
        /\ \A j \in 1 .. Len(received[s]) : received[s][j] = Udp!Cells(s)[j]
    BY <1>1, <2>1 DEF SenderRight, CutRight
  <2>3. /\ Udp!Cells(s) \in Seq(Cell) /\ plan[s] \in Seq({1, 2}) /\ sent[s] \in Nat
        /\ Len(received[s]) \in Nat /\ Len(d) \in Nat /\ net[s] # <<>>
    <3>1. Len(net[s]) # 0
      BY <1>1, SeqFacts
    <3> QED BY <1>1, <1>7, <3>1, SenderTypes, SeqFacts
  <2>4. /\ InOrder(q, Udp!Cells(s), Len(received[s]) + Len(d), sent[s])
        /\ Len(received[s]) + Len(d) <= Len(Udp!Cells(s))
        /\ \A j \in 1 .. Len(d) : d[j] = Udp!Cells(s)[Len(received[s]) + j]
    <3>1. net[s][1] = d /\ \A j \in 1 .. Len(q) : q[j] = net[s][j + 1]
      BY <1>2, <1>8, <2>1
    <3>2. /\ InOrder(q, Udp!Cells(s), Len(received[s]) + Len(net[s][1]), sent[s])
          /\ Len(received[s]) + Len(net[s][1]) <= Len(Udp!Cells(s))
          /\ \A j \in 1 .. Len(net[s][1]) : net[s][1][j] = Udp!Cells(s)[Len(received[s]) + j]
      BY <1>1, <1>8, <2>2, <2>3, <3>1, InOrderFirst
    <3> QED BY <3>1, <3>2
  <2>5. /\ Len(r) = Len(received[s]) + Len(d)
        /\ \A j \in 1 .. Len(received[s]) + Len(d) :
             r[j] = IF j <= Len(received[s]) THEN received[s][j] ELSE d[j - Len(received[s])]
    BY <1>1, <1>5, <1>7, ConcatProperties
  <2>6. ASSUME NEW j \in 1 .. Len(r) PROVE r[j] = Udp!Cells(s)[j]
    <3>1. CASE j <= Len(received[s])
      <4>1. j \in 1 .. Len(received[s]) /\ j \in 1 .. Len(received[s]) + Len(d)
        BY <2>3, <2>5, <3>1
      <4> QED BY <2>2, <2>5, <3>1, <4>1
    <3>2. CASE ~(j <= Len(received[s]))
      <4>1. /\ j - Len(received[s]) \in 1 .. Len(d) /\ j \in 1 .. Len(received[s]) + Len(d)
            /\ Len(received[s]) + (j - Len(received[s])) = j
        BY <2>3, <2>5, <3>2
      <4> QED BY <2>4, <2>5, <3>2, <4>1
    <3> QED BY <3>1, <3>2
  <2>7. HeadRight(b, v)
    <3>1. PICK f : f = Udp!FlattenSeq(started[s])
      OBVIOUS
    <3>2. PICK m \in Nat : m = Len(started[s])
      <4>1. started[s] \in Seq(Seq(Cell))
        BY <1>1, SenderTypes
      <4> QED BY <4>1, SeqFacts
    <3>3. f \in Seq(Cell) /\ Len(f) = 3 * m /\ f \o source_buffer[s] = received[s]
      BY <1>1, <2>1, <3>1, <3>2 DEF SenderRight, ServedRight
    <3>4. f \o b = r
      <4>1. (f \o source_buffer[s]) \o d = f \o (source_buffer[s] \o d)
        BY <1>1, <1>7, <3>3, CellsAssociate
      <4> QED BY <1>4, <1>5, <3>3, <4>1
    <3>5. Len(r) <= Len(Udp!Cells(s))
      BY <2>4, <2>5
    <3>6. HeadRight(b, plan[s][m + 1])
      BY <1>8, <2>3, <2>6, <3>2, <3>3, <3>4, <3>5, HeadFromCells
    <3> QED BY <1>14, <3>6 DEF HeadRight
  <2> QED BY <1>6, <1>9, <1>15, <1>16, <2>4, <2>5, <2>6, <2>7 DEF CutRight
<1>22. Udp!DownOnlyOutOfStep'
  <2>1. \A o \in Senders : disturbed[o] => disturbed'[o]
    BY <1>11
  <2> QED BY <1>6, <1>16, <2>1, DownStays DEF UdpInv
<1> QED BY <1>17, <1>18, <1>19, <1>20, <1>21, <1>22 DEF UdpInv, SenderRight

(* What a sequence of cells leaves when n of its cells move forward.        *)
Rest(b, n) == SubSeq(b, n + 1, Len(b))

(* A round that goes on: the message is handed over, the rest stays.        *)
LEMMA ForwardStep ==
  ASSUME UdpInv, NEW s \in Senders, at.s = s, at # Udp!Listening,
         NEW n \in 1 .. Len(source_buffer[s]), Udp!InStep(s) => n = 3,
         Udp!MoveForward(s, n),
         UNCHANGED <<plan, style, sent, net, faults, disturbed, received>>
  PROVE  UdpInv'
<1>1. /\ UdpTypes /\ SenderRight(s) /\ source_buffer[s] \in Seq(Cell)
      /\ received[s] \in Seq(Cell) /\ started[s] \in Seq(Seq(Cell)) /\ plan[s] \in Seq({1, 2})
      /\ Udp!Cells(s) \in Seq(Cell)
      /\ at.ver \in {1, 2} /\ Busy(s)
  BY SenderTypes DEF UdpInv, UdpTypes, Busy
<1>2. PICK b : b = source_buffer[s]
  OBVIOUS
<1>3. PICK x : x = SubSeq(b, 1, n)
  OBVIOUS
<1>4. PICK y : y = Rest(b, n)
  OBVIOUS
<1>5. PICK z : z = Append(started[s], x)
  OBVIOUS
<1>6. PICK l \in Nat : l = Len(started[s])
  BY <1>1, SeqFacts
<1>7. /\ started' = [started EXCEPT ![s] = z]
      /\ running' = running \cup {[s |-> s, n |-> l + 1, hops |-> 0]}
      /\ source_buffer' = [source_buffer EXCEPT ![s] = y]
      /\ at' = IF y = <<>> THEN Udp!Listening ELSE at
      /\ UNCHANGED <<plan, style, sent, net, faults, disturbed, received, up>>
  BY <1>2, <1>3, <1>4, <1>5, <1>6 DEF Udp!MoveForward, Rest
<1>8. /\ b \in Seq(Cell) /\ Len(b) \in Nat
      /\ x \in Seq(Cell) /\ Len(x) = n /\ \A j \in 1 .. n : x[j] = b[j]
      /\ y \in Seq(Cell) /\ Len(y) = Len(b) - n /\ \A j \in 1 .. Len(y) : y[j] = b[n + j]
      /\ x \o y = b
  <2>1. Len(b) \in Nat /\ n \in 0 .. Len(b)
    BY <1>1, <1>2, SeqFacts
  <2>2. LET u == SubSeq(b, 1, n)
            w == SubSeq(b, n + 1, Len(b)) IN
        /\ u \in Seq(Cell) /\ Len(u) = n /\ \A j \in 1 .. n : u[j] = b[j]
        /\ w \in Seq(Cell) /\ Len(w) = Len(b) - n /\ \A j \in 1 .. Len(w) : w[j] = b[n + j]
        /\ u \o w = b
    BY <1>1, <1>2, <2>1, CutFacts
  <2> QED BY <1>1, <1>2, <1>3, <1>4, <2>1, <2>2 DEF Rest
<1>9. /\ z \in Seq(Seq(Cell)) /\ Len(z) = l + 1 /\ z[l + 1] = x
      /\ \A j \in 1 .. l : z[j] = started[s][j]
  BY <1>1, <1>5, <1>6, <1>8, AppendProperties
<1>10. /\ started' \in [Senders -> Seq(Seq(Cell))] /\ started'[s] = z
       /\ source_buffer' \in [Senders -> Seq(Cell)] /\ source_buffer'[s] = y
  BY <1>1, <1>7, <1>8, <1>9 DEF UdpTypes
<1>11. \A o \in Senders \ {s} : started'[o] = started[o] /\ source_buffer'[o] = source_buffer[o]
  BY <1>1, <1>7 DEF UdpTypes
<1>12. running' \subseteq [s : Senders, n : Nat, hops : 0 .. MaxForwards]
  <2>1. [s |-> s, n |-> l + 1, hops |-> 0] \in [s : Senders, n : Nat, hops : 0 .. MaxForwards]
    BY <1>6, UdpConstants
  <2> QED BY <1>1, <1>7, <2>1 DEF UdpTypes
<1>13. Chosen /\ \A o : Udp!Cells(o)' = Udp!Cells(o) /\ (Udp!InStep(o)' <=> Udp!InStep(o))
  <2>1. Chosen
    BY <1>7 DEF Chosen
  <2> QED BY <1>7, <2>1, ChosenStays
<1>14. /\ Busy(s)' <=> y # <<>>
       /\ Busy(s)' => at' = at
       /\ \A o : o # s => ~Busy(o) /\ ~Busy(o)'
  BY <1>7 DEF Busy
<1>15. UdpTypes'
  <2>1. at' = Udp!Listening \/ (at' \in [s : Senders, ver : {1, 2}] /\ source_buffer'[at'.s] # <<>>)
    BY <1>1, <1>7, <1>10 DEF UdpTypes
  <2>2. \A o \in Senders : sent'[o] <= Len(Udp!Cells(o)')
    BY <1>1, <1>7, <1>13 DEF UdpTypes
  <2>3. /\ plan' = plan /\ style' = style /\ sent' = sent /\ net' = net /\ received' = received
        /\ faults' = faults /\ disturbed' = disturbed /\ up' = up
    BY <1>7
  <2> QED BY <1>1, <1>10, <1>12, <2>1, <2>2, <2>3 DEF UdpTypes
<1>16. ASSUME NEW o \in Senders, o # s PROVE SenderRight(o)'
  <2>1. /\ SenderRight(o) /\ ~Busy(o) /\ ~Busy(o)'
        /\ started'[o] = started[o] /\ source_buffer'[o] = source_buffer[o]
    BY <1>11, <1>14, <1>16 DEF UdpInv
  <2> QED BY <1>7, <1>13, <2>1, OtherStays
<1>17. WholeRight(s)'
  <2> SUFFICES ASSUME style[s] = "whole" PROVE WholeRight(s)'
    BY <1>7 DEF WholeRight
  <2>1. /\ \E a \in Nat : sent[s] = 3 * a
        /\ \A j \in 1 .. Len(net[s]) : \E v \in {1, 2} : Messages(net[s][j], v)
        /\ Messages(b, at.ver)
    BY <1>1, <1>2 DEF SenderRight, WholeRight
  <2>2. n = 3
    BY DEF Udp!InStep
  <2>3. y # <<>> => Messages(y, at.ver)
    <3>1. Len(y) = Len(b) - 3 /\ \A j \in 1 .. Len(y) : y[j] = b[3 + j]
      BY <1>8, <2>2
    <3> QED BY <1>8, <2>1, <3>1, MessagesRest
  <2> QED BY <1>7, <1>10, <1>14, <2>1, <2>3 DEF WholeRight
<1>18. ASSUME Udp!InStep(s) PROVE HeadRight(b, at.ver)
  <2>1. CASE style[s] = "whole"
    <3>1. Messages(b, at.ver)
      BY <1>1, <1>2, <2>1 DEF SenderRight, WholeRight
    <3> QED BY <1>8, <3>1, MessagesHead
  <2>2. CASE style[s] # "whole"
    BY <1>1, <1>2, <1>18, <2>2 DEF SenderRight, CutRight
  <2> QED BY <2>1, <2>2
<1>19. PICK f : f = Udp!FlattenSeq(started[s])
  OBVIOUS
<1>20. PICK e : e = Udp!FlattenSeq(z)
  OBVIOUS
<1>21. ASSUME Udp!InStep(s)
       PROVE  /\ n = 3 /\ f \in Seq(Cell) /\ Len(f) = 3 * l /\ f \o b = received[s]
              /\ e \in Seq(Cell) /\ Len(e) = 3 * (l + 1) /\ e \o y = received[s]
  <2>1. n = 3 /\ f \in Seq(Cell) /\ Len(f) = 3 * l /\ f \o b = received[s]
    BY <1>1, <1>2, <1>6, <1>19, <1>21 DEF SenderRight, ServedRight
  <2>2. e = f \o x
    BY <1>1, <1>5, <1>8, <1>19, <1>20, FlattenAppend
  <2>3. e \in Seq(Cell) /\ Len(e) = Len(f) + Len(x)
    BY <1>8, <2>1, <2>2, ConcatProperties
  <2>4. Len(e) = 3 * (l + 1)
    BY <1>6, <1>8, <2>1, <2>3
  <2>5. (f \o x) \o y = f \o (x \o y)
    BY <1>8, <2>1, CellsAssociate
  <2> QED BY <1>8, <2>1, <2>2, <2>3, <2>4, <2>5
<1>22. ServedRight(s)'
  <2> SUFFICES ASSUME Udp!InStep(s) PROVE ServedRight(s)'
    BY <1>13 DEF ServedRight
  <2>1. Udp!IsMessage(x)
    <3>1. n = 3 /\ HeadRight(b, at.ver) /\ Len(b) >= 3
      BY <1>2, <1>8, <1>18, <1>21
    <3>2. x[1] = b[1] /\ x[2] = b[2] /\ x[3] = b[3]
      BY <1>8, <3>1
    <3>3. b[1] \in Cell /\ b[1].k = 1
      <4>1. 1 \in 1 .. Len(b)
        BY <1>8, <3>1
      <4> QED BY <1>8, <3>1, <4>1, SeqFacts DEF HeadRight
    <3>4. x[1] = [x[1] EXCEPT !.k = 1]
      BY <3>2, <3>3 DEF Cell
    <3>5. x[2] = [x[1] EXCEPT !.k = 2] /\ x[3] = [x[1] EXCEPT !.k = 3]
      BY <1>8, <3>1, <3>2 DEF HeadRight
    <3>6. \A k \in 1 .. 3 : k = 1 \/ k = 2 \/ k = 3
      OBVIOUS
    <3>7. Len(x) = 3
      BY <1>8, <3>1
    <3> QED BY <3>4, <3>5, <3>6, <3>7 DEF Udp!IsMessage, Udp!MessageLen
  <2>2. \A j \in 1 .. Len(z) : Udp!IsMessage(z[j])
    <3>1. \A j \in 1 .. Len(z) : j = l + 1 \/ j \in 1 .. l
      BY <1>6, <1>9
    <3>2. \A j \in 1 .. l : Udp!IsMessage(started[s][j])
      BY <1>1, <1>6 DEF SenderRight, ServedRight
    <3> QED BY <1>9, <2>1, <3>1, <3>2
  <2> QED BY <1>7, <1>9, <1>10, <1>20, <1>21, <2>2 DEF ServedRight
<1>23. CutRight(s)'
  <2> SUFFICES ASSUME style[s] # "whole", Udp!InStep(s) PROVE CutRight(s)'
    BY <1>7, <1>13 DEF CutRight
  <2>1. /\ InOrder(net[s], Udp!Cells(s), Len(received[s]), sent[s])
        /\ \A j \in 1 .. Len(received[s]) : received[s][j] = Udp!Cells(s)[j]
    BY <1>1 DEF SenderRight, CutRight
  <2>2. Len(received[s]) <= Len(Udp!Cells(s))
    <3>1. Len(received[s]) \in 0 .. Len(Udp!Cells(s))
      <4>1. PICK g \in [1 .. Len(net[s]) + 1 -> 0 .. Len(Udp!Cells(s))] : g[1] = Len(received[s])
        BY <2>1 DEF InOrder
      <4>2. Len(net[s]) \in Nat
        BY <1>1, SenderTypes, SeqFacts
      <4>3. 1 \in 1 .. Len(net[s]) + 1
        BY <4>2
      <4> QED BY <4>1, <4>3
    <3>2. Len(Udp!Cells(s)) \in Nat
      BY <1>1, SeqFacts
    <3> QED BY <3>1, <3>2
  <2>3. b # <<>>
    BY <1>18 DEF HeadRight
  <2>4. l + 1 \in 1 .. Len(plan[s]) /\ HeadRight(b, plan[s][l + 1])
    <3>1. PICK r : r = received[s]
      OBVIOUS
    <3>2. f \in Seq(Cell) /\ Len(f) = 3 * l /\ r = f \o b
      BY <1>21, <3>1
    <3>3. Len(r) <= Len(Udp!Cells(s)) /\ \A j \in 1 .. Len(r) : r[j] = Udp!Cells(s)[j]
      BY <2>1, <2>2, <3>1
    <3>4. plan[s] \in Seq({1, 2}) /\ b \in Seq(Cell) /\ l \in Nat
      BY <1>1, <1>6, <1>8
    <3> QED BY <2>3, <3>2, <3>3, <3>4, HeadFromCells
  <2>5. ASSUME y # <<>> PROVE HeadRight(y, at.ver)
    <3>1. l + 1 \in Nat
      BY <1>6
    <3>2. (l + 1) + 1 \in 1 .. Len(plan[s]) /\ HeadRight(y, plan[s][(l + 1) + 1])
      BY <1>1, <1>8, <1>21, <2>1, <2>2, <2>5, <3>1, HeadFromCells
    <3>3. DOMAIN plan[s] = 1 .. Len(plan[s])
      BY <1>1, SeqFacts
    <3>4. plan[s][(l + 1) + 1] = plan[s][l + 1]
      BY <2>4, <3>2, <3>3 DEF Udp!InStep, Udp!OneVersion
    <3>5. at.ver = plan[s][l + 1]
      BY <1>18, <2>4 DEF HeadRight
    <3> QED BY <3>2, <3>4, <3>5
  <2> QED BY <1>7, <1>10, <1>13, <1>14, <2>1, <2>5 DEF CutRight
<1>24. Udp!DownOnlyOutOfStep'
  BY <1>7, <1>13, DownStays DEF UdpInv
<1> QED BY <1>15, <1>16, <1>17, <1>22, <1>23, <1>24 DEF UdpInv, SenderRight

(* A round that ends the loop: it waits for more, or drops what gathered,   *)
(* of a sender out of step.                                                 *)
LEMMA EndStep ==
  ASSUME UdpInv, NEW s \in Senders, at.s = s, at # Udp!Listening,
         NEW drop \in BOOLEAN, drop => ~Udp!InStep(s), style[s] = "whole" => drop,
         source_buffer' = [source_buffer EXCEPT ![s] = IF drop THEN <<>> ELSE source_buffer[s]],
         at' = Udp!Listening,
         UNCHANGED <<plan, style, sent, net, faults, disturbed, received, started, running, up>>
  PROVE  UdpInv'
<1>1. UdpTypes /\ SenderRight(s) /\ source_buffer[s] \in Seq(Cell)
  BY SenderTypes DEF UdpInv
<1>2. style[s] # "whole"
  BY DEF Udp!InStep
<1>3. Chosen /\ \A o : Udp!Cells(o)' = Udp!Cells(o) /\ (Udp!InStep(o)' <=> Udp!InStep(o))
  <2>1. Chosen
    BY DEF Chosen
  <2> QED BY <2>1, ChosenStays
<1>4. \A o : ~Busy(o)' /\ (o # s => ~Busy(o))
  BY DEF Busy
<1>5. /\ source_buffer' \in [Senders -> Seq(Cell)]
      /\ source_buffer'[s] = IF drop THEN <<>> ELSE source_buffer[s]
      /\ \A o \in Senders \ {s} : source_buffer'[o] = source_buffer[o]
  <2>1. (IF drop THEN <<>> ELSE source_buffer[s]) \in Seq(Cell)
    BY <1>1, EmptySeq
  <2> QED BY <1>1, <2>1 DEF UdpTypes
<1>6. UdpTypes'
  <2>1. \A o \in Senders : sent'[o] <= Len(Udp!Cells(o)')
    BY <1>1, <1>3 DEF UdpTypes
  <2>2. /\ plan' = plan /\ style' = style /\ sent' = sent /\ net' = net /\ received' = received
        /\ faults' = faults /\ disturbed' = disturbed /\ up' = up
        /\ started' = started /\ running' = running
    OBVIOUS
  <2>3. source_buffer' \in [Senders -> Seq(Cell)] /\ at' = Udp!Listening
    BY <1>5
  <2> QED BY <1>1, <2>1, <2>2, <2>3 DEF UdpTypes
<1>7. ASSUME NEW o \in Senders, o # s PROVE SenderRight(o)'
  <2>1. SenderRight(o) /\ ~Busy(o) /\ ~Busy(o)' /\ source_buffer'[o] = source_buffer[o]
    BY <1>4, <1>5, <1>7 DEF UdpInv
  <2> QED BY <1>3, <2>1, OtherStays
<1>8. WholeRight(s)'
  BY <1>2 DEF WholeRight
<1>9. CutRight(s)'
  BY <1>1, <1>3, <1>4 DEF SenderRight, CutRight
<1>10. ServedRight(s)'
  BY <1>1, <1>3, <1>5 DEF SenderRight, ServedRight
<1>11. Udp!DownOnlyOutOfStep'
  BY <1>3, DownStays DEF UdpInv
<1> QED BY <1>6, <1>7, <1>8, <1>9, <1>10, <1>11 DEF UdpInv, SenderRight

(* A round of the loop.  Of a sender in step a message begins what gathered *)
(* and is taken whole or waited for.                                        *)
LEMMA ProcessStep ==
  ASSUME UdpInv, Udp!ProcessMessage
  PROVE  UdpInv'
<1>1. PICK s : s = at.s
  OBVIOUS
<1>2. PICK b : b = source_buffer[s]
  OBVIOUS
<1>3. at # Udp!Listening /\ UNCHANGED <<plan, style, sent, net, faults, disturbed, received>>
  BY DEF Udp!ProcessMessage, Udp!clients
<1>4. UdpTypes /\ s \in Senders /\ at.ver \in {1, 2} /\ b # <<>>
  BY <1>1, <1>2, <1>3 DEF UdpInv, UdpTypes
<1>5. SenderRight(s) /\ b \in Seq(Cell) /\ Len(b) \in Nat /\ Busy(s)
  BY <1>1, <1>2, <1>3, <1>4, SenderTypes, SeqFacts DEF UdpInv, Busy
<1>6. PICK m \in IF at.ver = 2 THEN Udp!processRequestDataV2(b) ELSE Udp!processRequestData(b) :
        \/ m > 0 /\ Udp!MoveForward(s, m)
        \/ /\ m \in {0, -1}
           /\ source_buffer' = [source_buffer EXCEPT ![s] = IF m = 0 THEN source_buffer[s] ELSE <<>>]
           /\ at' = Udp!Listening
           /\ UNCHANGED <<started, running, up>>
        \/ m = -2 /\ up' = FALSE /\ UNCHANGED <<source_buffer, at, started, running>>
  BY <1>1, <1>2 DEF Udp!ProcessMessage, Udp!Wait, Udp!Flush, Udp!Panic
<1>7. m \in {0, -1, -2} \/ m \in 1 .. Len(b)
  BY <1>4, <1>5, <1>6, AnyOutcome
<1>8. ASSUME Udp!InStep(s) PROVE m = IF Len(b) >= 3 THEN 3 ELSE 0
  <2>1. HeadRight(b, at.ver)
    <3>1. CASE style[s] = "whole"
      <4>1. Messages(b, at.ver)
        BY <1>2, <1>5, <3>1 DEF SenderRight, WholeRight
      <4> QED BY <1>5, <4>1, MessagesHead
    <3>2. CASE style[s] # "whole"
      BY <1>2, <1>5, <1>8, <3>2 DEF SenderRight, CutRight
    <3> QED BY <3>1, <3>2
  <2>2. (IF at.ver = 2 THEN Udp!processRequestDataV2(b) ELSE Udp!processRequestData(b))
          = IF Len(b) >= 3 THEN {3} ELSE {0}
    BY <1>4, <1>5, <2>1, Outcomes
  <2> QED BY <1>6, <2>2
<1>9. style[s] = "whole" => Len(b) >= 3 /\ Udp!InStep(s)
  <2> SUFFICES ASSUME style[s] = "whole" PROVE Len(b) >= 3 /\ Udp!InStep(s)
    OBVIOUS
  <2>1. Messages(b, at.ver)
    BY <1>2, <1>5 DEF SenderRight, WholeRight
  <2> QED BY <1>5, <2>1, MessagesHead DEF Udp!InStep
<1>10. CASE m > 0 /\ Udp!MoveForward(s, m)
  <2>1. m \in 1 .. Len(source_buffer[s])
    BY <1>2, <1>7, <1>10
  <2>2. Udp!InStep(s) => m = 3
    BY <1>8, <1>10
  <2> QED BY <1>1, <1>3, <1>4, <1>10, <2>1, <2>2, ForwardStep
<1>11. CASE /\ m \in {0, -1}
            /\ source_buffer' = [source_buffer EXCEPT ![s] = IF m = 0 THEN source_buffer[s] ELSE <<>>]
            /\ at' = Udp!Listening
            /\ UNCHANGED <<started, running, up>>
  <2>1. PICK drop \in BOOLEAN : drop <=> m # 0
    OBVIOUS
  <2>2. drop => ~Udp!InStep(s)
    BY <1>8, <1>11, <2>1
  <2>3. style[s] # "whole"
    BY <1>5, <1>8, <1>9, <1>11
  <2>4. source_buffer' = [source_buffer EXCEPT ![s] = IF drop THEN <<>> ELSE source_buffer[s]]
    BY <1>11, <2>1
  <2>5. up' = up
    <3>1. UNCHANGED <<started, running, up>>
      BY <1>11
    <3> QED BY <3>1
  <2>6. at' = Udp!Listening /\ started' = started /\ running' = running
    BY <1>11
  <2>7. UNCHANGED <<plan, style, sent, net, faults, disturbed, received, started, running, up>>
    BY <1>3, <2>5, <2>6
  <2> QED BY <1>1, <1>3, <1>4, <2>2, <2>3, <2>4, <2>6, <2>7, EndStep
<1>12. CASE m = -2 /\ up' = FALSE /\ UNCHANGED <<source_buffer, at, started, running>>
  <2>1. ~Udp!InStep(s)
    BY <1>5, <1>8, <1>12
  <2>2. Chosen /\ (\A o : Udp!Cells(o)' = Udp!Cells(o)) /\ \A o : Busy(o)' <=> Busy(o)
    <3>1. Chosen
      BY <1>3 DEF Chosen
    <3> QED BY <1>12, <3>1, ChosenStays DEF Busy
  <2>3. UdpTypes'
    <3>1. \A o \in Senders : sent'[o] <= Len(Udp!Cells(o)')
      BY <1>3, <1>4, <2>2 DEF UdpTypes
    <3>2. /\ plan' = plan /\ style' = style /\ sent' = sent /\ net' = net /\ received' = received
          /\ faults' = faults /\ disturbed' = disturbed /\ at' = at
          /\ started' = started /\ running' = running /\ source_buffer' = source_buffer
          /\ up' \in BOOLEAN
      BY <1>3, <1>12
    <3> QED BY <1>4, <3>1, <3>2 DEF UdpTypes
  <2>4. \A o \in Senders : SenderRight(o)'
    <3> SUFFICES ASSUME NEW o \in Senders PROVE SenderRight(o)'
      OBVIOUS
    <3>1. SenderRight(o)
      BY DEF UdpInv
    <3> QED BY <1>3, <1>12, <2>2, <3>1, OtherStays
  <2>5. ~Udp!InStep(s)'
    BY <1>3, <2>1, <2>2, ChosenStays
  <2>6. Udp!DownOnlyOutOfStep'
    BY <1>4, <2>5 DEF Udp!DownOnlyOutOfStep
  <2> QED BY <2>3, <2>4, <2>6 DEF UdpInv
<1> QED BY <1>6, <1>10, <1>11, <1>12

(* The goroutine of a request.                                              *)
LEMMA RunStep ==
  ASSUME UdpInv, NEW t \in running, Udp!RunRequest(t)
  PROVE  UdpInv'
<1>1. UdpTypes /\ t \in [s : Senders, n : Nat, hops : 0 .. MaxForwards]
  BY DEF UdpInv, UdpTypes
<1>2. UNCHANGED <<plan, style, sent, net, faults, disturbed, source_buffer, received, at, started, up>>
  BY DEF Udp!RunRequest, Udp!clients
<1>3. running' \subseteq [s : Senders, n : Nat, hops : 0 .. MaxForwards]
  <2>1. CASE running' = running \ {t}
    BY <1>1, <2>1 DEF UdpTypes
  <2>2. CASE t.hops < MaxForwards /\ running' = (running \ {t}) \cup {[t EXCEPT !.hops = t.hops + 1]}
    <3>1. t.hops + 1 \in 0 .. MaxForwards
      BY <1>1, <2>2, UdpConstants
    <3>2. [t EXCEPT !.hops = t.hops + 1] \in [s : Senders, n : Nat, hops : 0 .. MaxForwards]
      BY <1>1, <3>1
    <3> QED BY <1>1, <2>2, <3>2 DEF UdpTypes
  <2> QED BY <2>1, <2>2 DEF Udp!RunRequest
<1>4. Chosen /\ (\A o : Udp!Cells(o)' = Udp!Cells(o)) /\ \A o : Busy(o)' <=> Busy(o)
  <2>1. Chosen
    BY <1>2 DEF Chosen
  <2> QED BY <1>2, <2>1, ChosenStays DEF Busy
<1>5. UdpTypes'
  <2>1. \A o \in Senders : sent'[o] <= Len(Udp!Cells(o)')
    BY <1>1, <1>2, <1>4 DEF UdpTypes
  <2> QED BY <1>1, <1>2, <1>3, <2>1 DEF UdpTypes
<1>6. \A o \in Senders : SenderRight(o)'
  <2> SUFFICES ASSUME NEW o \in Senders PROVE SenderRight(o)'
    OBVIOUS
  <2>1. SenderRight(o)
    BY DEF UdpInv
  <2> QED BY <1>2, <1>4, <2>1, OtherStays
<1>7. Udp!DownOnlyOutOfStep'
  BY <1>2, <1>4, DownStays DEF UdpInv
<1> QED BY <1>5, <1>6, <1>7 DEF UdpInv

LEMMA UdpStep ==
  ASSUME UdpInv, Udp!Next
  PROVE  UdpInv'
<1>1. \/ \E s \in Senders : \/ \E n \in 1 .. Len(Udp!Cells(s)) : Udp!SendDatagram(s, n)
                            \/ \E p \in DOMAIN net[s] :
                                 Udp!Lose(s, p) \/ Udp!Duplicate(s, p) \/ Udp!ReceiveDatagram(s, p)
      \/ Udp!ProcessMessage
      \/ \E t \in running : Udp!RunRequest(t)
  BY DEF Udp!Next
<1> QED BY <1>1, SendStep, FaultStep, ReceiveStep, ProcessStep, RunStep

(* The variables of the service, as they are in a step of another part.     *)
LEMMA UdpStutter ==
  ASSUME UdpInv, UNCHANGED udp_vars
  PROVE  UdpInv'
<1>1. UNCHANGED <<plan, style, sent, net, faults, disturbed, source_buffer, received, at, started,
                  running, up>>
  BY DEF udp_vars
<1>2. Chosen /\ (\A o : Udp!Cells(o)' = Udp!Cells(o)) /\ \A o : Busy(o)' <=> Busy(o)
  <2>1. Chosen
    BY <1>1 DEF Chosen
  <2> QED BY <1>1, <2>1, ChosenStays DEF Busy
<1>3. UdpTypes'
  <2>1. UdpTypes /\ \A o \in Senders : sent'[o] <= Len(Udp!Cells(o)')
    BY <1>1, <1>2 DEF UdpInv, UdpTypes
  <2> QED BY <1>1, <2>1 DEF UdpTypes
<1>4. \A o \in Senders : SenderRight(o)'
  <2> SUFFICES ASSUME NEW o \in Senders PROVE SenderRight(o)'
    OBVIOUS
  <2>1. SenderRight(o)
    BY DEF UdpInv
  <2> QED BY <1>1, <1>2, <2>1, OtherStays
<1>5. Udp!DownOnlyOutOfStep'
  BY <1>1, <1>2, DownStays DEF UdpInv
<1> QED BY <1>3, <1>4, <1>5 DEF UdpInv

LEMMA UdpStart ==
  ASSUME Udp!Init
  PROVE  UdpInv
<1>1. /\ plan \in [Senders -> UNION {Plans[s] : s \in Senders}] /\ \A s \in Senders : plan[s] \in Plans[s]
      /\ style \in [Senders -> {"whole", "cut"}] /\ \A s \in Senders : style[s] \in Styles[s]
      /\ sent = [s \in Senders |-> 0] /\ net = Udp!None /\ faults = 0
      /\ disturbed = [s \in Senders |-> FALSE]
      /\ source_buffer = Udp!None /\ received = Udp!None /\ started = Udp!None
      /\ at = Udp!Listening /\ running = {} /\ up = TRUE
  BY DEF Udp!Init
<1>2. plan \in [Senders -> Seq({1, 2})]
  BY <1>1, UdpConstants
<1>3. /\ <<>> \in Seq(Cell) /\ <<>> \in Seq(Seq(Cell)) /\ Len(<<>>) = 0
      /\ Udp!FlattenSeq(<<>>) = <<>> /\ <<>> \o <<>> = <<>>
  <2>1. <<>> \in Seq(Cell) /\ <<>> \in Seq(Seq(Cell)) /\ Len(<<>>) = 0
    BY EmptySeq
  <2>2. Udp!FlattenSeq(<<>>) = <<>>
    BY <2>1 DEF Udp!FlattenSeq
  <2> QED BY <2>1, <2>2, ConcatEmptySeq
<1>4. ASSUME NEW s \in Senders
      PROVE  /\ sent[s] = 0 /\ net[s] = <<>> /\ source_buffer[s] = <<>> /\ received[s] = <<>>
             /\ started[s] = <<>> /\ ~Busy(s) /\ Udp!Cells(s) \in Seq(Cell) /\ Len(Udp!Cells(s)) \in Nat
  <2>1. plan[s] \in Seq({1, 2})
    BY <1>2
  <2>2. Udp!Cells(s) \in Seq(Cell) /\ Len(Udp!Cells(s)) \in Nat
    BY <2>1, CellsAre, SeqFacts
  <2> QED BY <1>1, <2>2 DEF Udp!None, Busy
<1>5. UdpTypes
  <2>1. \A s \in Senders : sent[s] <= Len(Udp!Cells(s))
    BY <1>4
  <2>2. \A s \in Senders : \A j \in 1 .. Len(net[s]) : net[s][j] # <<>>
    BY <1>3, <1>4
  <2>3. /\ net \in [Senders -> Seq(Seq(Cell))] /\ started \in [Senders -> Seq(Seq(Cell))]
        /\ source_buffer \in [Senders -> Seq(Cell)] /\ received \in [Senders -> Seq(Cell)]
    BY <1>1, <1>3 DEF Udp!None
  <2> QED BY <1>1, <1>2, <2>1, <2>2, <2>3, UdpConstants DEF UdpTypes
<1>6. ASSUME NEW s \in Senders PROVE SenderRight(s)
  <2>1. WholeRight(s)
    <3>1. 0 = 3 * 0 /\ 0 \in Nat
      OBVIOUS
    <3> QED BY <1>3, <1>4, <3>1 DEF WholeRight
  <2>2. ServedRight(s)
    <3>1. \A j \in 1 .. 0 : FALSE
      OBVIOUS
    <3>2. 0 = 3 * 0
      OBVIOUS
    <3>3. started[s] = <<>> /\ source_buffer[s] = <<>> /\ received[s] = <<>>
      BY <1>4
    <3> QED BY <1>3, <3>1, <3>2, <3>3 DEF ServedRight
  <2>3. CutRight(s)
    <3>1. InOrder(<<>>, Udp!Cells(s), 0, 0)
      <4> DEFINE g == [p \in 1 .. 1 |-> 0]
      <4>1. 0 \in 0 .. Len(Udp!Cells(s))
        BY <1>4
      <4>2. g \in [1 .. 0 + 1 -> 0 .. Len(Udp!Cells(s))] /\ g[1] = 0 /\ g[0 + 1] = 0
        BY <4>1
      <4> HIDE DEF g
      <4>3. \A p \in 1 .. 0 : FALSE
        OBVIOUS
      <4> QED BY <1>3, <4>2, <4>3 DEF InOrder
    <3> QED BY <1>3, <1>4, <3>1 DEF CutRight
  <2> QED BY <2>1, <2>2, <2>3 DEF SenderRight
<1>7. Udp!DownOnlyOutOfStep
  BY <1>1 DEF Udp!DownOnlyOutOfStep
<1> QED BY <1>5, <1>6, <1>7 DEF UdpInv

LEMMA UdpHolds ==
  ASSUME UdpInv
  PROVE  Udp!TypeOK /\ Udp!StreamsServed
<1>1. UdpTypes /\ (\A s \in Senders : SenderRight(s)) /\ Udp!DownOnlyOutOfStep
  BY DEF UdpInv
<1>2. Udp!TypeOK
  <2>1. ASSUME NEW s \in Senders
        PROVE  /\ plan[s] \in Plans[s] /\ style[s] \in Styles[s]
               /\ sent[s] \in 0 .. Len(Udp!Cells(s))
               /\ \A j \in DOMAIN source_buffer[s] : Udp!IsCell(source_buffer[s][j])
    <3>1. plan[s] \in Plans[s] /\ style[s] \in Styles[s]
      BY <1>1 DEF UdpTypes
    <3>2. sent[s] \in 0 .. Len(Udp!Cells(s))
      <4>1. sent[s] \in Nat /\ sent[s] <= Len(Udp!Cells(s)) /\ Len(Udp!Cells(s)) \in Nat
        BY <1>1, SenderTypes, SeqFacts
      <4> QED BY <4>1
    <3>3. \A j \in DOMAIN source_buffer[s] : source_buffer[s][j] \in Cell
      <4>1. source_buffer[s] \in Seq(Cell)
        BY <1>1, SenderTypes
      <4> QED BY <4>1, SeqFacts
    <3> QED BY <3>1, <3>2, <3>3 DEF Udp!IsCell, Udp!MessageLen, Cell
  <2>2. at = Udp!Listening \/ (at.s \in Senders /\ at.ver \in {1, 2})
    BY <1>1 DEF UdpTypes
  <2> QED BY <1>1, <2>1, <2>2 DEF Udp!TypeOK, UdpTypes
<1>3. ASSUME NEW s \in Senders, Udp!InStep(s)
      PROVE  /\ \A j \in DOMAIN started[s] : Udp!IsMessage(started[s][j])
             /\ Udp!FlattenSeq(started[s]) \o source_buffer[s] = received[s]
             /\ style[s] = "whole" /\ at.s # s => source_buffer[s] = <<>>
  <2>1. DOMAIN started[s] = 1 .. Len(started[s])
    BY <1>1, SenderTypes, SeqFacts
  <2> QED BY <1>1, <1>3, <2>1 DEF SenderRight, ServedRight, WholeRight, Busy
<1> QED BY <1>1, <1>2, <1>3 DEF Udp!StreamsServed, Udp!StreamInStep

(* What the invariant says of a behaviour about the service.                *)
UdpPart == part = "udp" => UdpInv

LEMMA UdpPartAlways == Spec => []UdpPart
<1>1. Init => UdpPart
  BY UdpStart DEF Init, UdpPart
<1>2. UdpPart /\ [Next]_vars => UdpPart'
  <2> SUFFICES ASSUME UdpPart, [Next]_vars, part' = "udp" PROVE UdpInv'
    BY DEF UdpPart
  <2>1. CASE part = "udp" /\ Udp!Next
    BY <2>1, UdpStep DEF UdpPart
  <2>2. CASE part' = part /\ UNCHANGED udp_vars
    BY <2>2, UdpStutter DEF UdpPart
  <2> QED BY <2>1, <2>2 DEF Next, vars
<1> QED BY <1>1, <1>2, PTL DEF Spec

(* Messages in datagrams (hs_udp.go, hs_udp_v1.go), for any senders, any    *)
(* messages and any datagrams: each request of a sender in step is one      *)
(* message, the requests and what is gathered are all it was heard to say,  *)
(* whatever is lost, repeated or overtaken of whole datagrams, and nothing  *)
(* but a sender that cuts messages and is out of step ends the server.      *)
THEOREM StreamsAlwaysServed == Spec => []StreamsServed
<1>1. UdpPart => StreamsServed
  BY UdpHolds DEF UdpPart, StreamsServed
<1> QED BY <1>1, UdpPartAlways, PTL

-----------------------------------------------------------------------------
(* Sums: as many pairs as the numbers say.                                  *)

Row(f, x)  == {x} \X (1 .. f[x])
Pile(f, s) == UNION {Row(f, x) : x \in s}

(* The numbers f are added up in the order in which CHOOSE takes them.      *)
Adds(g, f, S) ==
  g = [s \in SUBSET S |-> IF s = {} THEN 0
                          ELSE f[CHOOSE x \in s : TRUE] + g[s \ {CHOOSE x \in s : TRUE}]]

LEMMA RowCount ==
  ASSUME NEW f, NEW x, f[x] \in Nat
  PROVE  IsFiniteSet(Row(f, x)) /\ Cardinality(Row(f, x)) = f[x]
<1>1. IsFiniteSet({x}) /\ Cardinality({x}) = 1
  BY FS_Singleton
<1>2. IsFiniteSet(1 .. f[x]) /\ Cardinality(1 .. f[x]) = f[x]
  BY FS_Interval
<1> DEFINE S == {x}
           T == 1 .. f[x]
<1> HIDE DEF S, T
<1>3. IsFiniteSet(S \X T) /\ Cardinality(S \X T) = Cardinality(S) * Cardinality(T)
  BY <1>1, <1>2, FS_Product DEF S, T
<1>4. Cardinality(S) * Cardinality(T) = f[x]
  BY <1>1, <1>2 DEF S, T
<1> QED BY <1>3, <1>4 DEF S, T, Row

LEMMA PileCut ==
  ASSUME NEW f, NEW s, NEW x \in s, f[x] \in Nat, IsFiniteSet(Pile(f, s \ {x}))
  PROVE  /\ IsFiniteSet(Pile(f, s))
         /\ Cardinality(Pile(f, s)) = f[x] + Cardinality(Pile(f, s \ {x}))
<1> DEFINE R == Row(f, x)
           P == Pile(f, s \ {x})
<1>1. Pile(f, s) = R \cup P
  BY DEF Pile
<1>2. R \cap P = {}
  BY DEF Pile, Row
<1>3. IsFiniteSet(R) /\ Cardinality(R) = f[x]
  BY RowCount
<1> HIDE DEF R, P
<1>4. IsFiniteSet(P)
  BY DEF P
<1>5. /\ IsFiniteSet(R \cup P)
      /\ Cardinality(R \cup P) = Cardinality(R) + Cardinality(P) - Cardinality(R \cap P)
  BY <1>3, <1>4, FS_Union
<1>6. Cardinality(R \cap P) = 0 /\ Cardinality(P) \in Nat
  BY <1>2, <1>4, FS_EmptySet, FS_CardinalityType
<1>7. Cardinality(R \cup P) = f[x] + Cardinality(P)
  BY <1>3, <1>5, <1>6
<1> QED BY <1>1, <1>5, <1>7 DEF P

LEMMA PileFinite ==
  ASSUME NEW s, IsFiniteSet(s), NEW f, \A x \in s : f[x] \in Nat
  PROVE  IsFiniteSet(Pile(f, s)) /\ Cardinality(Pile(f, s)) \in Nat
<1> DEFINE T == {n \in Nat : \A u \in SUBSET s : Cardinality(u) = n => IsFiniteSet(Pile(f, u))}
<1>1. 0 \in T
  <2>1. ASSUME NEW u \in SUBSET s, Cardinality(u) = 0 PROVE IsFiniteSet(Pile(f, u))
    <3>1. u = {}
      BY <2>1, FS_Subset, FS_EmptySet
    <3>2. Pile(f, u) = {}
      BY <3>1 DEF Pile
    <3> QED BY <3>2, FS_EmptySet
  <2> QED BY <2>1
<1>2. ASSUME NEW n \in Nat, n \in T PROVE n + 1 \in T
  <2>1. ASSUME NEW u \in SUBSET s, Cardinality(u) = n + 1 PROVE IsFiniteSet(Pile(f, u))
    <3>1. IsFiniteSet(u) /\ u # {}
      <4>1. n + 1 # 0
        OBVIOUS
      <4> QED BY <2>1, <4>1, FS_Subset, FS_EmptySet
    <3>2. PICK x \in u : TRUE
      BY <3>1
    <3>3. Cardinality(u \ {x}) = n
      <4>1. Cardinality(u \ {x}) = Cardinality(u) - 1
        BY <3>1, <3>2, FS_RemoveElement
      <4> QED BY <2>1, <4>1
    <3>4. IsFiniteSet(Pile(f, u \ {x}))
      BY <1>2, <3>3
    <3> QED BY <3>2, <3>4, PileCut
  <2> QED BY <2>1
<1>3. Nat \subseteq T
  BY <1>1, <1>2, AllNumbers
<1>4. Cardinality(s) \in Nat
  BY FS_CardinalityType
<1>5. IsFiniteSet(Pile(f, s))
  BY <1>3, <1>4
<1> QED BY <1>5, FS_CardinalityType

LEMMA AddsExists ==
  ASSUME NEW S, IsFiniteSet(S), NEW f, \A x \in S : f[x] \in Nat
  PROVE  \E g : Adds(g, f, S)
<1> DEFINE g == [s \in SUBSET S |-> Cardinality(Pile(f, s))]
<1>1. ASSUME NEW s \in SUBSET S, s # {}
      PROVE  g[s] = f[CHOOSE x \in s : TRUE] + g[s \ {CHOOSE x \in s : TRUE}]
  <2>1. PICK x \in s : x = CHOOSE y \in s : TRUE
    BY <1>1
  <2>2. IsFiniteSet(s \ {x}) /\ s \ {x} \in SUBSET S
    BY FS_Subset
  <2>3. IsFiniteSet(Pile(f, s \ {x}))
    BY <2>2, PileFinite
  <2>4. Cardinality(Pile(f, s)) = f[x] + Cardinality(Pile(f, s \ {x}))
    <3>1. x \in s /\ f[x] \in Nat
      BY <2>1
    <3> QED BY <2>3, <3>1, PileCut
  <2> QED BY <2>1, <2>2, <2>4
<1>2. \A s \in SUBSET S : s = {} => g[s] = 0
  <2>1. Pile(f, {}) = {}
    BY DEF Pile
  <2> QED BY <2>1, FS_EmptySet
<1>3. g = [s \in SUBSET S |-> g[s]]
  OBVIOUS
<1> HIDE DEF g
<1>4. Adds(g, f, S)
  BY <1>1, <1>2, <1>3, Zenon DEF Adds
<1> QED BY <1>4

LEMMA AddsIs ==
  ASSUME NEW S, IsFiniteSet(S), NEW f, \A x \in S : f[x] \in Nat, NEW g, Adds(g, f, S)
  PROVE  g[S] = Cardinality(Pile(f, S))
<1> DEFINE T == {n \in Nat : \A s \in SUBSET S : Cardinality(s) = n => g[s] = Cardinality(Pile(f, s))}
<1>0. \A s \in SUBSET S : g[s] = IF s = {} THEN 0
                                 ELSE f[CHOOSE x \in s : TRUE] + g[s \ {CHOOSE x \in s : TRUE}]
  BY Zenon DEF Adds
<1>1. 0 \in T
  <2>1. ASSUME NEW s \in SUBSET S, Cardinality(s) = 0 PROVE g[s] = Cardinality(Pile(f, s))
    <3>1. s = {}
      BY <2>1, FS_Subset, FS_EmptySet
    <3>2. Pile(f, s) = {}
      BY <3>1 DEF Pile
    <3> QED BY <1>0, <3>1, <3>2, FS_EmptySet
  <2> QED BY <2>1
<1>2. ASSUME NEW n \in Nat, n \in T PROVE n + 1 \in T
  <2>1. ASSUME NEW s \in SUBSET S, Cardinality(s) = n + 1 PROVE g[s] = Cardinality(Pile(f, s))
    <3>1. IsFiniteSet(s) /\ s # {}
      <4>1. n + 1 # 0
        OBVIOUS
      <4> QED BY <2>1, <4>1, FS_Subset, FS_EmptySet
    <3>2. PICK x \in s : x = CHOOSE y \in s : TRUE
      BY <3>1
    <3>3. IsFiniteSet(s \ {x}) /\ s \ {x} \in SUBSET S /\ Cardinality(s \ {x}) = n
      <4>1. Cardinality(s \ {x}) = Cardinality(s) - 1 /\ IsFiniteSet(s \ {x})
        BY <3>1, <3>2, FS_RemoveElement
      <4> QED BY <2>1, <4>1
    <3>4. g[s \ {x}] = Cardinality(Pile(f, s \ {x}))
      BY <1>2, <3>3
    <3>5. Cardinality(Pile(f, s)) = f[x] + Cardinality(Pile(f, s \ {x}))
      <4>1. IsFiniteSet(Pile(f, s \ {x}))
        BY <3>3, PileFinite
      <4>2. x \in s /\ f[x] \in Nat
        BY <3>2
      <4> QED BY <4>1, <4>2, PileCut
    <3>6. g[s] = f[x] + g[s \ {x}]
      BY <1>0, <3>1, <3>2
    <3> QED BY <3>4, <3>5, <3>6
  <2> QED BY <2>1
<1>3. Nat \subseteq T
  BY <1>1, <1>2, AllNumbers
<1>4. Cardinality(S) \in Nat
  BY FS_CardinalityType
<1> QED BY <1>3, <1>4

LEMMA PileLeq ==
  ASSUME NEW s, IsFiniteSet(s), NEW u, u \subseteq s, NEW f, NEW g,
         \A x \in s : g[x] \in Nat, \A x \in u : f[x] \in Nat /\ f[x] <= g[x]
  PROVE  Cardinality(Pile(f, u)) <= Cardinality(Pile(g, s))
<1>1. Pile(f, u) \subseteq Pile(g, s)
  <2>1. \A x \in u : Row(f, x) \subseteq Row(g, x)
    BY DEF Row
  <2> QED BY <2>1 DEF Pile
<1>2. IsFiniteSet(Pile(g, s))
  BY PileFinite
<1> QED BY <1>1, <1>2, FS_Subset

-----------------------------------------------------------------------------
(* PieceMerge. *)

Tasks     == Merge!tasks_no
Pieces    == 0 .. Tasks - 1
Before(n) == Merge!SumTo(chunks, n)
At(n)     == Tasks + 1 + Before(n)

(* What the workers left: the state before the first piece is moved.        *)
Compressed ==
  /\ in_len \in Lengths
  /\ chunks \in [Pieces -> ChunkSizes]
  /\ \A n \in Pieces : Merge!FitsBlock(in_len, n, chunks[n])
  /\ Merge!WorthIt(in_len, chunks)

Progress ==
  /\ DOMAIN out = 0 .. in_len - 1
  /\ i \in 0 .. Tasks /\ dst_pos = At(i)
  /\ pc \in {"merge", "merged"} /\ (pc = "merged" => i = Tasks)

(* What is not read as it was written, because an earlier piece is there.   *)
Spared(n, k) == \A m \in 0 .. n - 1 : BlockSize * n + k \notin Merge!Target(m)

(* A piece that was moved has its own units where they were spared, and     *)
(* nowhere a unit of a later one.                                           *)
Moved ==
  \A n \in 0 .. i - 1 : \A k \in 0 .. chunks[n] - 1 :
    /\ out[At(n) + k] = Merge!Unit(n, k) <=> Spared(n, k)
    /\ \A m \in Pieces : \A j \in Nat : m > n => out[At(n) + k] # Merge!Unit(m, j)

(* A piece that was not is where it was, unless it was covered.             *)
Unmoved ==
  pc = "merge" => \A n \in i .. Tasks - 1 : \A k \in 0 .. chunks[n] - 1 :
    (\A m \in 0 .. i - 1 : BlockSize * n + k \notin Merge!Target(m))
      => out[BlockSize * n + k] = Merge!Unit(n, k)

Written ==
  pc = "merged" => /\ \A n \in Pieces : out[n] = Merge!Entry(chunks[n])
                   /\ out[Tasks] = Merge!Entry(0)

MergeInv == Compressed /\ Progress /\ Moved /\ Unmoved /\ Written

LEMMA MergeConstants ==
  /\ BlockSize \in Nat /\ BlockSize >= 14
  /\ \A l \in Lengths : l \in Nat /\ l >= BlockSize
  /\ ChunkSizes \subseteq Nat \ {0}
BY PartsAssumption DEF Merge!MergeAssumption

LEMMA SumIs ==
  ASSUME NEW c, NEW n, IsFiniteSet(0 .. n - 1), \A k \in 0 .. n - 1 : c[k] \in Nat
  PROVE  Merge!SumTo(c, n) = Cardinality(Pile(c, 0 .. n - 1))
<1> DEFINE S == 0 .. n - 1
<1>1. IsFiniteSet(S) /\ \A x \in S : c[x] \in Nat
  OBVIOUS
<1>2. \E g : Adds(g, c, S)
  BY <1>1, AddsExists
<1>3. Adds(CHOOSE g : Adds(g, c, S), c, S)
  BY <1>2
<1>4. (CHOOSE g : Adds(g, c, S))[S] = Cardinality(Pile(c, S))
  BY <1>1, <1>3, AddsIs
<1>5. Merge!SumTo(c, n) = (CHOOSE g : Adds(g, c, S))[S]
  BY DEF Merge!SumTo, Merge!MapThenSumSet, Merge!MapThenFoldSet, Adds
<1> QED BY <1>4, <1>5

LEMMA SumNone == ASSUME NEW c PROVE Merge!SumTo(c, 0) = 0
<1>1. 0 .. 0 - 1 = {}
  OBVIOUS
<1>2. IsFiniteSet(0 .. 0 - 1) /\ \A k \in 0 .. 0 - 1 : c[k] \in Nat
  BY <1>1, FS_EmptySet
<1>3. Merge!SumTo(c, 0) = Cardinality(Pile(c, 0 .. 0 - 1))
  BY <1>2, SumIs
<1>4. Pile(c, 0 .. 0 - 1) = {}
  BY <1>1 DEF Pile
<1> QED BY <1>3, <1>4, FS_EmptySet

LEMMA SumNext ==
  ASSUME NEW c, NEW n \in Nat, \A k \in 0 .. n : c[k] \in Nat
  PROVE  /\ Merge!SumTo(c, n) \in Nat
         /\ Merge!SumTo(c, n + 1) = Merge!SumTo(c, n) + c[n]
<1>1. 0 .. (n + 1) - 1 = 0 .. n /\ (0 .. n) \ {n} = 0 .. n - 1 /\ n \in 0 .. n
  OBVIOUS
<1>2. IsFiniteSet(0 .. n) /\ IsFiniteSet(0 .. n - 1)
  BY FS_Interval
<1>3. \A k \in 0 .. n - 1 : c[k] \in Nat
  OBVIOUS
<1>4. Merge!SumTo(c, n) = Cardinality(Pile(c, 0 .. n - 1))
  BY <1>2, <1>3, SumIs
<1>5. Merge!SumTo(c, n + 1) = Cardinality(Pile(c, 0 .. n))
  <2>1. IsFiniteSet(0 .. (n + 1) - 1) /\ \A k \in 0 .. (n + 1) - 1 : c[k] \in Nat
    BY <1>1, <1>2
  <2>2. Merge!SumTo(c, n + 1) = Cardinality(Pile(c, 0 .. (n + 1) - 1))
    BY <2>1, SumIs
  <2> QED BY <1>1, <2>2
<1>6. IsFiniteSet(Pile(c, 0 .. n - 1)) /\ Cardinality(Pile(c, 0 .. n - 1)) \in Nat
  BY <1>2, <1>3, PileFinite
<1>7. Cardinality(Pile(c, 0 .. n)) = c[n] + Cardinality(Pile(c, (0 .. n) \ {n}))
  <2>1. IsFiniteSet(Pile(c, (0 .. n) \ {n}))
    BY <1>1, <1>6
  <2>2. n \in 0 .. n /\ c[n] \in Nat
    BY <1>1
  <2>3. ASSUME NEW s, n \in s, IsFiniteSet(Pile(c, s \ {n}))
        PROVE  Cardinality(Pile(c, s)) = c[n] + Cardinality(Pile(c, s \ {n}))
    BY <2>2, <2>3, PileCut
  <2> QED BY <2>1, <2>2, <2>3, Zenon
<1>8. c[n] \in Nat
  OBVIOUS
<1>9. Cardinality(Pile(c, (0 .. n) \ {n})) = Cardinality(Pile(c, 0 .. n - 1))
  BY <1>1
<1> QED BY <1>4, <1>5, <1>6, <1>7, <1>8, <1>9

LEMMA SumGrows ==
  ASSUME NEW c, NEW n \in Nat, NEW m \in Nat, m <= n, \A k \in 0 .. n - 1 : c[k] \in Nat
  PROVE  Merge!SumTo(c, m) \in Nat /\ Merge!SumTo(c, m) <= Merge!SumTo(c, n)
<1>1. IsFiniteSet(0 .. n - 1) /\ IsFiniteSet(0 .. m - 1) /\ 0 .. m - 1 \subseteq 0 .. n - 1
  BY FS_Interval
<1>2. \A k \in 0 .. m - 1 : c[k] \in Nat
  OBVIOUS
<1>3. \A k \in 0 .. m - 1 : c[k] \in Nat /\ c[k] <= c[k]
  BY <1>2
<1>4. Merge!SumTo(c, m) = Cardinality(Pile(c, 0 .. m - 1)) /\ Merge!SumTo(c, n) = Cardinality(Pile(c, 0 .. n - 1))
  BY <1>1, <1>2, SumIs
<1>5. Cardinality(Pile(c, 0 .. m - 1)) <= Cardinality(Pile(c, 0 .. n - 1))
  BY <1>1, <1>3, PileLeq
<1>6. Cardinality(Pile(c, 0 .. m - 1)) \in Nat
  BY <1>1, <1>2, PileFinite
<1> QED BY <1>4, <1>5, <1>6

(* Blocks. *)
LEMMA TasksAre ==
  ASSUME NEW len \in Nat, len >= BlockSize
  PROVE  /\ Merge!TasksNo(len) \in Nat \ {0}
         /\ BlockSize * (Merge!TasksNo(len) - 1) \in Nat
         /\ BlockSize * (Merge!TasksNo(len) - 1) < len
<1> DEFINE q == len \div BlockSize
           r == len % BlockSize
<1>1. q \in Nat /\ r \in 0 .. BlockSize - 1 /\ len = BlockSize * q + r
  BY MergeConstants, Z3
<1>2. q # 0
  <2> SUFFICES ASSUME q = 0 PROVE FALSE
    OBVIOUS
  <2> HIDE DEF q, r
  <2>1. BlockSize * q = 0
    BY MergeConstants
  <2> QED BY <1>1, <2>1, MergeConstants
<1>3. Merge!TasksNo(len) = q + (IF r > 0 THEN 1 ELSE 0)
  BY DEF Merge!TasksNo
<1> HIDE DEF q, r
<1>4. BlockSize * q \in Nat /\ BlockSize * (q - 1) = BlockSize * q - BlockSize /\ BlockSize * (q - 1) \in Nat
  <2>1. q - 1 \in Nat
    BY <1>1, <1>2
  <2> QED BY <1>1, <2>1, MergeConstants, Z3
<1>5. CASE r > 0
  <2>1. Merge!TasksNo(len) = q + 1 /\ (q + 1) - 1 = q
    BY <1>1, <1>3, <1>5
  <2> QED BY <1>1, <1>4, <1>5, <2>1
<1>6. CASE r = 0
  <2>1. Merge!TasksNo(len) = q
    BY <1>1, <1>3, <1>6
  <2> QED BY <1>1, <1>2, <1>4, <1>6, <2>1, MergeConstants
<1> QED BY <1>1, <1>5, <1>6

LEMMA BlocksGrow ==
  ASSUME NEW n \in Nat, NEW m \in Nat
  PROVE  /\ BlockSize * n \in Nat /\ BlockSize * (n + 1) = BlockSize * n + BlockSize
         /\ n <= m => BlockSize * n <= BlockSize * m
         /\ n < m => BlockSize * n + BlockSize <= BlockSize * m
BY MergeConstants, Z3

LEMMA RoomForTable ==
  ASSUME Compressed
  PROVE  Before(Tasks) \in Nat /\ Tasks + 1 + Before(Tasks) <= in_len
<1>1. /\ in_len \in Nat /\ in_len >= BlockSize
      /\ Tasks \in Nat \ {0} /\ BlockSize * (Tasks - 1) \in Nat /\ BlockSize * (Tasks - 1) < in_len
  <2>1. in_len \in Nat /\ in_len >= BlockSize
    BY MergeConstants DEF Compressed
  <2> QED BY <2>1, TasksAre DEF Tasks, Merge!tasks_no
<1>2. Before(Tasks) \in Nat
  <2>1. \A k \in 0 .. Tasks - 1 : chunks[k] \in Nat
    BY MergeConstants DEF Compressed, Pieces
  <2> QED BY <1>1, <2>1, SumGrows DEF Before
<1>3. 10 * Before(Tasks) <= 8 * in_len
  BY DEF Compressed, Merge!WorthIt, Before, Tasks, Merge!tasks_no
<1>4. 14 * (Tasks - 1) <= BlockSize * (Tasks - 1)
  <2>1. Tasks - 1 \in Nat
    BY <1>1
  <2> DEFINE n == Tasks - 1
  <2> HIDE DEF n
  <2>2. n \in Nat
    BY <2>1 DEF n
  <2>3. 14 * n <= BlockSize * n
    BY <2>2, MergeConstants, Z3
  <2> QED BY <2>3 DEF n
<1>5. 5 * (Tasks + 1) <= in_len
  <2>1. CASE Tasks = 1
    BY <1>1, <2>1, MergeConstants
  <2>2. CASE Tasks # 1
    BY <1>1, <1>4, <2>2
  <2> QED BY <2>1, <2>2
<1> QED BY <1>1, <1>2, <1>3, <1>5

LEMMA PieceFacts ==
  ASSUME Compressed
  PROVE  /\ in_len \in Nat /\ Tasks \in Nat \ {0} /\ Tasks + 1 + Before(Tasks) <= in_len
         /\ \A n \in Pieces : chunks[n] \in Nat \ {0}
         /\ \A n \in Pieces : BlockSize * n \in Nat /\ BlockSize * n + chunks[n] <= in_len
         /\ Before(0) = 0
         /\ \A n \in 0 .. Tasks : Before(n) \in Nat
         /\ \A n \in Pieces : Before(n + 1) = Before(n) + chunks[n]
         /\ \A n \in 0 .. Tasks : \A m \in 0 .. n : Before(m) <= Before(n)
<1>1. /\ in_len \in Nat /\ in_len >= BlockSize /\ Tasks \in Nat \ {0}
      /\ BlockSize * (Tasks - 1) \in Nat /\ BlockSize * (Tasks - 1) < in_len
  <2>1. in_len \in Nat /\ in_len >= BlockSize
    BY MergeConstants DEF Compressed
  <2> QED BY <2>1, TasksAre DEF Tasks, Merge!tasks_no
<1>2. \A n \in Pieces : chunks[n] \in Nat \ {0}
  BY MergeConstants DEF Compressed
<1>3. Tasks + 1 + Before(Tasks) <= in_len
  BY RoomForTable
<1>4. ASSUME NEW n \in Pieces PROVE BlockSize * n \in Nat /\ BlockSize * n + chunks[n] <= in_len
  <2>1. n \in Nat /\ Tasks - 1 \in Nat /\ n <= Tasks - 1
    BY <1>1 DEF Pieces
  <2>2. BlockSize * n \in Nat /\ BlockSize * n <= BlockSize * (Tasks - 1)
    BY <2>1, BlocksGrow
  <2>3. chunks[n] <= Merge!BlockLen(in_len, n)
    BY DEF Compressed, Merge!FitsBlock
  <2>4. (n + 1) * BlockSize = BlockSize * n + BlockSize /\ n * BlockSize = BlockSize * n
    BY <2>1, MergeConstants, Z3
  <2>5. CASE (n + 1) * BlockSize <= in_len
    <3>1. Merge!BlockLen(in_len, n) = BlockSize
      BY <2>5 DEF Merge!BlockLen
    <3> QED BY <1>1, <1>2, <2>2, <2>3, <2>4, <2>5, <3>1, MergeConstants
  <2>6. CASE ~((n + 1) * BlockSize <= in_len)
    <3>1. Merge!BlockLen(in_len, n) = in_len - (n * BlockSize)
      BY <2>6 DEF Merge!BlockLen
    <3> QED BY <1>1, <1>2, <2>2, <2>3, <2>4, <3>1
  <2> QED BY <2>5, <2>6
<1>5. Before(0) = 0
  BY SumNone DEF Before
<1>6. \A n \in 0 .. Tasks : \A m \in 0 .. n : Before(m) \in Nat /\ Before(m) <= Before(n)
  <2> SUFFICES ASSUME NEW n \in 0 .. Tasks, NEW m \in 0 .. n
               PROVE  Before(m) \in Nat /\ Before(m) <= Before(n)
    OBVIOUS
  <2>1. n \in Nat /\ m \in Nat /\ m <= n /\ \A k \in 0 .. n - 1 : chunks[k] \in Nat
    BY <1>1, <1>2 DEF Pieces
  <2> QED BY <2>1, SumGrows DEF Before
<1>7. ASSUME NEW n \in Pieces PROVE Before(n + 1) = Before(n) + chunks[n]
  <2>1. n \in Nat /\ \A k \in 0 .. n : chunks[k] \in Nat
    BY <1>1, <1>2 DEF Pieces
  <2> QED BY <2>1, SumNext DEF Before
<1>8. \A n \in 0 .. Tasks : Before(n) \in Nat
  <2>1. \A n \in 0 .. Tasks : n \in 0 .. n
    BY <1>1
  <2> QED BY <1>6, <2>1
<1> QED BY <1>1, <1>2, <1>3, <1>4, <1>5, <1>6, <1>7, <1>8

(* Where the pieces are moved to. *)
LEMMA TargetFacts ==
  ASSUME Compressed
  PROVE  /\ \A n \in Pieces : At(n) \in Nat /\ At(n) > Tasks /\ At(n + 1) = At(n) + chunks[n]
                              /\ Merge!Target(n) = At(n) .. At(n) + chunks[n] - 1
                              /\ At(n) + chunks[n] <= in_len
         /\ \A n \in Pieces : \A m \in 0 .. n - 1 : At(m) + chunks[m] <= At(n)
<1>0. /\ in_len \in Nat /\ Tasks \in Nat \ {0} /\ Tasks + 1 + Before(Tasks) <= in_len
      /\ \A n \in Pieces : chunks[n] \in Nat \ {0}
      /\ \A n \in 0 .. Tasks : Before(n) \in Nat
      /\ \A n \in Pieces : Before(n + 1) = Before(n) + chunks[n]
      /\ \A n \in 0 .. Tasks : \A m \in 0 .. n : Before(m) <= Before(n)
  BY PieceFacts
<1>1. ASSUME NEW n \in Pieces
      PROVE  /\ At(n) \in Nat /\ At(n) > Tasks /\ At(n + 1) = At(n) + chunks[n]
             /\ At(n) + chunks[n] <= in_len
  <2>1. n \in 0 .. Tasks /\ n + 1 \in 0 .. Tasks /\ Tasks \in 0 .. Tasks
    BY <1>0 DEF Pieces
  <2>2. Before(n) \in Nat /\ Before(n + 1) = Before(n) + chunks[n] /\ Before(n + 1) <= Before(Tasks)
        /\ Before(Tasks) \in Nat /\ chunks[n] \in Nat
    BY <1>0, <2>1
  <2> QED BY <1>0, <2>2 DEF At
<1>2. ASSUME NEW n \in Pieces PROVE Merge!Target(n) = At(n) .. At(n) + chunks[n] - 1
  <2>1. Merge!Target(n) = Tasks + 1 + Before(n) .. Tasks + Before(n + 1)
    BY DEF Merge!Target, Tasks, Before
  <2>2. Before(n + 1) = Before(n) + chunks[n] /\ chunks[n] \in Nat /\ Before(n) \in Nat
    BY <1>0 DEF Pieces
  <2>3. Tasks + Before(n + 1) = At(n) + chunks[n] - 1
    BY <1>0, <2>2 DEF At
  <2> QED BY <2>1, <2>3 DEF At
<1>3. ASSUME NEW n \in Pieces, NEW m \in 0 .. n - 1 PROVE At(m) + chunks[m] <= At(n)
  <2>1. m \in Pieces /\ m + 1 \in 0 .. n /\ n \in 0 .. Tasks /\ m + 1 \in 0 .. Tasks
    BY <1>0 DEF Pieces
  <2>2. Before(m + 1) <= Before(n) /\ Before(m + 1) \in Nat /\ Before(n) \in Nat
        /\ Before(m + 1) = Before(m) + chunks[m] /\ chunks[m] \in Nat /\ Before(m) \in Nat
    BY <1>0, <2>1 DEF Pieces
  <2> QED BY <1>0, <2>2 DEF At
<1> QED BY <1>1, <1>2, <1>3

LEMMA BlockOf ==
  ASSUME NEW n \in Nat, NEW k \in 0 .. BlockSize - 1
  PROVE  (BlockSize * n + k) \div BlockSize = n /\ (BlockSize * n + k) % BlockSize = k
<1> DEFINE x == BlockSize * n + k
           q == x \div BlockSize
           r == x % BlockSize
<1>1. BlockSize * n \in Nat /\ x \in Nat
  BY BlocksGrow, MergeConstants
<1>2. q \in Nat /\ r \in 0 .. BlockSize - 1 /\ x = BlockSize * q + r
  <2> HIDE DEF x
  <2> QED BY <1>1, MergeConstants, Z3
<1>3. x = BlockSize * n + k
  OBVIOUS
<1> HIDE DEF x, q, r
<1>4. BlockSize * q \in Nat
  BY <1>2, BlocksGrow
<1>5. ~(q < n)
  <2> SUFFICES ASSUME q < n PROVE FALSE
    OBVIOUS
  <2>1. BlockSize * q + BlockSize <= BlockSize * n
    BY <1>2, BlocksGrow
  <2> QED BY <1>1, <1>2, <1>3, <1>4, <2>1, MergeConstants
<1>6. ~(n < q)
  <2> SUFFICES ASSUME n < q PROVE FALSE
    OBVIOUS
  <2>1. BlockSize * n + BlockSize <= BlockSize * q
    BY <1>2, BlocksGrow
  <2> QED BY <1>1, <1>2, <1>3, <1>4, <2>1, MergeConstants
<1>7. q = n
  BY <1>2, <1>5, <1>6
<1>8. r = k
  BY <1>1, <1>2, <1>3, <1>7, MergeConstants
<1> QED BY <1>7, <1>8 DEF q, r, x

LEMMA MergeStart == Merge!Init => MergeInv
<1> SUFFICES ASSUME Merge!Init PROVE MergeInv
  OBVIOUS
<1>1. Compressed
  BY DEF Merge!Init, Compressed, Pieces, Tasks
<1>2. /\ in_len \in Nat /\ Tasks \in Nat \ {0} /\ Before(0) = 0
      /\ \A n \in Pieces : chunks[n] \in Nat \ {0}
      /\ \A n \in Pieces : BlockSize * n \in Nat /\ BlockSize * n + chunks[n] <= in_len
  BY <1>1, PieceFacts
<1>3. Progress
  <2>1. dst_pos = Tasks + 1 /\ i = 0 /\ pc = "merge"
    BY DEF Merge!Init, Tasks
  <2>2. DOMAIN out = 0 .. in_len - 1
    BY DEF Merge!Init
  <2> QED BY <1>2, <2>1, <2>2 DEF Progress, At
<1>4. Moved /\ Written
  BY DEF Merge!Init, Moved, Written
<1>5. Unmoved
  <2> SUFFICES ASSUME NEW n \in 0 .. Tasks - 1, NEW k \in 0 .. chunks[n] - 1
               PROVE  out[BlockSize * n + k] = Merge!Unit(n, k)
    BY DEF Merge!Init, Unmoved
  <2>1. n \in Pieces /\ n \in Nat /\ chunks[n] \in Nat /\ BlockSize * n \in Nat
        /\ BlockSize * n + chunks[n] <= in_len
    BY <1>2 DEF Pieces
  <2>2. chunks[n] <= BlockSize
    <3>1. chunks[n] <= Merge!BlockLen(in_len, n)
      BY <1>1, <2>1 DEF Compressed, Merge!FitsBlock
    <3>2. (n + 1) * BlockSize = BlockSize * n + BlockSize /\ n * BlockSize = BlockSize * n
      BY <2>1, MergeConstants, Z3
    <3>3. Merge!BlockLen(in_len, n) \in Int /\ Merge!BlockLen(in_len, n) <= BlockSize
      BY <1>2, <2>1, <3>2, MergeConstants DEF Merge!BlockLen
    <3> QED BY <2>1, <3>1, <3>3, MergeConstants
  <2>3. k \in 0 .. BlockSize - 1 /\ BlockSize * n + k \in 0 .. in_len - 1
    BY <1>2, <2>1, <2>2, MergeConstants
  <2>4. (BlockSize * n + k) \div BlockSize = n /\ (BlockSize * n + k) % BlockSize = k
    BY <2>1, <2>3, BlockOf
  <2>5. PICK x \in 0 .. in_len - 1 : x = BlockSize * n + k
    BY <2>3
  <2>6. out[x] = IF x % BlockSize < chunks[x \div BlockSize]
                 THEN Merge!Unit(x \div BlockSize, x % BlockSize) ELSE Merge!Blank
    BY DEF Merge!Init
  <2>7. x \div BlockSize = n /\ x % BlockSize = k /\ k < chunks[n]
    BY <2>1, <2>4, <2>5
  <2> QED BY <2>5, <2>6, <2>7
<1> QED BY <1>1, <1>3, <1>4, <1>5 DEF MergeInv

(* What stays as it is while the pieces are merged. *)
LEMMA MergeChosen ==
  ASSUME UNCHANGED <<in_len, chunks>>
  PROVE  /\ Tasks' = Tasks /\ Pieces' = Pieces
         /\ \A n : At(n)' = At(n) /\ Merge!Target(n)' = Merge!Target(n)
         /\ \A n, k : Spared(n, k)' <=> Spared(n, k)
         /\ Compressed' <=> Compressed
<1>1. Tasks' = Tasks /\ Pieces' = Pieces
  BY DEF Tasks, Pieces, Merge!tasks_no, Merge!TasksNo
<1>2. \A n : At(n)' = At(n) /\ Merge!Target(n)' = Merge!Target(n)
  BY <1>1 DEF At, Before, Tasks, Merge!Target, Merge!SumTo, Merge!MapThenSumSet, Merge!MapThenFoldSet
<1>3. \A n, k : Spared(n, k)' <=> Spared(n, k)
  BY <1>2 DEF Spared
<1>4. Compressed' <=> Compressed
  BY <1>1 DEF Compressed, Merge!FitsBlock, Merge!BlockLen, Merge!WorthIt, Merge!SumTo, Merge!TasksNo,
         Merge!MapThenSumSet, Merge!MapThenFoldSet
<1> QED BY <1>1, <1>2, <1>3, <1>4

LEMMA MergePieceStep == MergeInv /\ Merge!MergePiece => MergeInv'
<1> SUFFICES ASSUME MergeInv, Merge!MergePiece PROVE MergeInv'
  OBVIOUS
<1>1. /\ Compressed /\ Progress /\ Moved /\ Unmoved
      /\ pc = "merge" /\ pc' = "merge" /\ UNCHANGED <<in_len, chunks>> /\ i' = i + 1
      /\ dst_pos' = dst_pos + chunks[i]
  BY DEF MergeInv, Merge!MergePiece
<1>2. /\ in_len \in Nat /\ Tasks \in Nat \ {0} /\ i \in Nat /\ i < Tasks /\ i \in Pieces
      /\ \A n \in Pieces : chunks[n] \in Nat \ {0}
      /\ \A n \in Pieces : BlockSize * n \in Nat /\ BlockSize * n + chunks[n] <= in_len
  <2>1. i < Tasks /\ i \in 0 .. Tasks
    BY <1>1 DEF Merge!MergePiece, Progress, Tasks
  <2> QED BY <1>1, <2>1, PieceFacts DEF Pieces
<1>3. /\ \A n \in Pieces : At(n) \in Nat /\ At(n) > Tasks /\ At(n + 1) = At(n) + chunks[n]
                           /\ Merge!Target(n) = At(n) .. At(n) + chunks[n] - 1
                           /\ At(n) + chunks[n] <= in_len
      /\ \A n \in Pieces : \A m \in 0 .. n - 1 : At(m) + chunks[m] <= At(n)
  BY <1>1, TargetFacts
<1>4. /\ Tasks' = Tasks /\ Pieces' = Pieces
      /\ \A n : At(n)' = At(n) /\ Merge!Target(n)' = Merge!Target(n)
      /\ \A n, k : Spared(n, k)' <=> Spared(n, k)
      /\ Compressed'
  BY <1>1, MergeChosen
<1>5. /\ DOMAIN out' = 0 .. in_len - 1
      /\ \A x \in 0 .. in_len - 1 :
           /\ x \in Merge!Target(i) => out'[x] = out[BlockSize * i + (x - At(i))]
           /\ x \notin Merge!Target(i) => out'[x] = out[x]
  <2>1. /\ out' = [x \in DOMAIN out |-> IF x \in dst_pos .. dst_pos + chunks[i] - 1
                                       THEN out[(BlockSize * i) + (x - dst_pos)] ELSE out[x]]
        /\ DOMAIN out = 0 .. in_len - 1 /\ dst_pos = At(i)
    BY <1>1 DEF Merge!MergePiece, Progress
  <2>2. Merge!Target(i) = dst_pos .. dst_pos + chunks[i] - 1
    BY <1>2, <1>3, <2>1
  <2> QED BY <2>1, <2>2
<1>6. \A m, n \in Pieces : m # n => Merge!Target(m) \cap Merge!Target(n) = {}
  <2> SUFFICES ASSUME NEW m \in Pieces, NEW n \in Pieces, m # n,
                      NEW x \in Merge!Target(m), x \in Merge!Target(n)
               PROVE  FALSE
    OBVIOUS
  <2>1. m \in 0 .. n - 1 \/ n \in 0 .. m - 1
    BY <1>2 DEF Pieces
  <2>2. /\ x \in At(m) .. At(m) + chunks[m] - 1 /\ x \in At(n) .. At(n) + chunks[n] - 1
        /\ At(m) \in Nat /\ At(n) \in Nat /\ chunks[m] \in Nat /\ chunks[n] \in Nat
    BY <1>2, <1>3
  <2>3. At(m) + chunks[m] <= At(n) \/ At(n) + chunks[n] <= At(m)
    BY <1>3, <2>1
  <2> QED BY <2>2, <2>3
<1>7. \A n \in Pieces : \A k \in 0 .. chunks[n] - 1 : At(n) + k \in Merge!Target(n) /\ At(n) + k \in 0 .. in_len - 1
  <2> SUFFICES ASSUME NEW n \in Pieces, NEW k \in 0 .. chunks[n] - 1
               PROVE  At(n) + k \in Merge!Target(n) /\ At(n) + k \in 0 .. in_len - 1
    OBVIOUS
  <2>1. /\ At(n) \in Nat /\ chunks[n] \in Nat /\ Merge!Target(n) = At(n) .. At(n) + chunks[n] - 1
        /\ At(n) + chunks[n] <= in_len
    BY <1>2, <1>3
  <2>2. k \in Nat /\ k < chunks[n] /\ in_len \in Nat
    BY <1>2, <2>1
  <2>3. At(n) + k \in At(n) .. At(n) + chunks[n] - 1 /\ At(n) + k \in 0 .. in_len - 1
    BY <2>1, <2>2
  <2> QED BY <2>1, <2>3
<1>8. Progress'
  <2>1. i' \in 0 .. Tasks /\ dst_pos' = At(i + 1)
    BY <1>1, <1>2, <1>3 DEF Progress
  <2>2. dst_pos' = At(i)'
    <3>1. At(i + 1) = Tasks + 1 + Merge!SumTo(chunks, i + 1)
      BY DEF At, Before
    <3>2. At(i)' = Tasks + 1 + Merge!SumTo(chunks, i + 1)
      BY <1>1, <1>4 DEF At, Before, Merge!SumTo, Merge!MapThenSumSet, Merge!MapThenFoldSet
    <3> QED BY <2>1, <3>1, <3>2
  <2> QED BY <1>1, <1>4, <1>5, <2>1, <2>2 DEF Progress
<1>9. Moved'
  <2> SUFFICES ASSUME NEW n \in 0 .. i, NEW k \in 0 .. chunks[n] - 1
               PROVE  /\ out'[At(n) + k] = Merge!Unit(n, k) <=> Spared(n, k)
                      /\ \A m \in Pieces : \A j \in Nat : m > n => out'[At(n) + k] # Merge!Unit(m, j)
    <3>1. (i + 1) - 1 = i
      BY <1>2
    <3> QED BY <1>1, <1>4, <3>1 DEF Moved
  <2>1. n \in Pieces /\ n \in Nat
    BY <1>2 DEF Pieces
  <2>2. At(n) + k \in Merge!Target(n) /\ At(n) + k \in 0 .. in_len - 1
    BY <1>7, <2>1
  <2>3. CASE n # i
    <3>1. n \in 0 .. i - 1 /\ At(n) + k \notin Merge!Target(i)
      BY <1>2, <1>6, <2>1, <2>2, <2>3
    <3>2. out'[At(n) + k] = out[At(n) + k]
      BY <1>5, <2>2, <3>1
    <3>3. /\ out[At(n) + k] = Merge!Unit(n, k) <=> Spared(n, k)
          /\ \A m \in Pieces : \A j \in Nat : m > n => out[At(n) + k] # Merge!Unit(m, j)
      BY <1>1, <3>1 DEF Moved
    <3> QED BY <3>2, <3>3
  <2>4. CASE n = i
    <3>1. k \in Nat /\ At(n) \in Nat /\ (At(n) + k) - At(n) = k
      BY <1>3, <2>1
    <3>2. out'[At(n) + k] = out[BlockSize * n + k]
      BY <1>5, <2>2, <2>4, <3>1
    <3>3. CASE Spared(n, k)
      <4>1. out[BlockSize * n + k] = Merge!Unit(n, k)
        <5>1. n \in i .. Tasks - 1 /\ \A m \in 0 .. i - 1 : BlockSize * n + k \notin Merge!Target(m)
          BY <1>2, <2>4, <3>3 DEF Spared
        <5> QED BY <1>1, <5>1 DEF Unmoved
      <4>2. \A m \in Pieces : \A j \in Nat : m > n => Merge!Unit(n, k) # Merge!Unit(m, j)
        BY <1>2, <2>1 DEF Merge!Unit, Pieces
      <4> QED BY <3>2, <3>3, <4>1, <4>2
    <3>4. CASE ~Spared(n, k)
      <4>1. PICK m \in 0 .. n - 1 : BlockSize * n + k \in Merge!Target(m)
        BY <3>4 DEF Spared
      <4>2. m \in Pieces /\ m \in 0 .. i - 1 /\ m < n
        BY <1>2, <2>1, <2>4, <4>1 DEF Pieces
      <4>3. PICK l \in 0 .. chunks[m] - 1 : BlockSize * n + k = At(m) + l
        <5>1. At(m) \in Nat /\ chunks[m] \in Nat /\ Merge!Target(m) = At(m) .. At(m) + chunks[m] - 1
          BY <1>2, <1>3, <4>2
        <5>2. \A x \in At(m) .. At(m) + chunks[m] - 1 : x - At(m) \in 0 .. chunks[m] - 1 /\ x = At(m) + (x - At(m))
          BY <5>1
        <5> QED BY <4>1, <5>1, <5>2
      <4>4. \A q \in Pieces : \A j \in Nat : q > m => out[At(m) + l] # Merge!Unit(q, j)
        BY <1>1, <4>2 DEF Moved
      <4>5. \A q \in Pieces : \A j \in Nat : q >= n => out'[At(n) + k] # Merge!Unit(q, j)
        <5>1. \A q \in Pieces : q >= n => q > m
          BY <2>1, <4>1 DEF Pieces
        <5> QED BY <3>2, <4>3, <4>4, <5>1
      <4>6. out'[At(n) + k] # Merge!Unit(n, k)
        <5>1. n >= n
          BY <2>1
        <5> QED BY <2>1, <3>1, <4>5, <5>1
      <4>7. \A q \in Pieces : q > n => q >= n
        BY <2>1 DEF Pieces
      <4> QED BY <3>4, <4>5, <4>6, <4>7
    <3> QED BY <3>3, <3>4
  <2> QED BY <2>3, <2>4
<1>10. Unmoved'
  <2> SUFFICES ASSUME NEW n \in i + 1 .. Tasks - 1, NEW k \in 0 .. chunks[n] - 1,
                      \A m \in 0 .. i : BlockSize * n + k \notin Merge!Target(m)
               PROVE  out'[BlockSize * n + k] = Merge!Unit(n, k)
    <3>1. (i + 1) - 1 = i
      BY <1>2
    <3> QED BY <1>1, <1>4, <3>1 DEF Unmoved
  <2>1. n \in Pieces /\ n \in i .. Tasks - 1 /\ i \in 0 .. i /\ \A m \in 0 .. i - 1 : m \in 0 .. i
    BY <1>2 DEF Pieces
  <2>2. out[BlockSize * n + k] = Merge!Unit(n, k)
    BY <1>1, <2>1 DEF Unmoved
  <2>3. BlockSize * n + k \in 0 .. in_len - 1
    <3>1. BlockSize * n \in Nat /\ chunks[n] \in Nat /\ BlockSize * n + chunks[n] <= in_len
      BY <1>2, <2>1
    <3> QED BY <1>2, <3>1
  <2>4. BlockSize * n + k \notin Merge!Target(i)
    BY <2>1
  <2> QED BY <1>5, <2>2, <2>3, <2>4
<1>11. Written'
  BY <1>1 DEF Written
<1> QED BY <1>4, <1>8, <1>9, <1>10, <1>11 DEF MergeInv

LEMMA WriteTableStep == MergeInv /\ Merge!WriteTable => MergeInv'
<1> SUFFICES ASSUME MergeInv, Merge!WriteTable PROVE MergeInv'
  OBVIOUS
<1>1. /\ Compressed /\ Progress /\ Moved
      /\ pc' = "merged" /\ UNCHANGED <<in_len, chunks, dst_pos, i>> /\ i = Tasks
  BY DEF MergeInv, Merge!WriteTable, Tasks
<1>2. /\ in_len \in Nat /\ Tasks \in Nat \ {0} /\ Tasks + 1 + Before(Tasks) <= in_len /\ Before(Tasks) \in Nat
      /\ \A n \in Pieces : chunks[n] \in Nat \ {0}
  BY <1>1, PieceFacts, RoomForTable
<1>3. \A n \in Pieces : At(n) \in Nat /\ At(n) > Tasks /\ At(n) + chunks[n] <= in_len
  BY <1>1, TargetFacts
<1>4. /\ Tasks' = Tasks /\ Pieces' = Pieces
      /\ \A n : At(n)' = At(n) /\ Merge!Target(n)' = Merge!Target(n)
      /\ \A n, k : Spared(n, k)' <=> Spared(n, k)
      /\ Compressed'
  BY <1>1, MergeChosen
<1>5. /\ DOMAIN out' = 0 .. in_len - 1
      /\ \A x \in 0 .. in_len - 1 :
           /\ x < Tasks => out'[x] = Merge!Entry(chunks[x])
           /\ x = Tasks => out'[x] = Merge!Entry(0)
           /\ x > Tasks => out'[x] = out[x]
  <2>1. /\ out' = [x \in DOMAIN out |->
                     IF x < Tasks THEN Merge!Entry(chunks[x])
                     ELSE IF x = Tasks THEN Merge!Entry(0) ELSE out[x]]
        /\ DOMAIN out = 0 .. in_len - 1
    BY <1>1 DEF Merge!WriteTable, Progress, Tasks
  <2>2. \A x \in 0 .. in_len - 1 : (x > Tasks => ~(x < Tasks) /\ x # Tasks) /\ (x = Tasks => ~(x < Tasks))
    BY <1>2
  <2> QED BY <2>1, <2>2
<1>6. Progress'
  <2>1. At(i)' = At(i)
    BY <1>1, <1>4 DEF At, Before, Merge!SumTo, Merge!MapThenSumSet, Merge!MapThenFoldSet
  <2> QED BY <1>1, <1>4, <1>5, <2>1 DEF Progress
<1>7. Moved'
  <2> SUFFICES ASSUME NEW n \in 0 .. i - 1, NEW k \in 0 .. chunks[n] - 1
               PROVE  /\ out'[At(n) + k] = Merge!Unit(n, k) <=> Spared(n, k)
                      /\ \A m \in Pieces : \A j \in Nat : m > n => out'[At(n) + k] # Merge!Unit(m, j)
    BY <1>1, <1>4 DEF Moved
  <2>1. n \in Pieces
    BY <1>1 DEF Pieces
  <2>2. At(n) \in Nat /\ At(n) > Tasks /\ At(n) + chunks[n] <= in_len /\ chunks[n] \in Nat
    BY <1>2, <1>3, <2>1
  <2>3. At(n) + k \in 0 .. in_len - 1 /\ At(n) + k > Tasks
    <3>1. k \in Nat /\ k < chunks[n] /\ in_len \in Nat /\ Tasks \in Nat
      BY <1>2, <2>2
    <3> QED BY <2>2, <3>1
  <2>4. out'[At(n) + k] = out[At(n) + k]
    BY <1>5, <2>3
  <2> QED BY <1>1, <2>4 DEF Moved
<1>8. Written'
  <2>1. \A n \in Pieces : n \in 0 .. in_len - 1 /\ n < Tasks
    BY <1>2 DEF Pieces
  <2>2. Tasks \in 0 .. in_len - 1
    BY <1>2
  <2> QED BY <1>1, <1>4, <1>5, <2>1, <2>2 DEF Written
<1>9. Unmoved'
  BY <1>1 DEF Unmoved
<1> QED BY <1>4, <1>6, <1>7, <1>8, <1>9 DEF MergeInv

LEMMA MergeStutter == MergeInv /\ UNCHANGED merge_vars => MergeInv'
<1> SUFFICES ASSUME MergeInv, UNCHANGED merge_vars PROVE MergeInv'
  OBVIOUS
<1>1. UNCHANGED <<in_len, chunks, out, dst_pos, i, pc>> /\ Compressed
  BY DEF merge_vars, MergeInv
<1>2. /\ Tasks' = Tasks /\ Pieces' = Pieces
      /\ \A n : At(n)' = At(n) /\ Merge!Target(n)' = Merge!Target(n)
      /\ \A n, k : Spared(n, k)' <=> Spared(n, k)
      /\ Compressed'
  BY <1>1, MergeChosen
<1>3. At(i)' = At(i)
  BY <1>1, <1>2 DEF At, Before, Merge!SumTo, Merge!MapThenSumSet, Merge!MapThenFoldSet
<1>4. Progress'
  BY <1>1, <1>2, <1>3 DEF MergeInv, Progress
<1>5. Moved'
  BY <1>1, <1>2 DEF MergeInv, Moved
<1>6. Unmoved' /\ Written'
  BY <1>1, <1>2 DEF MergeInv, Unmoved, Written
<1> QED BY <1>2, <1>4, <1>5, <1>6 DEF MergeInv

(* What the client reads in the table. *)
LEMMA TableRead ==
  ASSUME MergeInv, pc = "merged"
  PROVE  /\ Merge!TableEnd = Tasks
         /\ [x \in 0 .. Merge!TableEnd - 1 |-> out[x][2]] = chunks
<1>1. /\ \A n \in Pieces : out[n] = Merge!Entry(chunks[n])
      /\ out[Tasks] = Merge!Entry(0) /\ DOMAIN out = 0 .. in_len - 1 /\ Compressed
  BY DEF MergeInv, Progress, Written
<1>2. /\ in_len \in Nat /\ Tasks \in Nat \ {0} /\ Tasks + 1 + Before(Tasks) <= in_len /\ Before(Tasks) \in Nat
      /\ \A n \in Pieces : chunks[n] \in Nat \ {0}
  BY <1>1, PieceFacts, RoomForTable
<1>3. \A n \in Pieces : out[n] # Merge!Entry(0) /\ out[n][2] = chunks[n]
  BY <1>1, <1>2 DEF Merge!Entry
<1> DEFINE Ends(e) == out[e] = Merge!Entry(0) /\ \A x \in 0 .. e - 1 : out[x] # Merge!Entry(0)
<1>4. Tasks \in DOMAIN out /\ Ends(Tasks)
  BY <1>1, <1>2, <1>3 DEF Pieces
<1>5. \A e \in DOMAIN out : Ends(e) => e = Tasks
  <2> SUFFICES ASSUME NEW e \in DOMAIN out, Ends(e) PROVE e = Tasks
    OBVIOUS
  <2>1. ~(e < Tasks)
    BY <1>1, <1>2, <1>3 DEF Pieces
  <2>2. ~(e > Tasks)
    BY <1>1, <1>2
  <2> QED BY <1>1, <1>2, <2>1, <2>2
<1>6. Merge!TableEnd = CHOOSE e \in DOMAIN out : Ends(e)
  BY DEF Merge!TableEnd
<1>7. Merge!TableEnd = Tasks
  <2> HIDE DEF Ends
  <2> QED BY <1>4, <1>5, <1>6
<1>8. [x \in 0 .. Merge!TableEnd - 1 |-> out[x][2]] = chunks
  <2>1. 0 .. Merge!TableEnd - 1 = Pieces
    BY <1>7 DEF Pieces
  <2>2. chunks = [x \in Pieces |-> chunks[x]]
    BY <1>1 DEF Compressed
  <2> QED BY <1>3, <2>1, <2>2
<1> QED BY <1>7, <1>8

LEMMA DecodedIs ==
  ASSUME MergeInv, pc = "merged", NEW n \in Pieces
  PROVE  Merge!Decoded(n) = Merge!Sent(n) <=> \A k \in 0 .. chunks[n] - 1 : Spared(n, k)
<1>1. Merge!TableEnd = Tasks /\ [x \in 0 .. Merge!TableEnd - 1 |-> out[x][2]] = chunks
  BY TableRead
<1>2. Merge!Decoded(n) = [k \in 0 .. chunks[n] - 1 |-> out[At(n) + k]]
  <2> DEFINE size == [x \in 0 .. Merge!TableEnd - 1 |-> out[x][2]]
  <2>1. Merge!Decoded(n) = [k \in 0 .. size[n] - 1 |-> out[(Merge!TableEnd + 1 + Merge!SumTo(size, n)) + k]]
    BY DEF Merge!Decoded
  <2>2. size = chunks
    BY <1>1
  <2> HIDE DEF size
  <2> QED BY <1>1, <2>1, <2>2 DEF At, Before
<1>3. Merge!Sent(n) = [k \in 0 .. chunks[n] - 1 |-> Merge!Unit(n, k)]
  BY DEF Merge!Sent
<1>4. Merge!Decoded(n) = Merge!Sent(n) <=> \A k \in 0 .. chunks[n] - 1 : out[At(n) + k] = Merge!Unit(n, k)
  BY <1>2, <1>3
<1>5. \A k \in 0 .. chunks[n] - 1 : out[At(n) + k] = Merge!Unit(n, k) <=> Spared(n, k)
  <2>1. n \in 0 .. i - 1 /\ Moved
    BY DEF MergeInv, Progress, Pieces
  <2> QED BY <2>1 DEF Moved
<1> QED BY <1>4, <1>5

LEMMA MergeHolds == MergeInv => Merge!TypeOK /\ Merge!PiecesMerged
<1> SUFFICES ASSUME MergeInv PROVE Merge!TypeOK /\ Merge!PiecesMerged
  OBVIOUS
<1>1. Compressed /\ Progress
  BY DEF MergeInv
<1>2. /\ in_len \in Nat /\ Tasks \in Nat \ {0} /\ Tasks + 1 + Before(Tasks) <= in_len
      /\ \A n \in Pieces : chunks[n] \in Nat \ {0} /\ BlockSize * n \in Nat
      /\ \A n \in 0 .. Tasks : Before(n) \in Nat
      /\ \A n \in 0 .. Tasks : \A m \in 0 .. n : Before(m) <= Before(n)
  BY <1>1, PieceFacts
<1>3. dst_pos \in 0 .. Tasks + 1 + in_len
  <2>1. i \in 0 .. Tasks /\ Tasks \in 0 .. Tasks /\ dst_pos = Tasks + 1 + Before(i)
    BY <1>1, <1>2 DEF Progress, At
  <2>2. Before(i) \in Nat /\ Before(i) <= Before(Tasks) /\ Before(Tasks) \in Nat
    BY <1>2, <2>1
  <2> QED BY <1>2, <2>1, <2>2
<1>4. Merge!TypeOK
  BY <1>1, <1>3 DEF Merge!TypeOK, Compressed, Progress, Pieces, Tasks
<1>5. Merge!InBuffer
  <2> SUFFICES ASSUME i < Tasks PROVE dst_pos + chunks[i] <= in_len
    BY DEF Merge!InBuffer, Tasks
  <2>1. i \in Pieces /\ dst_pos = At(i)
    BY <1>1, <1>2 DEF Progress, Pieces
  <2> QED BY <1>1, <2>1, TargetFacts
<1>6. ASSUME pc = "merged" PROVE Merge!Intact <=> Merge!NoneCovered
  <2>1. Merge!Intact <=> \A n \in Pieces : \A k \in 0 .. chunks[n] - 1 : Spared(n, k)
    BY <1>6, DecodedIs DEF Merge!Intact, Pieces, Tasks
  <2>2. ASSUME NEW n \in Pieces, NEW m \in 0 .. n - 1
        PROVE  Merge!Target(m) \cap Merge!Source(n) = {}
                 <=> \A k \in 0 .. chunks[n] - 1 : BlockSize * n + k \notin Merge!Target(m)
    <3>1. BlockSize * n \in Nat /\ chunks[n] \in Nat
      BY <1>2
    <3> DEFINE b == BlockSize * n
    <3>2. Merge!Source(n) = b .. b + chunks[n] - 1
      BY DEF Merge!Source
    <3> HIDE DEF b
    <3>3. b \in Nat
      BY <3>1 DEF b
    <3>4. \A x \in b .. b + chunks[n] - 1 : x - b \in 0 .. chunks[n] - 1 /\ x = b + (x - b)
      BY <3>1, <3>3
    <3>5. \A k \in 0 .. chunks[n] - 1 : b + k \in b .. b + chunks[n] - 1
      BY <3>1, <3>3
    <3>6. Merge!Target(m) \cap Merge!Source(n) = {}
            <=> \A k \in 0 .. chunks[n] - 1 : b + k \notin Merge!Target(m)
      BY <3>2, <3>4, <3>5
    <3> QED BY <3>6 DEF b
  <2>3. Merge!NoneCovered <=> \A n \in Pieces : \A m \in 0 .. n - 1 : Merge!Target(m) \cap Merge!Source(n) = {}
    BY DEF Merge!NoneCovered, Pieces, Tasks
  <2>4. Merge!NoneCovered <=> \A n \in Pieces : \A k \in 0 .. chunks[n] - 1 : Spared(n, k)
    BY <2>2, <2>3 DEF Spared
  <2> QED BY <2>1, <2>4
<1> QED BY <1>4, <1>5, <1>6 DEF Merge!PiecesMerged, Merge!IntactUnlessCovered

(* What the invariant says of a behaviour about the merge.                  *)
MergePart == part = "merge" => MergeInv

LEMMA MergePartAlways == Spec => []MergePart
<1>1. Init => MergePart
  BY MergeStart DEF Init, MergePart
<1>2. MergePart /\ [Next]_vars => MergePart'
  <2> SUFFICES ASSUME MergePart, [Next]_vars, part' = "merge" PROVE MergeInv'
    BY DEF MergePart
  <2>1. CASE part = "merge" /\ Merge!Next
    BY <2>1, MergePieceStep, WriteTableStep DEF MergePart, Merge!Next
  <2>2. CASE part' = part /\ UNCHANGED merge_vars
    BY <2>2, MergeStutter DEF MergePart
  <2> QED BY <2>1, <2>2 DEF Next, vars
<1> QED BY <1>1, <1>2, PTL DEF Spec

(* The merge in place of a compressed answer (compress/engine.go), for any  *)
(* length and any sizes of the pieces: it never leaves the buffer, and the  *)
(* client reads what the workers made exactly if no piece is moved over a   *)
(* later one that is still in its block.                                    *)
THEOREM PiecesAlwaysMerged == Spec => []PiecesMerged
<1>1. MergePart => PiecesMerged
  BY MergeHolds DEF MergePart, PiecesMerged
<1> QED BY <1>1, MergePartAlways, PTL

-----------------------------------------------------------------------------
(* The parameters of a message. *)

Byte == 0 .. Base - 1

LEMMA MessageConstants ==
  /\ Base \in Nat /\ Base > 1 /\ MaxParams \in Nat
  /\ Message!Word \in Nat /\ Message!Word > 0
  /\ \A x \in Guids \cup Keys : x \in Seq(Byte) /\ Len(x) < Message!Word
  /\ \A v \in Vals : v \in Seq(Byte) /\ Len(v) < Message!Word * Message!Word
<1>1. Base \in Nat /\ Base > 1 /\ MaxParams \in Nat
  BY PartsAssumption DEF Message!MessageAssumption
<1>2. Base * Base \in Nat /\ Base * Base > 0
  BY <1>1
<1>3. Base * Base * Base * Base = (Base * Base) * (Base * Base)
  BY <1>1
<1> QED BY <1>1, <1>2, <1>3, PartsAssumption DEF Message!MessageAssumption, Message!Word, Byte

LEMMA Division ==
  ASSUME NEW n \in Nat, NEW b \in Nat, b > 0
  PROVE  n \div b \in Nat /\ n % b \in 0 .. b - 1 /\ n = b * (n \div b) + (n % b)
OBVIOUS

LEMMA SmallRemainder ==
  ASSUME NEW n \in Nat, NEW b \in Nat, n < b
  PROVE  n % b = n
OBVIOUS

LEMMA SmallQuotient ==
  ASSUME NEW n \in Nat, NEW b \in Nat, NEW c \in Nat, b > 0, n < b * c
  PROVE  n \div b < c
<1> DEFINE d == n \div b
<1>1. d \in Nat /\ n >= b * d
  BY Division
<1> HIDE DEF d
<1>2. ASSUME d >= c PROVE FALSE
  <2>1. b * d >= b * c
    BY <1>1, <1>2
  <2>2. b * d \in Nat /\ b * c \in Nat
    BY <1>1
  <2> QED BY <1>1, <2>1, <2>2
<1>3. d < c
  BY <1>1, <1>2
<1> QED BY <1>3 DEF d

LEMMA Pack2Facts ==
  ASSUME NEW n \in Nat
  PROVE  Message!Pack2(n) \in Seq(Byte) /\ Len(Message!Pack2(n)) = 2
<1>1. Base \in Nat /\ Base > 0
  BY MessageConstants
<1>2. n % Base \in Byte
  BY <1>1, Division DEF Byte
<1>3. n \div Base \in Nat
  BY <1>1, Division
<1>4. (n \div Base) % Base \in Byte
  BY <1>1, <1>3, Division DEF Byte
<1> QED BY <1>2, <1>4 DEF Message!Pack2

(* Two bytes are read as the number that was written.                       *)
LEMMA Read2 ==
  ASSUME NEW n \in Nat, n < Message!Word, NEW m,
         m[1] = Message!Pack2(n)[1], m[2] = Message!Pack2(n)[2]
  PROVE  Message!Unpack2(m) = n
<1>1. Base \in Nat /\ Base > 0
  BY MessageConstants
<1>2. n \div Base \in Nat /\ n \div Base < Base
  BY <1>1, Division, SmallQuotient DEF Message!Word
<1>3. (n \div Base) % Base = n \div Base
  BY <1>1, <1>2, SmallRemainder
<1>4. m[1] = n % Base /\ m[2] = n \div Base
  BY <1>3 DEF Message!Pack2
<1>5. n = Base * (n \div Base) + (n % Base) /\ n % Base \in Nat
  BY <1>1, Division
<1>6. Base * (n \div Base) \in Nat
  BY <1>1, <1>2
<1> QED BY <1>4, <1>5, <1>6 DEF Message!Unpack2

LEMMA SkipFacts ==
  ASSUME NEW m \in Seq(Byte), NEW n \in 0 .. Len(m)
  PROVE  /\ Message!Skip(m, n) \in Seq(Byte) /\ Len(Message!Skip(m, n)) = Len(m) - n
         /\ \A j \in 1 .. Len(m) - n : Message!Skip(m, n)[j] = m[n + j]
<1>1. Len(m) \in Nat /\ \A j \in 1 .. Len(m) : m[j] \in Byte
  BY SeqFacts
<1>2. n + 1 \in Int /\ Len(m) \in Int /\ \A j \in n + 1 .. Len(m) : m[j] \in Byte
  BY <1>1
<1> DEFINE s == SubSeq(m, n + 1, Len(m))
<1>3. /\ s \in Seq(Byte) /\ Len(s) = IF n + 1 <= Len(m) THEN Len(m) - (n + 1) + 1 ELSE 0
      /\ \A j \in 1 .. Len(m) - (n + 1) + 1 : s[j] = m[n + 1 + j - 1]
  BY <1>2, SubSeqProperties
<1> HIDE DEF s
<1>4. Len(m) - (n + 1) + 1 = Len(m) - n /\ \A j \in 1 .. Len(m) - n : n + 1 + j - 1 = n + j
  BY <1>1
<1>5. Len(s) = Len(m) - n
  <2>1. Len(s) = IF n + 1 <= Len(m) THEN Len(m) - n ELSE 0
    BY <1>3, <1>4
  <2>2. ~(n + 1 <= Len(m)) => Len(m) - n = 0
    BY <1>1
  <2> QED BY <2>1, <2>2
<1>6. \A j \in 1 .. Len(m) - n : s[j] = m[n + j]
  BY <1>3, <1>4
<1> QED BY <1>3, <1>5, <1>6 DEF s, Message!Skip

LEMMA Pack4Facts ==
  ASSUME NEW n \in Nat
  PROVE  /\ Message!Pack4(n) \in Seq(Byte) /\ Len(Message!Pack4(n)) = 4
         /\ \A j \in 1 .. 2 : Message!Pack4(n)[j] = Message!Pack2(n % Message!Word)[j]
         /\ \A j \in 1 .. 2 : Message!Pack4(n)[2 + j]
                                = Message!Pack2((n \div Message!Word) % Message!Word)[j]
<1>1. Message!Word \in Nat /\ Message!Word > 0
  BY MessageConstants
<1>2. PICK a \in Nat : a = n % Message!Word
  BY <1>1, Division
<1>3. PICK b \in Nat : b = (n \div Message!Word) % Message!Word
  BY <1>1, Division
<1> DEFINE x == Message!Pack2(a)
           y == Message!Pack2(b)
<1>4. x \in Seq(Byte) /\ Len(x) = 2 /\ y \in Seq(Byte) /\ Len(y) = 2
  BY <1>2, <1>3, Pack2Facts
<1>5. Message!Pack4(n) = x \o y
  BY <1>2, <1>3 DEF Message!Pack4
<1> HIDE DEF x, y
<1>6. /\ x \o y \in Seq(Byte) /\ Len(x \o y) = Len(x) + Len(y)
      /\ \A j \in 1 .. Len(x) + Len(y) : (x \o y)[j] = IF j <= Len(x) THEN x[j] ELSE y[j - Len(x)]
  BY <1>4, ConcatProperties
<1>7. \A j \in 1 .. 2 : (x \o y)[j] = x[j] /\ (x \o y)[2 + j] = y[j]
  BY <1>4, <1>6
<1>8. Len(x \o y) = 4
  BY <1>4, <1>6
<1> QED BY <1>2, <1>3, <1>5, <1>6, <1>7, <1>8 DEF x, y

(* Four bytes are. *)
LEMMA Read4 ==
  ASSUME NEW n \in Nat, n < Message!Word * Message!Word, NEW m \in Seq(Byte), Len(m) >= 4,
         \A j \in 1 .. 4 : m[j] = Message!Pack4(n)[j]
  PROVE  Message!Unpack4(m) = n
<1> DEFINE w == Message!Word
           low == n % w
           high == n \div w
<1>1. w \in Nat /\ w > 0
  BY MessageConstants
<1>2. low \in 0 .. w - 1 /\ high \in Nat /\ n = w * high + low
  BY <1>1, Division
<1>3. high < w
  BY <1>1, SmallQuotient
<1>4. high % w = high
  BY <1>1, <1>2, <1>3, SmallRemainder
<1>5. /\ m[1] = Message!Pack2(low)[1] /\ m[2] = Message!Pack2(low)[2]
      /\ m[3] = Message!Pack2(high)[1] /\ m[4] = Message!Pack2(high)[2]
  <2>1. /\ \A j \in 1 .. 2 : Message!Pack4(n)[j] = Message!Pack2(low)[j]
        /\ \A j \in 1 .. 2 : Message!Pack4(n)[2 + j] = Message!Pack2(high)[j]
    BY <1>4, Pack4Facts
  <2> HIDE DEF low, high
  <2>2. 2 + 1 = 3 /\ 2 + 2 = 4 /\ 1 \in 1 .. 2 /\ 2 \in 1 .. 2
    OBVIOUS
  <2> QED BY <2>1, <2>2
<1> HIDE DEF low, high
<1>6. Message!Unpack2(m) = low
  <2>1. low \in Nat /\ low < w
    BY <1>1, <1>2
  <2> QED BY <1>5, <2>1, Read2
<1>7. Message!Unpack2(Message!Skip(m, 2)) = high
  <2>1. Len(m) \in Nat /\ 2 \in 0 .. Len(m)
    BY SeqFacts
  <2>2. \A j \in 1 .. Len(m) - 2 : Message!Skip(m, 2)[j] = m[2 + j]
    BY <2>1, SkipFacts
  <2>3. Message!Skip(m, 2)[1] = m[3] /\ Message!Skip(m, 2)[2] = m[4]
    <3>1. 1 \in 1 .. Len(m) - 2 /\ 2 \in 1 .. Len(m) - 2 /\ 2 + 1 = 3 /\ 2 + 2 = 4
      BY <2>1
    <3> QED BY <2>2, <3>1
  <2> QED BY <1>2, <1>3, <1>5, <2>3, Read2
<1>8. Message!Unpack4(m) = low + w * high
  BY <1>6, <1>7 DEF Message!Unpack4
<1>9. w * high \in Nat
  BY <1>1, <1>2
<1> QED BY <1>2, <1>8, <1>9

(* Where the fields of a parameter are. *)
LEMMA ParamFields ==
  ASSUME NEW p \in Keys \X Vals
  PROVE  LET e == Message!EncodeParam(p) IN
         /\ p[1] \in Seq(Byte) /\ Len(p[1]) \in Nat /\ Len(p[1]) < Message!Word
         /\ p[2] \in Seq(Byte) /\ Len(p[2]) \in Nat /\ Len(p[2]) < Message!Word * Message!Word
         /\ e \in Seq(Byte) /\ Len(e) = 6 + Len(p[1]) + Len(p[2])
         /\ \A j \in 1 .. 2 : e[j] = Message!Pack2(Len(p[1]))[j]
         /\ \A j \in 1 .. 4 : e[2 + j] = Message!Pack4(Len(p[2]))[j]
         /\ \A j \in 1 .. Len(p[1]) : e[6 + j] = p[1][j]
         /\ \A j \in 1 .. Len(p[2]) : e[6 + Len(p[1]) + j] = p[2][j]
<1> DEFINE k == p[1]
           v == p[2]
           a == Message!Pack2(Len(k))
           b == Message!Pack4(Len(v))
<1>1. k \in Seq(Byte) /\ Len(k) < Message!Word /\ v \in Seq(Byte) /\ Len(v) < Message!Word * Message!Word
  BY MessageConstants
<1>2. Len(k) \in Nat /\ Len(v) \in Nat
  BY <1>1, SeqFacts
<1>3. a \in Seq(Byte) /\ Len(a) = 2
  BY <1>2, Pack2Facts
<1>4. b \in Seq(Byte) /\ Len(b) = 4
  BY <1>2, Pack4Facts
<1>5. Message!EncodeParam(p) = ((a \o b) \o k) \o v
  BY DEF Message!EncodeParam
<1> HIDE DEF a, b, k, v
<1> DEFINE ab == a \o b
           abk == ab \o k
           e == abk \o v
<1>6. /\ ab \in Seq(Byte) /\ Len(ab) = 6
      /\ \A j \in 1 .. 2 : ab[j] = a[j]
      /\ \A j \in 1 .. 4 : ab[2 + j] = b[j]
  <2>1. /\ a \o b \in Seq(Byte) /\ Len(a \o b) = Len(a) + Len(b)
        /\ \A j \in 1 .. Len(a) + Len(b) :
             (a \o b)[j] = IF j <= Len(a) THEN a[j] ELSE b[j - Len(a)]
    BY <1>3, <1>4, ConcatProperties
  <2> DEFINE s == a \o b
  <2> HIDE DEF s
  <2>2. s \in Seq(Byte) /\ Len(s) = 2 + 4
    BY <1>3, <1>4, <2>1 DEF s
  <2>3. \A j \in 1 .. 2 : s[j] = a[j]
    BY <1>2, <1>3, <1>4, <2>1 DEF s
  <2>4. ASSUME NEW j \in 1 .. 4 PROVE s[2 + j] = b[j]
    <3>1. 2 + j \in 1 .. 2 + 4 /\ ~(2 + j <= 2) /\ (2 + j) - 2 = j
      OBVIOUS
    <3>2. s[2 + j] = b[(2 + j) - 2]
      BY <1>3, <1>4, <2>1, <3>1 DEF s
    <3> QED BY <3>1, <3>2
  <2> QED BY <1>2, <2>2, <2>3, <2>4 DEF s, ab
<1> HIDE DEF ab
<1>7. /\ abk \in Seq(Byte) /\ Len(abk) = 6 + Len(k)
      /\ \A j \in 1 .. 6 : abk[j] = ab[j]
      /\ \A j \in 1 .. Len(k) : abk[6 + j] = k[j]
  <2>1. /\ ab \o k \in Seq(Byte) /\ Len(ab \o k) = Len(ab) + Len(k)
        /\ \A j \in 1 .. Len(ab) + Len(k) :
             (ab \o k)[j] = IF j <= Len(ab) THEN ab[j] ELSE k[j - Len(ab)]
    BY <1>1, <1>6, ConcatProperties
  <2> DEFINE s == ab \o k
  <2> HIDE DEF s
  <2>2. s \in Seq(Byte) /\ Len(s) = 6 + Len(k)
    BY <1>1, <1>6, <2>1 DEF s
  <2>3. \A j \in 1 .. 6 : s[j] = ab[j]
    BY <1>2, <1>1, <1>6, <2>1 DEF s
  <2>4. \A j \in 1 .. Len(k) : s[6 + j] = k[j]
    BY <1>2, <1>1, <1>6, <2>1 DEF s
  <2> QED BY <1>2, <2>2, <2>3, <2>4 DEF s, abk
<1> HIDE DEF abk
<1>8. /\ e \in Seq(Byte) /\ Len(e) = (6 + Len(k)) + Len(v)
      /\ \A j \in 1 .. 6 + Len(k) : e[j] = abk[j]
      /\ \A j \in 1 .. Len(v) : e[(6 + Len(k)) + j] = v[j]
  <2>1. /\ abk \o v \in Seq(Byte) /\ Len(abk \o v) = Len(abk) + Len(v)
        /\ \A j \in 1 .. Len(abk) + Len(v) :
             (abk \o v)[j] = IF j <= Len(abk) THEN abk[j] ELSE v[j - Len(abk)]
    <3>1. abk \in Seq(Byte) /\ v \in Seq(Byte)
      BY <1>1, <1>7
    <3> QED BY <3>1, ConcatProperties
  <2> DEFINE s == abk \o v
  <2> HIDE DEF s
  <2>2. s \in Seq(Byte) /\ Len(s) = (6 + Len(k)) + Len(v)
    BY <1>1, <1>7, <2>1 DEF s
  <2>3. \A j \in 1 .. (6 + Len(k)) : s[j] = abk[j]
    BY <1>2, <1>1, <1>7, <2>1 DEF s
  <2>4. \A j \in 1 .. Len(v) : s[(6 + Len(k)) + j] = v[j]
    BY <1>2, <1>1, <1>7, <2>1 DEF s
  <2> QED BY <1>2, <2>2, <2>3, <2>4 DEF s, e
<1>9. Message!EncodeParam(p) = e
  BY <1>5 DEF ab, abk
<1> HIDE DEF e
<1>10. \A j \in 1 .. 2 : e[j] = a[j]
  <2>1. \A j \in 1 .. 2 : j \in 1 .. 6 /\ j \in 1 .. 6 + Len(k)
    BY <1>2
  <2> QED BY <1>6, <1>7, <1>8, <2>1
<1>11. \A j \in 1 .. 4 : e[2 + j] = b[j]
  <2>1. \A j \in 1 .. 4 : 2 + j \in 1 .. 6 /\ 2 + j \in 1 .. 6 + Len(k)
    BY <1>2
  <2> QED BY <1>6, <1>7, <1>8, <2>1
<1>12. \A j \in 1 .. Len(k) : e[6 + j] = k[j]
  <2>1. \A j \in 1 .. Len(k) : 6 + j \in 1 .. 6 + Len(k)
    BY <1>2
  <2> QED BY <1>7, <1>8, <2>1
<1> QED BY <1>1, <1>2, <1>8, <1>9, <1>10, <1>11, <1>12 DEF k, v, a, b

-----------------------------------------------------------------------------
(* A message up to its n-th parameter. *)

Code(n) == Message!Encode(guid, Message!Sent(n))

LEMMA ListFacts ==
  ASSUME data \in Message!Lists
  PROVE  /\ data \in Seq(Keys \X Vals) /\ Len(data) \in 0 .. MaxParams
         /\ DOMAIN data = 1 .. Len(data)
         /\ \A j \in 1 .. Len(data) : data[j] \in Keys \X Vals
<1>1. PICK n \in 0 .. MaxParams : data \in [1 .. n -> Keys \X Vals]
  BY DEF Message!Lists
<1>2. n \in Nat
  BY <1>1, MessageConstants
<1>3. data \in Seq(Keys \X Vals)
  BY <1>1, <1>2, IsASeq
<1>4. Len(data) = n
  BY <1>1, <1>2, <1>3, LenProperties
<1> QED BY <1>1, <1>3, <1>4

LEMMA SentFacts ==
  ASSUME data \in Message!Lists, NEW n \in 0 .. Len(data)
  PROVE  /\ Message!Sent(n) \in Seq(Keys \X Vals) /\ Len(Message!Sent(n)) = n
         /\ DOMAIN Message!Sent(n) = 1 .. n
         /\ \A j \in 1 .. n : Message!Sent(n)[j] = data[j]
<1>1. Len(data) \in Nat /\ \A j \in 1 .. Len(data) : data[j] \in Keys \X Vals
  BY ListFacts, MessageConstants
<1>2. 1 \in Int /\ n \in Int /\ \A j \in 1 .. n : data[j] \in Keys \X Vals
  BY <1>1
<1> DEFINE s == SubSeq(data, 1, n)
<1>3. /\ s \in Seq(Keys \X Vals) /\ Len(s) = IF 1 <= n THEN n - 1 + 1 ELSE 0
      /\ \A j \in 1 .. n - 1 + 1 : s[j] = data[1 + j - 1]
  BY <1>2, SubSeqProperties
<1> HIDE DEF s
<1>4. n - 1 + 1 = n /\ \A j \in 1 .. n : 1 + j - 1 = j
  BY <1>1
<1>5. Len(s) = n /\ \A j \in 1 .. n : s[j] = data[j]
  BY <1>1, <1>3, <1>4
<1>6. DOMAIN s = 1 .. n
  BY <1>3, <1>5, SeqFacts
<1> QED BY <1>3, <1>5, <1>6 DEF s, Message!Sent

LEMMA SentAll ==
  ASSUME data \in Message!Lists
  PROVE  Message!Sent(Len(data)) = data
<1>1. Len(data) \in 0 .. Len(data) /\ data \in Seq(Keys \X Vals)
  BY ListFacts, MessageConstants
<1>2. /\ Message!Sent(Len(data)) \in Seq(Keys \X Vals)
      /\ Len(Message!Sent(Len(data))) = Len(data)
      /\ \A j \in 1 .. Len(data) : Message!Sent(Len(data))[j] = data[j]
  BY <1>1, SentFacts
<1> QED BY <1>1, <1>2, SeqEqual

LEMMA SentNext ==
  ASSUME data \in Message!Lists, NEW n \in 0 .. Len(data) - 1
  PROVE  Message!Sent(n + 1) = Append(Message!Sent(n), data[n + 1])
<1>1. n \in 0 .. Len(data) /\ n + 1 \in 0 .. Len(data) /\ n + 1 \in 1 .. Len(data)
  BY ListFacts, MessageConstants
<1> DEFINE a == Message!Sent(n)
           b == Message!Sent(n + 1)
           c == Append(a, data[n + 1])
<1>2. a \in Seq(Keys \X Vals) /\ Len(a) = n /\ \A j \in 1 .. n : a[j] = data[j]
  BY <1>1, SentFacts
<1>3. b \in Seq(Keys \X Vals) /\ Len(b) = n + 1 /\ \A j \in 1 .. n + 1 : b[j] = data[j]
  BY <1>1, SentFacts
<1>4. data[n + 1] \in Keys \X Vals
  BY <1>1, ListFacts
<1> HIDE DEF a, b
<1>5. /\ c \in Seq(Keys \X Vals) /\ Len(c) = n + 1
      /\ \A j \in 1 .. n : c[j] = a[j]
      /\ c[n + 1] = data[n + 1]
  BY <1>2, <1>4, AppendProperties
<1> HIDE DEF c
<1>6. \A j \in 1 .. n + 1 : b[j] = c[j]
  <2>1. \A j \in 1 .. n + 1 : j \in 1 .. n \/ j = n + 1
    BY <1>1
  <2> QED BY <1>2, <1>3, <1>5, <2>1
<1>7. b = c
  BY <1>3, <1>5, <1>6, SeqEqual
<1> QED BY <1>7 DEF a, b, c

(* The codes of the parameters of a list. *)
Codes(d) == [j \in DOMAIN d |-> Message!EncodeParam(d[j])]

LEMMA CodesFacts ==
  ASSUME NEW d \in Seq(Keys \X Vals)
  PROVE  /\ Codes(d) \in Seq(Seq(Byte))
         /\ \A p \in Keys \X Vals : Codes(Append(d, p)) = Append(Codes(d), Message!EncodeParam(p))
<1> DEFINE Q(p) == Message!EncodeParam(p)
<1>1. \A p \in Keys \X Vals : Q(p) \in Seq(Byte)
  BY ParamFields
<1> HIDE DEF Q
<1>2. DOMAIN d = 1 .. Len(d) /\ Len(d) \in Nat /\ \A j \in 1 .. Len(d) : d[j] \in Keys \X Vals
  BY SeqFacts
<1> DEFINE c == [j \in 1 .. Len(d) |-> Q(d[j])]
<1>3. c \in Seq(Seq(Byte)) /\ Len(c) = Len(d) /\ \A j \in 1 .. Len(d) : c[j] = Q(d[j])
  <2>1. c \in [1 .. Len(d) -> Seq(Byte)]
    BY <1>1, <1>2
  <2>2. c \in Seq(Seq(Byte))
    BY <1>2, <2>1, IsASeq
  <2> QED BY <1>2, <2>1, <2>2, LenProperties
<1>4. Codes(d) = c
  BY <1>2 DEF Codes, Q
<1> HIDE DEF c
<1>5. ASSUME NEW p \in Keys \X Vals
      PROVE  Codes(Append(d, p)) = Append(c, Q(p))
  <2> DEFINE a == Append(d, p)
             x == [j \in 1 .. Len(d) + 1 |-> Q(a[j])]
             y == Append(c, Q(p))
  <2>1. /\ a \in Seq(Keys \X Vals) /\ Len(a) = Len(d) + 1 /\ a[Len(d) + 1] = p
        /\ \A j \in 1 .. Len(d) : a[j] = d[j]
    BY AppendProperties
  <2>2. DOMAIN a = 1 .. Len(d) + 1 /\ \A j \in 1 .. Len(d) + 1 : a[j] \in Keys \X Vals
    BY <2>1, SeqFacts
  <2>3. Codes(a) = x
    BY <2>2 DEF Codes, Q
  <2>4. x \in Seq(Seq(Byte)) /\ Len(x) = Len(d) + 1 /\ \A j \in 1 .. Len(d) + 1 : x[j] = Q(a[j])
    <3>1. x \in [1 .. Len(d) + 1 -> Seq(Byte)] /\ Len(d) + 1 \in Nat
      BY <1>1, <1>2, <2>2
    <3>2. x \in Seq(Seq(Byte))
      BY <3>1, IsASeq
    <3> QED BY <3>1, <3>2, LenProperties
  <2> HIDE DEF a, x
  <2>5. /\ y \in Seq(Seq(Byte)) /\ Len(y) = Len(d) + 1
        /\ \A j \in 1 .. Len(d) : y[j] = c[j]
        /\ y[Len(d) + 1] = Q(p)
    <3>1. Q(p) \in Seq(Byte)
      BY <1>1
    <3> DEFINE B == Seq(Byte)
    <3>2. c \in Seq(B) /\ Q(p) \in B
      BY <1>3, <3>1
    <3> HIDE DEF B
    <3>3. /\ y \in Seq(B) /\ Len(y) = Len(c) + 1
          /\ \A j \in 1 .. Len(c) : y[j] = c[j]
          /\ y[Len(c) + 1] = Q(p)
      BY <3>2, AppendProperties
    <3> QED BY <1>3, <3>3 DEF B
  <2> HIDE DEF y
  <2>6. \A j \in 1 .. Len(d) + 1 : x[j] = y[j]
    <3>1. \A j \in 1 .. Len(d) + 1 : j \in 1 .. Len(d) \/ j = Len(d) + 1
      BY <1>2
    <3> QED BY <1>3, <2>1, <2>4, <2>5, <3>1
  <2>7. x = y
    BY <2>4, <2>5, <2>6, SeqEqual
  <2> QED BY <2>3, <2>7 DEF a, y
<1> QED BY <1>3, <1>4, <1>5 DEF Q

Flat(n) == Message!FlattenSeq(Codes(Message!Sent(n)))

LEMMA FlatNext ==
  ASSUME data \in Message!Lists, NEW n \in 0 .. Len(data) - 1
  PROVE  Flat(n + 1) = Flat(n) \o Message!EncodeParam(data[n + 1])
<1>1. n \in 0 .. Len(data) /\ n + 1 \in 1 .. Len(data)
  BY ListFacts, MessageConstants
<1>2. data[n + 1] \in Keys \X Vals
  BY <1>1, ListFacts
<1> DEFINE q == Codes(Message!Sent(n))
           m == Message!EncodeParam(data[n + 1])
<1>3. q \in Seq(Seq(Byte)) /\ Codes(Message!Sent(n + 1)) = Append(q, m)
  <2>1. Message!Sent(n) \in Seq(Keys \X Vals)
    BY <1>1, SentFacts
  <2> QED BY <1>2, <2>1, SentNext, CodesFacts
<1>4. m \in Seq(Byte)
  BY <1>2, ParamFields
<1> HIDE DEF q, m
<1>5. Udp!FlattenSeq(Append(q, m)) = Udp!FlattenSeq(q) \o m
  BY <1>3, <1>4, FlattenAppend
<1>6. \A r : Udp!FlattenSeq(r) = Message!FlattenSeq(r)
  BY DEF Udp!FlattenSeq, Message!FlattenSeq
<1> QED BY <1>3, <1>5, <1>6 DEF Flat, q, m

LEMMA FlatFacts ==
  ASSUME data \in Message!Lists
  PROVE  Flat(0) = <<>> /\ \A n \in 0 .. Len(data) : Flat(n) \in Seq(Byte)
<1>1. Len(data) \in Nat /\ 0 \in 0 .. Len(data)
  BY ListFacts, MessageConstants
<1>2. Flat(0) = <<>>
  <2>1. Len(Message!Sent(0)) = 0 /\ DOMAIN Message!Sent(0) = 1 .. 0
    BY <1>1, SentFacts
  <2>2. Codes(Message!Sent(0)) = <<>>
    <3>1. Codes(Message!Sent(0)) = [j \in 1 .. 0 |-> Message!EncodeParam(Message!Sent(0)[j])]
      BY <2>1 DEF Codes
    <3>2. 1 .. 0 = {}
      OBVIOUS
    <3> QED BY <3>1, <3>2
  <2> QED BY <2>2 DEF Flat, Message!FlattenSeq
<1> DEFINE T == {n \in Nat : n <= Len(data) => Flat(n) \in Seq(Byte)}
<1>3. 0 \in T
  <2>1. Flat(0) \in Seq(Byte)
    BY <1>2, EmptySeq
  <2> QED BY <2>1
<1>4. ASSUME NEW n \in Nat, n \in T PROVE n + 1 \in T
  <2> SUFFICES ASSUME n + 1 <= Len(data) PROVE Flat(n + 1) \in Seq(Byte)
    OBVIOUS
  <2>1. n \in 0 .. Len(data) - 1 /\ n <= Len(data) /\ n + 1 \in 1 .. Len(data)
    BY <1>1
  <2>2. Flat(n) \in Seq(Byte)
    BY <1>4, <2>1
  <2>3. Message!EncodeParam(data[n + 1]) \in Seq(Byte)
    BY <2>1, ListFacts, ParamFields
  <2>4. Flat(n + 1) = Flat(n) \o Message!EncodeParam(data[n + 1])
    BY <2>1, FlatNext
  <2> QED BY <2>2, <2>3, <2>4, ConcatProperties
<1>5. Nat \subseteq T
  <2> HIDE DEF T
  <2> QED BY <1>3, <1>4, AllNumbers
<1> QED BY <1>1, <1>2, <1>5

Lead == Message!Pack2(Len(guid)) \o guid

LEMMA LeadFacts ==
  ASSUME guid \in Guids
  PROVE  /\ guid \in Seq(Byte) /\ Len(guid) \in Nat /\ Len(guid) < Message!Word
         /\ Lead \in Seq(Byte) /\ Len(Lead) = 2 + Len(guid)
         /\ \A j \in 1 .. 2 : Lead[j] = Message!Pack2(Len(guid))[j]
<1>1. guid \in Seq(Byte) /\ Len(guid) < Message!Word
  BY MessageConstants
<1>2. Len(guid) \in Nat
  BY <1>1, SeqFacts
<1> DEFINE a == Message!Pack2(Len(guid))
<1>3. a \in Seq(Byte) /\ Len(a) = 2
  BY <1>2, Pack2Facts
<1> HIDE DEF a
<1>4. /\ a \o guid \in Seq(Byte) /\ Len(a \o guid) = Len(a) + Len(guid)
      /\ \A j \in 1 .. Len(a) + Len(guid) :
           (a \o guid)[j] = IF j <= Len(a) THEN a[j] ELSE guid[j - Len(a)]
  BY <1>1, <1>3, ConcatProperties
<1>5. \A j \in 1 .. 2 : (a \o guid)[j] = a[j]
  BY <1>2, <1>3, <1>4
<1>6. Lead = a \o guid
  BY DEF Lead, a
<1> QED BY <1>1, <1>2, <1>3, <1>4, <1>5, <1>6 DEF a

LEMMA CodeIs ==
  ASSUME data \in Message!Lists, guid \in Guids, NEW n \in 0 .. Len(data)
  PROVE  Code(n) = Lead \o Flat(n) /\ Code(n) \in Seq(Byte)
<1>1. Code(n) = Lead \o Flat(n)
  BY DEF Code, Lead, Flat, Codes, Message!Encode
<1>2. Flat(n) \in Seq(Byte) /\ Lead \in Seq(Byte)
  BY FlatFacts, LeadFacts
<1> QED BY <1>1, <1>2, ConcatProperties

LEMMA CodeFirst ==
  ASSUME data \in Message!Lists, guid \in Guids
  PROVE  Code(0) = Lead
<1>1. 0 \in 0 .. Len(data) /\ Lead \in Seq(Byte) /\ Flat(0) = <<>>
  BY ListFacts, MessageConstants, FlatFacts, LeadFacts
<1> QED BY <1>1, CodeIs, ConcatEmptySeq

LEMMA CodeNext ==
  ASSUME data \in Message!Lists, guid \in Guids, NEW n \in 0 .. Len(data) - 1
  PROVE  LET e == Message!EncodeParam(data[n + 1]) IN
         /\ Len(Code(n)) \in Nat /\ Len(e) \in Nat
         /\ Len(Code(n + 1)) = Len(Code(n)) + Len(e)
         /\ \A j \in 1 .. Len(Code(n)) : Code(n + 1)[j] = Code(n)[j]
         /\ \A j \in 1 .. Len(e) : Code(n + 1)[Len(Code(n)) + j] = e[j]
<1>1. n \in 0 .. Len(data) /\ n + 1 \in 0 .. Len(data) /\ n + 1 \in 1 .. Len(data)
  BY ListFacts, MessageConstants
<1> DEFINE e == Message!EncodeParam(data[n + 1])
           f == Flat(n)
           c == Code(n)
<1>2. e \in Seq(Byte) /\ f \in Seq(Byte) /\ Lead \in Seq(Byte) /\ c \in Seq(Byte)
  BY <1>1, ListFacts, ParamFields, FlatFacts, LeadFacts, CodeIs
<1>3. Code(n + 1) = c \o e
  <2>1. Code(n + 1) = Lead \o (f \o e)
    BY <1>1, CodeIs, FlatNext
  <2>2. c = Lead \o f
    BY <1>1, CodeIs
  <2> HIDE DEF e, f, c
  <2>3. (Lead \o f) \o e = Lead \o (f \o e)
    BY <1>2, ConcatAssociative
  <2> QED BY <2>1, <2>2, <2>3
<1>4. Len(c) \in Nat /\ Len(e) \in Nat
  BY <1>2, SeqFacts
<1> HIDE DEF c, e
<1>5. /\ Len(c \o e) = Len(c) + Len(e)
      /\ \A j \in 1 .. Len(c) + Len(e) : (c \o e)[j] = IF j <= Len(c) THEN c[j] ELSE e[j - Len(c)]
  BY <1>2, ConcatProperties
<1> DEFINE s == c \o e
<1> HIDE DEF s
<1>6. \A j \in 1 .. Len(c) : s[j] = c[j]
  BY <1>4, <1>5 DEF s
<1>7. ASSUME NEW j \in 1 .. Len(e) PROVE s[Len(c) + j] = e[j]
  <2>1. Len(c) + j \in 1 .. Len(c) + Len(e) /\ ~(Len(c) + j <= Len(c)) /\ (Len(c) + j) - Len(c) = j
    BY <1>4
  <2>2. s[Len(c) + j] = e[(Len(c) + j) - Len(c)]
    BY <1>5, <2>1 DEF s
  <2> QED BY <2>1, <2>2
<1> QED BY <1>3, <1>4, <1>5, <1>6, <1>7 DEF s, c, e

(* The code of more parameters begins with the code of fewer.               *)
LEMMA CodePrefix ==
  ASSUME data \in Message!Lists, guid \in Guids
  PROVE  \A m \in 0 .. Len(data) : \A n \in 0 .. m :
           /\ Len(Code(n)) <= Len(Code(m)) /\ (n < m => Len(Code(n)) < Len(Code(m)))
           /\ \A j \in 1 .. Len(Code(n)) : Code(m)[j] = Code(n)[j]
<1> DEFINE Begins(n, m) == /\ Len(Code(n)) <= Len(Code(m)) /\ (n < m => Len(Code(n)) < Len(Code(m)))
                           /\ \A j \in 1 .. Len(Code(n)) : Code(m)[j] = Code(n)[j]
           T == {m \in Nat : m <= Len(data) => \A n \in 0 .. m : Begins(n, m)}
<1>1. Len(data) \in Nat /\ \A n \in 0 .. Len(data) : Len(Code(n)) \in Nat
  <2>1. Len(data) \in Nat
    BY ListFacts, MessageConstants
  <2> QED BY <2>1, CodeIs, SeqFacts
<1>2. 0 \in T
  <2>1. \A n \in 0 .. 0 : n = 0
    OBVIOUS
  <2>2. Begins(0, 0)
    BY <1>1
  <2> HIDE DEF Begins
  <2> QED BY <2>1, <2>2
<1>3. ASSUME NEW m \in Nat, m \in T PROVE m + 1 \in T
  <2> SUFFICES ASSUME m + 1 <= Len(data), NEW n \in 0 .. m + 1 PROVE Begins(n, m + 1)
    OBVIOUS
  <2>1. m \in 0 .. Len(data) - 1 /\ m \in 0 .. Len(data) /\ m + 1 \in 1 .. Len(data) /\ m + 1 \in 0 .. Len(data)
    BY <1>1
  <2> DEFINE e == Message!EncodeParam(data[m + 1])
  <2>2. /\ Len(Code(m)) \in Nat /\ Len(Code(m + 1)) = Len(Code(m)) + Len(e)
        /\ \A j \in 1 .. Len(Code(m)) : Code(m + 1)[j] = Code(m)[j]
    BY <2>1, CodeNext
  <2>3. Len(e) \in Nat /\ Len(e) >= 6
    <3>1. data[m + 1] \in Keys \X Vals
      BY <2>1, ListFacts
    <3> DEFINE k == Len(data[m + 1][1])
               v == Len(data[m + 1][2])
    <3>2. Len(e) = 6 + k + v /\ k \in Nat /\ v \in Nat
      BY <3>1, ParamFields
    <3> HIDE DEF e, k, v
    <3> QED BY <3>2
  <2> HIDE DEF e
  <2>4. CASE n = m + 1
    <3>1. Len(Code(m + 1)) \in Nat
      BY <2>2, <2>3
    <3> QED BY <2>4, <3>1
  <2>5. CASE n # m + 1
    <3>1. n \in 0 .. m
      BY <2>5
    <3>2. Begins(n, m)
      BY <1>3, <2>1, <3>1
    <3>3. Len(Code(n)) \in Nat
      BY <1>1, <2>1, <3>1
    <3>4. \A j \in 1 .. Len(Code(n)) : j \in 1 .. Len(Code(m))
      BY <2>2, <3>2, <3>3
    <3>5. \A j \in 1 .. Len(Code(n)) : Code(m + 1)[j] = Code(n)[j]
      BY <2>2, <3>2, <3>4
    <3>6. Len(Code(n)) < Len(Code(m + 1))
      BY <2>2, <2>3, <3>2, <3>3
    <3>7. Len(Code(n)) <= Len(Code(m + 1))
      BY <2>2, <2>3, <3>2, <3>3
    <3> QED BY <3>5, <3>6, <3>7
  <2> QED BY <2>4, <2>5
<1>4. Nat \subseteq T
  <2> HIDE DEF T
  <2> QED BY <1>2, <1>3, AllNumbers
<1>5. ASSUME NEW m \in 0 .. Len(data), NEW n \in 0 .. m PROVE Begins(n, m)
  <2>1. m \in Nat /\ m <= Len(data)
    BY <1>1
  <2> QED BY <1>4, <2>1
<1> QED BY <1>5

(* The whole code, and the n-th parameter in it. *)
LEMMA ParamAt ==
  ASSUME data \in Message!Lists, guid \in Guids, NEW n \in 0 .. Len(data) - 1
  PROVE  LET e == Message!EncodeParam(data[n + 1])
             o == Len(Code(n))
             c == Code(Len(data)) IN
         /\ o \in Nat /\ Len(e) \in Nat /\ Len(Code(n + 1)) = o + Len(e) /\ o + Len(e) <= Len(c)
         /\ \A j \in 1 .. Len(e) : c[o + j] = e[j]
<1>1. Len(data) \in 0 .. Len(data) /\ n + 1 \in 0 .. Len(data)
  BY ListFacts, MessageConstants
<1> DEFINE e == Message!EncodeParam(data[n + 1])
           o == Len(Code(n))
           c == Code(Len(data))
           d == Code(n + 1)
<1>2. /\ o \in Nat /\ Len(e) \in Nat /\ Len(d) = o + Len(e)
      /\ \A j \in 1 .. Len(e) : d[o + j] = e[j]
  BY CodeNext
<1>3. Len(d) <= Len(c) /\ \A j \in 1 .. Len(d) : c[j] = d[j]
  BY <1>1, CodePrefix
<1> HIDE DEF e, o, c, d
<1>4. \A j \in 1 .. Len(e) : o + j \in 1 .. Len(d)
  BY <1>2
<1>5. \A j \in 1 .. Len(e) : c[o + j] = e[j]
  BY <1>2, <1>3, <1>4
<1> QED BY <1>2, <1>3, <1>5 DEF e, o, c, d

(* What is still to be read is the message as it was sent behind its first  *)
(* o bytes, up to where it was cut.                                         *)
Awaits(o) ==
  /\ Len(message) = length - o
  /\ \A j \in 1 .. length - o : message[j] = Code(Len(data))[o + j]

Cut(n) == length = Len(Code(n))

MessageTypes ==
  /\ data \in Message!Lists /\ guid \in Guids
  /\ length \in Nat /\ length <= Len(Code(Len(data)))
  /\ message \in Seq(Byte) /\ Len(message) <= length
  /\ reading \in {"guid", "params", "read", "nil"}
  /\ DOMAIN param = Message!ToSet(porder)

(* n parameters are read.                                                   *)
ReadUpTo(n) ==
  /\ Message!Arrived(n)
  /\ reading = "guid" => n = 0 /\ Awaits(0)
  /\ reading = "params" =>
       Len(Code(n)) <= length /\ Awaits(Len(Code(n))) /\ (n > 0 \/ message # <<>>)
  /\ reading = "read" => Cut(n) /\ n > 0
  /\ reading \in {"params", "read"} => ~(Cut(Len(data)) /\ n = Len(data) /\ Message!Blank)
  /\ reading = "nil" /\ Cut(Len(data)) => Message!Blank

MessageInv == MessageTypes /\ \E n \in 0 .. Len(data) : ReadUpTo(n)

(* The last of the first n parameters that has this key.                    *)
Lasts(n, k) == Message!SelectLastInSeq(Message!Sent(n), LAMBDA p : p[1] = k)

LEMMA LastsFacts ==
  ASSUME data \in Message!Lists, NEW n \in 0 .. Len(data) - 1, NEW k
  PROVE  Lasts(n + 1, k) = IF k = data[n + 1][1] THEN n + 1 ELSE Lasts(n, k)
<1>1. Len(data) \in Nat /\ n \in 0 .. Len(data) /\ n + 1 \in 0 .. Len(data)
  BY ListFacts, MessageConstants
<1> DEFINE a == Message!Sent(n)
           b == Message!Sent(n + 1)
           I == {j \in 1 .. Len(a) : a[j][1] = k}
           J == {j \in 1 .. Len(b) : b[j][1] = k}
<1>2. Len(a) = n /\ \A j \in 1 .. n : a[j] = data[j]
  BY <1>1, SentFacts
<1>3. Len(b) = n + 1 /\ \A j \in 1 .. n + 1 : b[j] = data[j]
  BY <1>1, SentFacts
<1>4. Lasts(n, k) = IF I # {} THEN Message!Max(I) ELSE 0
  BY DEF Lasts, Message!SelectLastInSeq
<1>5. Lasts(n + 1, k) = IF J # {} THEN Message!Max(J) ELSE 0
  BY DEF Lasts, Message!SelectLastInSeq
<1> HIDE DEF a, b
<1>6. \A j \in 1 .. n + 1 : j \in 1 .. n \/ j = n + 1
  BY <1>1
<1>7. CASE k = data[n + 1][1]
  <2>1. n + 1 \in J /\ \A j \in J : j \in Nat /\ n + 1 >= j
    BY <1>1, <1>3, <1>7
  <2> HIDE DEF J
  <2>2. Message!Max(J) \in J /\ \A j \in J : Message!Max(J) >= j
    BY <2>1 DEF Message!Max
  <2>3. Message!Max(J) = n + 1
    BY <1>1, <2>1, <2>2
  <2> QED BY <1>5, <1>7, <2>1, <2>3
<1>8. CASE k # data[n + 1][1]
  <2>1. I = J
    <3>1. ASSUME NEW j \in J PROVE j \in I
      BY <1>2, <1>3, <1>6, <1>8, <3>1
    <3>2. ASSUME NEW j \in I PROVE j \in J
      BY <1>1, <1>2, <1>3, <1>8, <3>2
    <3> QED BY <3>1, <3>2
  <2> QED BY <1>4, <1>5, <1>8, <2>1
<1> QED BY <1>7, <1>8

LEMMA ArrivedIs ==
  ASSUME NEW n
  PROVE  Message!Arrived(n) <=> /\ porder = [j \in 1 .. n |-> data[j][1]]
                                /\ \A k \in DOMAIN param : param[k] = data[Lasts(n, k)][2]
BY DEF Message!Arrived, Lasts

LEMMA ArrivedThen ==
  ASSUME NEW n, data' = data
  PROVE  Message!Arrived(n)' <=> /\ porder' = [j \in 1 .. n |-> data[j][1]]
                                 /\ \A k \in DOMAIN param' : param'[k] = data[Lasts(n, k)][2]
BY DEF Message!Arrived, Lasts, Message!SelectLastInSeq, Message!Sent, Message!Max

(* The message stays. *)
LEMMA CodeStays ==
  ASSUME data' = data, guid' = guid
  PROVE  /\ \A n : Code(n)' = Code(n)
         /\ \A n, k : Lasts(n, k)' = Lasts(n, k)
         /\ Message!Blank' <=> Message!Blank
<1>1. ASSUME NEW n PROVE Code(n)' = Code(n)
  BY DEF Code, Message!Encode, Message!Sent, Message!EncodeParam, Message!Pack2, Message!Pack4,
         Message!Word, Message!FlattenSeq
<1>2. ASSUME NEW n, NEW k PROVE Lasts(n, k)' = Lasts(n, k)
  BY DEF Lasts, Message!SelectLastInSeq, Message!Sent, Message!Max
<1>3. Message!Blank' <=> Message!Blank
  BY DEF Message!Blank, Message!Last
<1> QED BY <1>1, <1>2, <1>3

LEMMA MessageStutter == MessageInv /\ UNCHANGED message_vars => MessageInv'
<1> SUFFICES ASSUME MessageInv, UNCHANGED message_vars PROVE MessageInv'
  OBVIOUS
<1>1. /\ data' = data /\ guid' = guid /\ length' = length /\ message' = message
      /\ reading' = reading /\ param' = param /\ porder' = porder
  BY DEF message_vars
<1>2. MessageTypes'
  BY <1>1, CodeStays DEF MessageInv, MessageTypes, Message!Lists, Message!ToSet
<1>3. PICK n \in 0 .. Len(data) : ReadUpTo(n)
  BY DEF MessageInv
<1>4. /\ Message!Arrived(n)' <=> Message!Arrived(n)
      /\ Awaits(0)' <=> Awaits(0)
      /\ Awaits(Len(Code(n)))' <=> Awaits(Len(Code(n)))
      /\ Cut(n)' <=> Cut(n)
      /\ Cut(Len(data))' <=> Cut(Len(data))
  <2>1. Message!Arrived(n)' <=> Message!Arrived(n)
    BY <1>1, ArrivedIs, ArrivedThen
  <2>2. \A m : Code(m)' = Code(m)
    BY <1>1, CodeStays
  <2> QED BY <1>1, <2>1, <2>2 DEF Awaits, Cut
<1>5. ReadUpTo(n)'
  BY <1>1, <1>3, <1>4, CodeStays DEF ReadUpTo
<1> QED BY <1>1, <1>2, <1>3, <1>5 DEF MessageInv

LEMMA MessageStart == Message!Init => MessageInv
<1> SUFFICES ASSUME Message!Init PROVE MessageInv
  OBVIOUS
<1>1. data \in Message!Lists /\ guid \in Guids /\ reading = "guid" /\ param = <<>> /\ porder = <<>>
  BY DEF Message!Init
<1> DEFINE c == Code(Len(data))
<1>2. Message!Encode(guid, data) = c
  BY <1>1, SentAll DEF Code
<1>3. PICK n \in 0 .. Len(c) : length = n /\ message = SubSeq(c, 1, n)
  BY <1>2 DEF Message!Init
<1>4. c \in Seq(Byte) /\ Len(data) \in Nat
  BY <1>1, CodeIs, ListFacts, MessageConstants
<1> HIDE DEF c
<1>5. Len(c) \in Nat /\ \A j \in 1 .. Len(c) : c[j] \in Byte
  BY <1>4, SeqFacts
<1>6. 1 \in Int /\ n \in Int /\ \A j \in 1 .. n : c[j] \in Byte
  BY <1>5
<1>7. /\ message \in Seq(Byte) /\ Len(message) = IF 1 <= n THEN n - 1 + 1 ELSE 0
      /\ \A j \in 1 .. n - 1 + 1 : message[j] = c[1 + j - 1]
  BY <1>3, <1>6, SubSeqProperties
<1>8. n - 1 + 1 = n /\ \A j \in 1 .. n : 1 + j - 1 = 0 + j
  BY <1>5
<1>9. Len(message) = n /\ \A j \in 1 .. n : message[j] = c[0 + j]
  BY <1>5, <1>7, <1>8
<1>10. Awaits(0)
  <2>1. length - 0 = n
    BY <1>3, <1>5
  <2> QED BY <1>9, <2>1 DEF Awaits, c
<1>11. DOMAIN param = {} /\ Message!ToSet(porder) = {}
  <2>1. DOMAIN param = {} /\ DOMAIN porder = {}
    BY <1>1
  <2> QED BY <2>1 DEF Message!ToSet
<1>12. MessageTypes
  BY <1>1, <1>3, <1>5, <1>7, <1>9, <1>11 DEF MessageTypes, c
<1>13. Message!Arrived(0)
  <2>1. porder = [j \in 1 .. 0 |-> data[j][1]]
    <3>1. 1 .. 0 = {}
      OBVIOUS
    <3> QED BY <1>1, <3>1
  <2> QED BY <1>11, <2>1, ArrivedIs
<1>14. ReadUpTo(0)
  BY <1>1, <1>10, <1>13 DEF ReadUpTo
<1> QED BY <1>4, <1>12, <1>14 DEF MessageInv

(* Reading goes on, or ends, with n parameters read and the message cut as  *)
(* before.                                                                  *)
LEMMA ReadOn ==
  ASSUME MessageInv, UNCHANGED <<data, guid, length>>, NEW n \in 0 .. Len(data),
         Message!Arrived(n)', DOMAIN param' = Message!ToSet(porder'),
         message' \in Seq(Byte), Len(message') <= length,
         NEW o \in Nat, o = Len(Code(n)),
         \/ /\ reading' = "params" /\ o <= length /\ (n > 0 \/ message' # <<>>)
            /\ Len(message') = length - o
            /\ \A j \in 1 .. length - o : message'[j] = Code(Len(data))[o + j]
            /\ ~(Cut(Len(data)) /\ n = Len(data) /\ Message!Blank)
         \/ /\ reading' = "read" /\ length = o /\ n > 0
            /\ ~(Cut(Len(data)) /\ n = Len(data) /\ Message!Blank)
         \/ reading' = "nil" /\ (Cut(Len(data)) => Message!Blank)
  PROVE  MessageInv'
<1>1. /\ data' = data /\ guid' = guid /\ length' = length
      /\ (\A m : Code(m)' = Code(m)) /\ (Message!Blank' <=> Message!Blank)
  BY CodeStays
<1>2. MessageTypes'
  <2>1. Code(Len(data))' = Code(Len(data))
    BY <1>1
  <2> QED BY <1>1, <2>1 DEF MessageInv, MessageTypes, Message!Lists, Message!ToSet
<1>3. Cut(Len(data))' <=> Cut(Len(data))
  BY <1>1 DEF Cut
<1>4. reading' = "params" => Awaits(Len(Code(n)))'
  BY <1>1 DEF Awaits
<1>5. reading' = "read" => Cut(n)'
  BY <1>1 DEF Cut
<1>6. reading' # "guid"
  OBVIOUS
<1>7. ReadUpTo(n)'
  BY <1>1, <1>3, <1>4, <1>5, <1>6 DEF ReadUpTo
<1> QED BY <1>1, <1>2, <1>7 DEF MessageInv

LEMMA ReadGuidStep ==
  ASSUME MessageInv, Message!ReadGuid
  PROVE  MessageInv'
<1> DEFINE size == Message!Unpack2(message)
           c == Code(Len(data))
           g == Len(guid)
<1>1. /\ reading = "guid" /\ UNCHANGED <<data, guid, length>> /\ param' = param /\ porder' = porder
      /\ IF Len(message) <= 2 \/ Len(message) <= 2 + size
         THEN reading' = "nil" /\ message' = message
         ELSE message' = Message!Skip(message, 2 + size) /\ reading' = "params"
  BY DEF Message!ReadGuid, Message!Return
<1>2. /\ data \in Message!Lists /\ guid \in Guids /\ length \in Nat /\ length <= Len(c)
      /\ message \in Seq(Byte) /\ DOMAIN param = Message!ToSet(porder)
  BY DEF MessageInv, MessageTypes
<1>3. Message!Arrived(0) /\ Awaits(0) /\ 0 \in 0 .. Len(data)
  BY <1>1 DEF MessageInv, ReadUpTo
<1>4. Len(message) = length /\ \A j \in 1 .. length : message[j] = c[j]
  <2>1. length - 0 = length /\ \A j \in 1 .. length : 0 + j = j
    BY <1>2
  <2> QED BY <1>3, <2>1 DEF Awaits
<1>5. /\ Len(Code(0)) = 2 + g /\ g \in Nat /\ g < Message!Word
      /\ \A j \in 1 .. 2 : Code(0)[j] = Message!Pack2(g)[j]
  BY <1>2, CodeFirst, LeadFacts
<1>6. Len(data) \in Nat /\ Len(data) \in 0 .. Len(data) /\ Len(c) \in Nat
  BY <1>2, ListFacts, MessageConstants, CodeIs, SeqFacts
<1>7. /\ 2 + g <= Len(c) /\ (0 < Len(data) => 2 + g < Len(c))
      /\ \A j \in 1 .. 2 + g : c[j] = Code(0)[j]
  BY <1>2, <1>5, <1>6, CodePrefix
<1>8. Len(message) > 2 => size = g
  <2> SUFFICES ASSUME Len(message) > 2 PROVE size = g
    OBVIOUS
  <2>1. 1 \in 1 .. length /\ 2 \in 1 .. length /\ 1 \in 1 .. 2 + g /\ 2 \in 1 .. 2 + g
    BY <1>2, <1>4, <1>5
  <2> HIDE DEF c, g
  <2>2. message[1] = Message!Pack2(g)[1] /\ message[2] = Message!Pack2(g)[2]
    BY <1>4, <1>5, <1>7, <2>1
  <2> QED BY <1>5, <2>2, Read2
<1>9. Cut(Len(data)) <=> length = Len(c)
  BY DEF Cut
<1>10. Len(data) = 0 => Message!Blank
  <2>1. data \in Seq(Keys \X Vals)
    BY <1>2, ListFacts
  <2> QED BY <2>1, SeqFacts DEF Message!Blank
<1>11. Message!Arrived(0)' /\ DOMAIN param' = Message!ToSet(porder')
  <2>1. Message!Arrived(0)'
    BY <1>1, <1>3, ArrivedIs, ArrivedThen
  <2> QED BY <1>1, <1>2, <2>1
<1> HIDE DEF size, c, g
<1>12. CASE Len(message) <= 2 \/ Len(message) <= 2 + size
  <2>1. reading' = "nil" /\ message' = message
    BY <1>1, <1>12
  <2>2. Cut(Len(data)) => Len(data) = 0
    <3> SUFFICES ASSUME length = Len(c) PROVE ~(0 < Len(data))
      BY <1>6, <1>9
    <3>1. Len(message) <= 2 + g
      <4>1. CASE Len(message) <= 2
        BY <1>2, <1>4, <1>5, <4>1
      <4>2. CASE Len(message) > 2
        BY <1>8, <1>12, <4>2
      <4> QED BY <1>2, <1>4, <4>1, <4>2
    <3> QED BY <1>2, <1>4, <1>5, <1>6, <1>7, <3>1
  <2>3. Len(message') <= length /\ message' \in Seq(Byte)
    BY <1>2, <1>4, <2>1
  <2>4. Len(Code(0)) \in Nat
    BY <1>5 DEF g
  <2> QED BY <1>1, <1>3, <1>10, <1>11, <2>1, <2>2, <2>3, <2>4, ReadOn
<1>13. CASE ~(Len(message) <= 2 \/ Len(message) <= 2 + size)
  <2> DEFINE o == 2 + g
  <2>1. size = g /\ o \in Nat /\ o < length /\ o \in 0 .. Len(message)
    BY <1>2, <1>4, <1>5, <1>8, <1>13
  <2>2. message' = Message!Skip(message, o) /\ reading' = "params"
    BY <1>1, <1>13, <2>1
  <2> HIDE DEF o
  <2>3. /\ message' \in Seq(Byte) /\ Len(message') = length - o
        /\ \A j \in 1 .. length - o : message'[j] = message[o + j]
    BY <1>2, <1>4, <2>1, <2>2, SkipFacts
  <2>4. \A j \in 1 .. length - o : message'[j] = c[o + j]
    <3>1. \A j \in 1 .. length - o : o + j \in 1 .. length
      BY <1>2, <2>1
    <3> QED BY <1>4, <2>3, <3>1
  <2>5. Len(message') <= length /\ Len(message') # 0
    BY <1>2, <2>1, <2>3
  <2>6. message' # <<>>
    BY <2>3, <2>5, SeqFacts
  <2>7. ~(Cut(Len(data)) /\ 0 = Len(data))
    <3> SUFFICES ASSUME length = Len(c), 0 = Len(data) PROVE FALSE
      BY <1>9
    <3>1. Len(c) = o
      BY <1>5 DEF c, g, o
    <3> QED BY <1>2, <2>1, <3>1
  <2>8. o = Len(Code(0))
    BY <1>5 DEF g, o
  <2>9. o <= length
    BY <1>2, <2>1
  <2>10. /\ reading' = "params" /\ o <= length /\ (0 > 0 \/ message' # <<>>)
         /\ Len(message') = length - o
         /\ \A j \in 1 .. length - o : message'[j] = Code(Len(data))[o + j]
         /\ ~(Cut(Len(data)) /\ 0 = Len(data) /\ Message!Blank)
    BY <2>2, <2>3, <2>4, <2>6, <2>7, <2>9 DEF c
  <2> QED BY <1>1, <1>3, <1>11, <2>1, <2>3, <2>5, <2>8, <2>10, ReadOn
<1> QED BY <1>12, <1>13

LEMMA ReadEndStep ==
  ASSUME MessageInv, Message!ReadEnd
  PROVE  MessageInv'
<1>1. /\ reading = "params" /\ message = <<>> /\ UNCHANGED <<data, guid, length>>
      /\ reading' = "read" /\ message' = message /\ param' = param /\ porder' = porder
  BY DEF Message!ReadEnd, Message!Return
<1>2. /\ data \in Message!Lists /\ guid \in Guids /\ length \in Nat
      /\ message \in Seq(Byte) /\ Len(message) <= length /\ DOMAIN param = Message!ToSet(porder)
  BY DEF MessageInv, MessageTypes
<1>3. PICK n \in 0 .. Len(data) : ReadUpTo(n)
  BY DEF MessageInv
<1>4. /\ Message!Arrived(n) /\ Len(Code(n)) <= length /\ Awaits(Len(Code(n))) /\ n > 0
      /\ ~(Cut(Len(data)) /\ n = Len(data) /\ Message!Blank)
  BY <1>1, <1>3 DEF ReadUpTo
<1>5. PICK o \in Nat : o = Len(Code(n))
  BY <1>2, CodeIs, SeqFacts
<1>6. length = o
  <2>1. Len(message) = length - o /\ Len(message) = 0
    BY <1>1, <1>2, <1>4, <1>5, SeqFacts DEF Awaits
  <2> QED BY <1>2, <1>5, <2>1
<1>7. Message!Arrived(n)' /\ DOMAIN param' = Message!ToSet(porder')
  <2>1. Message!Arrived(n)'
    BY <1>1, <1>4, ArrivedIs, ArrivedThen
  <2> QED BY <1>1, <1>2, <2>1
<1> QED BY <1>1, <1>2, <1>4, <1>5, <1>6, <1>7, ReadOn

(* With the next parameter taken over, one more is read.                    *)
LEMMA ArrivedNext ==
  ASSUME data \in Message!Lists, NEW n \in 0 .. Len(data) - 1, data' = data,
         Message!Arrived(n), DOMAIN param = Message!ToSet(porder),
         NEW k, NEW v, k = data[n + 1][1], v = data[n + 1][2],
         porder' = Append(porder, k),
         param' = [x \in DOMAIN param \cup {k} |-> IF x = k THEN v ELSE param[x]]
  PROVE  Message!Arrived(n + 1)' /\ DOMAIN param' = Message!ToSet(porder')
<1>1. n \in Nat /\ n + 1 \in Nat /\ \A j \in 1 .. n + 1 : j \in 1 .. Len(data)
  BY ListFacts, MessageConstants
<1>2. \A j \in 1 .. n + 1 : data[j][1] \in Keys
  BY <1>1, ListFacts
<1> DEFINE key == [j \in 1 .. Len(data) |-> data[j][1]]
           p == [j \in 1 .. n |-> key[j]]
           q == [j \in 1 .. n + 1 |-> key[j]]
<1>3. \A j \in 1 .. n + 1 : key[j] = data[j][1] /\ key[j] \in Keys
  BY <1>1, <1>2
<1>4. porder = p /\ \A x \in DOMAIN param : param[x] = data[Lasts(n, x)][2]
  <2>1. \A j \in 1 .. n : j \in 1 .. n + 1
    BY <1>1
  <2>2. p = [j \in 1 .. n |-> data[j][1]]
    BY <1>3, <2>1
  <2> QED BY <2>2, ArrivedIs
<1>5. q = [j \in 1 .. n + 1 |-> data[j][1]]
  BY <1>3
<1> HIDE DEF key
<1>6. p \in Seq(Keys) /\ Len(p) = n /\ \A j \in 1 .. n : p[j] = key[j]
  <2>1. \A j \in 1 .. n : key[j] \in Keys
    BY <1>1, <1>3
  <2>2. p \in Seq(Keys)
    BY <1>1, <2>1, IsASeq
  <2> QED BY <1>1, <2>2, LenProperties
<1>7. q \in Seq(Keys) /\ Len(q) = n + 1 /\ \A j \in 1 .. n + 1 : q[j] = key[j]
  <2>1. q \in Seq(Keys)
    BY <1>1, <1>3, IsASeq
  <2> QED BY <1>1, <2>1, LenProperties
<1> HIDE DEF p, q
<1>8. k \in Keys /\ key[n + 1] = k
  BY <1>1, <1>3
<1>9. /\ porder' \in Seq(Keys) /\ Len(porder') = n + 1
      /\ \A j \in 1 .. n : porder'[j] = p[j]
      /\ porder'[n + 1] = k
  BY <1>4, <1>6, <1>8, AppendProperties
<1>10. porder' = q
  <2>1. \A j \in 1 .. n + 1 : j \in 1 .. n \/ j = n + 1
    BY <1>1
  <2>2. \A j \in 1 .. n + 1 : porder'[j] = q[j]
    BY <1>6, <1>7, <1>8, <1>9, <2>1
  <2> QED BY <1>7, <1>9, <2>2, SeqEqual
<1>11. DOMAIN param' = Message!ToSet(porder')
  <2>1. DOMAIN porder = 1 .. n /\ DOMAIN porder' = 1 .. n + 1
    BY <1>4, <1>6, <1>9, SeqFacts
  <2>2. DOMAIN param = {p[j] : j \in 1 .. n}
    BY <1>4, <2>1 DEF Message!ToSet
  <2>3. \A j \in 1 .. n + 1 : j \in 1 .. n \/ j = n + 1
    BY <1>1
  <2>4. n + 1 \in 1 .. n + 1 /\ \A j \in 1 .. n : j \in 1 .. n + 1
    BY <1>1
  <2>5. Message!ToSet(porder') = {porder'[j] : j \in 1 .. n + 1}
    BY <2>1 DEF Message!ToSet
  <2>6. {porder'[j] : j \in 1 .. n + 1} = {p[j] : j \in 1 .. n} \cup {k}
    BY <1>9, <2>3, <2>4
  <2> QED BY <2>2, <2>5, <2>6
<1>12. ASSUME NEW x \in DOMAIN param' PROVE param'[x] = data[Lasts(n + 1, x)][2]
  <2>1. Lasts(n + 1, x) = IF x = data[n + 1][1] THEN n + 1 ELSE Lasts(n, x)
    BY LastsFacts
  <2>2. CASE x = k
    BY <2>1, <2>2
  <2>3. CASE x # k
    <3>1. x \in DOMAIN param /\ param'[x] = param[x]
      BY <1>12, <2>3
    <3> QED BY <1>4, <2>1, <2>3, <3>1
  <2> QED BY <2>2, <2>3
<1>13. Message!Arrived(n + 1)'
  BY <1>5, <1>10, <1>12, ArrivedThen
<1> QED BY <1>11, <1>13

(* A parameter is taken only if it is there with all its bytes, and then as *)
(* it was sent.                                                             *)
LEMMA ReadParamStep ==
  ASSUME MessageInv, Message!ReadParam
  PROVE  MessageInv'
<1> DEFINE lens == Message!Skip(message, 2)
           body == Message!Skip(message, 6)
           k_s  == Message!Unpack2(message)
           v_s  == Message!Unpack4(lens)
           k    == SubSeq(body, 1, k_s)
           v    == SubSeq(body, k_s + 1, k_s + v_s)
           none == Len(message) <= 2 \/ Len(lens) <= 4 \/ k_s + v_s > Len(body)
           c    == Code(Len(data))
<1>1. /\ reading = "params" /\ message # <<>> /\ UNCHANGED <<data, guid, length>>
      /\ IF none
         THEN reading' = "nil" /\ message' = message /\ param' = param /\ porder' = porder
         ELSE /\ param' = [x \in DOMAIN param \cup {k} |-> IF x = k THEN v ELSE param[x]]
              /\ porder' = Append(porder, k)
              /\ message' = Message!Skip(body, k_s + v_s)
              /\ reading' = reading
  BY DEF Message!ReadParam, Message!Return
<1>2. /\ data \in Message!Lists /\ guid \in Guids /\ length \in Nat /\ length <= Len(c)
      /\ message \in Seq(Byte) /\ Len(message) <= length /\ DOMAIN param = Message!ToSet(porder)
  BY DEF MessageInv, MessageTypes
<1>3. PICK n \in 0 .. Len(data) : ReadUpTo(n)
  BY DEF MessageInv
<1>4. Message!Arrived(n) /\ Len(Code(n)) <= length /\ Awaits(Len(Code(n)))
  BY <1>1, <1>3 DEF ReadUpTo
<1>5. PICK o \in Nat : o = Len(Code(n))
  BY <1>2, CodeIs, SeqFacts
<1>6. /\ o <= length /\ Len(message) = length - o /\ Len(message) # 0
      /\ \A j \in 1 .. length - o : message[j] = c[o + j]
  BY <1>1, <1>2, <1>4, <1>5, SeqFacts DEF Awaits
<1>7. Len(data) \in Nat /\ Len(c) \in Nat
  BY <1>2, ListFacts, MessageConstants, CodeIs, SeqFacts
<1>8. n \in 0 .. Len(data) - 1 /\ n + 1 \in 0 .. Len(data) /\ n + 1 \in 1 .. Len(data)
  <2>1. n # Len(data)
    BY <1>2, <1>5, <1>6, <1>7
  <2> QED BY <1>7, <2>1
<1> DEFINE p == data[n + 1]
           e == Message!EncodeParam(p)
           kl == Len(p[1])
           vl == Len(p[2])
<1>9. p \in Keys \X Vals /\ p = <<p[1], p[2]>>
  BY <1>2, <1>8, ListFacts
<1>10. /\ p[1] \in Seq(Byte) /\ kl \in Nat /\ kl < Message!Word
       /\ p[2] \in Seq(Byte) /\ vl \in Nat /\ vl < Message!Word * Message!Word
       /\ Len(e) = 6 + kl + vl
       /\ \A j \in 1 .. 2 : e[j] = Message!Pack2(kl)[j]
       /\ \A j \in 1 .. 4 : e[2 + j] = Message!Pack4(vl)[j]
       /\ \A j \in 1 .. kl : e[6 + j] = p[1][j]
       /\ \A j \in 1 .. vl : e[6 + kl + j] = p[2][j]
  BY <1>9, ParamFields
<1>11. /\ Len(Code(n + 1)) = o + Len(e) /\ o + Len(e) <= Len(c)
       /\ \A j \in 1 .. Len(e) : c[o + j] = e[j]
  BY <1>2, <1>5, <1>8, ParamAt
<1>12. Cut(Len(data)) <=> length = Len(c)
  BY DEF Cut
<1>13. Len(data) = n + 1 => (Message!Blank <=> kl = 0 /\ vl = 0)
  <2> SUFFICES ASSUME Len(data) = n + 1 PROVE Message!Blank <=> kl = 0 /\ vl = 0
    OBVIOUS
  <2>1. data # <<>>
    BY <1>2, <1>8, ListFacts, SeqFacts
  <2>2. Message!Last(data) = p
    BY DEF Message!Last
  <2>3. /\ p[1] = <<>> <=> kl = 0
        /\ p[2] = <<>> <=> vl = 0
    BY <1>10, SeqFacts
  <2>4. p = <<<<>>, <<>>>> <=> p[1] = <<>> /\ p[2] = <<>>
    <3>1. p = <<<<>>, <<>>>> => p[1] = <<>> /\ p[2] = <<>>
      OBVIOUS
    <3> QED BY <1>9, <3>1
  <2> QED BY <2>1, <2>2, <2>3, <2>4 DEF Message!Blank
<1>14. ASSUME n + 1 # Len(data) PROVE Len(Code(n + 1)) < Len(c)
  <2>1. Len(data) \in 0 .. Len(data) /\ n + 1 \in 0 .. Len(data) /\ n + 1 < Len(data)
    BY <1>7, <1>8, <1>14
  <2> QED BY <1>2, <2>1, CodePrefix
<1> HIDE DEF lens, body, k_s, v_s, k, v, none, c, p, e, kl, vl
<1>15. \A j \in 1 .. Len(e) : j <= Len(message) => message[j] = e[j]
  <2>1. ASSUME NEW j \in 1 .. Len(e), j <= Len(message) PROVE message[j] = e[j]
    <3>1. j \in 1 .. length - o
      BY <1>2, <1>6, <2>1
    <3> QED BY <1>6, <1>11, <3>1
  <2> QED BY <2>1
<1>16. Len(message) > 6 => /\ k_s = kl /\ v_s = vl
                           /\ Len(lens) = Len(message) - 2
                           /\ body \in Seq(Byte) /\ Len(body) = Len(message) - 6
                           /\ \A j \in 1 .. Len(message) - 6 : body[j] = message[6 + j]
  <2> SUFFICES ASSUME Len(message) > 6
               PROVE  /\ k_s = kl /\ v_s = vl
                      /\ Len(lens) = Len(message) - 2
                      /\ body \in Seq(Byte) /\ Len(body) = Len(message) - 6
                      /\ \A j \in 1 .. Len(message) - 6 : body[j] = message[6 + j]
    OBVIOUS
  <2>1. Len(message) \in Nat /\ 2 \in 0 .. Len(message) /\ 6 \in 0 .. Len(message)
    BY <1>2, SeqFacts
  <2>2. \A j \in 1 .. 6 : j \in 1 .. Len(e) /\ j <= Len(message)
    BY <1>10, <2>1
  <2>3. k_s = kl
    <3>1. 1 \in 1 .. 6 /\ 2 \in 1 .. 6 /\ 1 \in 1 .. 2 /\ 2 \in 1 .. 2
      OBVIOUS
    <3>2. message[1] = e[1] /\ message[2] = e[2]
      BY <1>15, <2>2, <3>1
    <3>3. e[1] = Message!Pack2(kl)[1] /\ e[2] = Message!Pack2(kl)[2]
      BY <1>10, <3>1
    <3> QED BY <1>10, <3>2, <3>3, Read2 DEF k_s
  <2>4. /\ lens \in Seq(Byte) /\ Len(lens) = Len(message) - 2
        /\ \A j \in 1 .. Len(message) - 2 : lens[j] = message[2 + j]
    BY <1>2, <2>1, SkipFacts DEF lens
  <2>5. v_s = vl
    <3>1. \A j \in 1 .. 4 : lens[j] = Message!Pack4(vl)[j]
      <4>1. \A j \in 1 .. 4 : 2 + j \in 1 .. 6 /\ j \in 1 .. Len(message) - 2
        BY <2>1
      <4> QED BY <1>10, <1>15, <2>2, <2>4, <4>1
    <3>2. Len(lens) >= 4
      BY <2>1, <2>4
    <3> QED BY <1>10, <2>4, <3>1, <3>2, Read4 DEF v_s
  <2>6. /\ body \in Seq(Byte) /\ Len(body) = Len(message) - 6
        /\ \A j \in 1 .. Len(message) - 6 : body[j] = message[6 + j]
    BY <1>2, <2>1, SkipFacts DEF body
  <2> QED BY <2>3, <2>4, <2>5, <2>6
<1>17. Len(lens) > 4 /\ Len(message) > 2 => Len(message) > 6
  <2> SUFFICES ASSUME Len(lens) > 4, Len(message) > 2 PROVE Len(message) > 6
    OBVIOUS
  <2>1. Len(message) \in Nat /\ 2 \in 0 .. Len(message)
    BY <1>2, SeqFacts
  <2>2. Len(lens) = Len(message) - 2
    BY <1>2, <2>1, SkipFacts DEF lens
  <2> QED BY <2>1, <2>2
<1>18. Len(message) > 6 => Len(lens) > 4 /\ Len(message) > 2
  BY <1>2, <1>6, <1>16
<1>19. CASE none
  <2>1. reading' = "nil" /\ message' = message /\ param' = param /\ porder' = porder
    BY <1>1, <1>19
  <2>2. ASSUME length = Len(c) PROVE Message!Blank
    <3>1. Len(message) >= Len(e)
      BY <1>2, <1>6, <1>7, <1>10, <1>11, <2>2
    <3>2. Len(message) <= 6
      <4> SUFFICES ASSUME Len(message) > 6 PROVE FALSE
        BY <1>2, <1>6
      <4>1. k_s + v_s > Len(body)
        BY <1>18, <1>19 DEF none
      <4>2. kl + vl > Len(message) - 6
        BY <1>16, <4>1
      <4> QED BY <1>2, <1>6, <1>10, <3>1, <4>2
    <3>3. kl = 0 /\ vl = 0 /\ Len(e) = 6
      BY <1>2, <1>6, <1>10, <3>1, <3>2
    <3>4. Len(Code(n + 1)) = Len(c)
      BY <1>2, <1>6, <1>7, <1>11, <2>2, <3>2, <3>3
    <3>5. n + 1 = Len(data)
      BY <1>7, <1>14, <3>4
    <3> QED BY <1>13, <3>3, <3>5
  <2>3. Message!Arrived(n)' /\ DOMAIN param' = Message!ToSet(porder')
    <3>1. Message!Arrived(n)'
      BY <1>1, <1>4, <2>1, ArrivedIs, ArrivedThen
    <3> QED BY <1>2, <2>1, <3>1
  <2> QED BY <1>1, <1>2, <1>5, <1>12, <2>1, <2>2, <2>3, ReadOn
<1>20. CASE ~none
  <2>1. Len(message) > 6
    <3>1. Len(message) > 2 /\ Len(lens) > 4
      <4>1. ~(Len(message) <= 2)
        BY <1>20 DEF none
      <4>2. ~(Len(lens) <= 4)
        BY <1>20 DEF none
      <4>3. Len(message) > 2
        BY <1>2, <1>6, <4>1
      <4>4. Len(lens) \in Nat
        <5>1. Len(message) \in Nat /\ 2 \in 0 .. Len(message)
          BY <1>2, <4>3, SeqFacts
        <5> QED BY <1>2, <5>1, SkipFacts, SeqFacts DEF lens
      <4> QED BY <4>2, <4>3, <4>4
    <3> QED BY <1>17, <3>1
  <2>2. /\ k_s = kl /\ v_s = vl /\ body \in Seq(Byte) /\ Len(body) = Len(message) - 6
        /\ \A j \in 1 .. Len(message) - 6 : body[j] = message[6 + j]
    BY <1>16, <2>1
  <2>3. kl + vl <= Len(message) - 6
    <3>1. ~(k_s + v_s > Len(body))
      BY <1>20 DEF none
    <3> QED BY <1>2, <1>6, <1>10, <2>2, <3>1
  <2>4. \A j \in 1 .. kl + vl : body[j] = e[6 + j] /\ body[j] \in Byte
    <3>1. ASSUME NEW j \in 1 .. kl + vl PROVE body[j] = e[6 + j] /\ body[j] \in Byte
      <4>1. j \in 1 .. Len(message) - 6 /\ 6 + j \in 1 .. Len(e) /\ 6 + j <= Len(message)
        BY <1>2, <1>6, <1>10, <2>3
      <4>2. body[j] \in Byte
        BY <2>2, <4>1, SeqFacts
      <4> QED BY <1>15, <2>2, <4>1, <4>2
    <3> QED BY <3>1
  <2>5. k = p[1]
    <3>1. 1 \in Int /\ kl \in Int /\ \A j \in 1 .. kl : body[j] \in Byte
      BY <1>10, <2>4
    <3> DEFINE s == SubSeq(body, 1, kl)
    <3>2. /\ s \in Seq(Byte) /\ Len(s) = IF 1 <= kl THEN kl - 1 + 1 ELSE 0
          /\ \A j \in 1 .. kl - 1 + 1 : s[j] = body[1 + j - 1]
      BY <3>1, SubSeqProperties
    <3> HIDE DEF s
    <3>3. Len(s) = kl
      BY <1>10, <3>2
    <3>4. ASSUME NEW j \in 1 .. kl PROVE s[j] = p[1][j]
      <4>1. kl - 1 + 1 = kl /\ 1 + j - 1 = j /\ j \in 1 .. kl + vl
        BY <1>10
      <4>2. s[j] = body[j]
        BY <3>2, <4>1
      <4> QED BY <1>10, <2>4, <4>1, <4>2
    <3>5. s = p[1]
      BY <1>10, <3>2, <3>3, <3>4, SeqEqual DEF kl
    <3> QED BY <2>2, <3>5 DEF k, s
  <2>6. v = p[2]
    <3>1. kl + 1 \in Int /\ kl + vl \in Int /\ \A j \in kl + 1 .. kl + vl : body[j] \in Byte
      BY <1>10, <2>4
    <3> DEFINE s == SubSeq(body, kl + 1, kl + vl)
    <3>2. /\ s \in Seq(Byte)
          /\ Len(s) = IF kl + 1 <= kl + vl THEN (kl + vl) - (kl + 1) + 1 ELSE 0
          /\ \A j \in 1 .. (kl + vl) - (kl + 1) + 1 : s[j] = body[kl + 1 + j - 1]
      BY <3>1, SubSeqProperties
    <3> HIDE DEF s
    <3>3. Len(s) = vl
      <4>1. CASE vl = 0
        BY <1>10, <3>2, <4>1
      <4>2. CASE vl > 0
        BY <1>10, <3>2, <4>2
      <4> QED BY <1>10, <4>1, <4>2
    <3>4. ASSUME NEW j \in 1 .. vl PROVE s[j] = p[2][j]
      <4>1. /\ (kl + vl) - (kl + 1) + 1 = vl
            /\ kl + 1 + j - 1 = kl + j
            /\ kl + j \in 1 .. kl + vl
            /\ 6 + (kl + j) = 6 + kl + j
        <5>1. kl \in Nat /\ vl \in Nat
          BY <1>10
        <5>2. (kl + vl) - (kl + 1) + 1 = vl
          BY <5>1
        <5>3. kl + 1 + j - 1 = kl + j /\ 6 + (kl + j) = 6 + kl + j
          BY <5>1
        <5>4. kl + j \in 1 .. kl + vl
          BY <5>1
        <5> QED BY <5>2, <5>3, <5>4
      <4>2. s[j] = body[kl + j]
        BY <3>2, <4>1
      <4>3. body[kl + j] = e[6 + (kl + j)]
        BY <2>4, <4>1
      <4> QED BY <1>10, <4>1, <4>2, <4>3
    <3>5. s = p[2]
      BY <1>10, <3>2, <3>3, <3>4, SeqEqual DEF vl
    <3> QED BY <2>2, <3>5 DEF v, s
  <2>7. Message!Arrived(n + 1)' /\ DOMAIN param' = Message!ToSet(porder')
    <3>1. /\ param' = [x \in DOMAIN param \cup {k} |-> IF x = k THEN v ELSE param[x]]
          /\ porder' = Append(porder, k) /\ data' = data
      BY <1>1, <1>20
    <3>2. k = data[n + 1][1] /\ v = data[n + 1][2]
      BY <2>5, <2>6 DEF p
    <3> QED BY <1>2, <1>4, <1>8, <3>1, <3>2, ArrivedNext
  <2> DEFINE w == kl + vl
             u == o + Len(e)
  <2>8. /\ w \in Nat /\ w \in 0 .. Len(body) /\ u \in Nat /\ u <= length
        /\ Len(body) - w = length - u /\ u = (o + 6) + w
    BY <1>2, <1>6, <1>10, <2>2, <2>3
  <2>9. message' = Message!Skip(body, w) /\ reading' = "params"
    BY <1>1, <1>20, <2>2
  <2>10. u = Len(Code(n + 1))
    BY <1>11
  <2> HIDE DEF w, u
  <2>11. /\ message' \in Seq(Byte) /\ Len(message') = length - u
         /\ \A j \in 1 .. length - u : message'[j] = body[w + j]
    BY <2>2, <2>8, <2>9, SkipFacts
  <2>12. ASSUME NEW j \in 1 .. length - u PROVE message'[j] = c[u + j]
    <3>1. /\ w + j \in 1 .. Len(message) - 6 /\ 6 + (w + j) \in 1 .. length - o
          /\ o + (6 + (w + j)) = u + j
      BY <1>2, <1>6, <2>2, <2>8
    <3>2. message'[j] = message[6 + (w + j)]
      BY <2>2, <2>11, <3>1
    <3> QED BY <1>6, <3>1, <3>2
  <2>13. Len(message') <= length
    BY <1>2, <2>8, <2>11
  <2>14. ~(Cut(Len(data)) /\ n + 1 = Len(data) /\ Message!Blank)
    <3> SUFFICES ASSUME length = Len(c), n + 1 = Len(data), kl = 0, vl = 0 PROVE FALSE
      BY <1>12, <1>13
    <3>1. Len(c) = o + Len(e)
      BY <1>11 DEF c
    <3>2. Len(c) = o + 6
      BY <1>5, <1>10, <3>1
    <3> QED BY <1>2, <1>5, <1>6, <2>1, <3>2
  <2>15. n + 1 > 0
    BY <1>8
  <2>16. /\ reading' = "params" /\ u <= length /\ (n + 1 > 0 \/ message' # <<>>)
         /\ Len(message') = length - u
         /\ \A j \in 1 .. length - u : message'[j] = Code(Len(data))[u + j]
         /\ ~(Cut(Len(data)) /\ n + 1 = Len(data) /\ Message!Blank)
    BY <2>8, <2>9, <2>11, <2>12, <2>14, <2>15 DEF c
  <2> QED BY <1>1, <1>8, <2>7, <2>8, <2>10, <2>11, <2>13, <2>16, ReadOn
<1> QED BY <1>19, <1>20

LEMMA MessageHolds == MessageInv => Message!TypeOK /\ Message!ParametersRead
<1> SUFFICES ASSUME MessageInv PROVE Message!TypeOK /\ Message!ParametersRead
  OBVIOUS
<1>1. MessageTypes
  BY DEF MessageInv
<1>2. PICK n \in 0 .. Len(data) : ReadUpTo(n)
  BY DEF MessageInv
<1>3. Message!TypeOK
  BY <1>1 DEF MessageTypes, Message!TypeOK
<1>4. Message!NothingInvented
  BY <1>2 DEF ReadUpTo, Cut, Code, Message!NothingInvented, Message!Over
<1>5. Message!Whole <=> Cut(Len(data))
  BY <1>1, SentAll DEF MessageTypes, Message!Whole, Cut, Code
<1>6. ASSUME Message!Over, Cut(Len(data))
      PROVE  IF Message!Blank THEN reading = "nil"
             ELSE reading = "read" /\ Message!Arrived(Len(data))
  <2>1. reading \in {"read", "nil"}
    BY <1>6 DEF Message!Over
  <2>2. ASSUME reading = "read" PROVE n = Len(data)
    <3>1. Len(Code(n)) = Len(Code(Len(data)))
      BY <1>2, <1>6, <2>2 DEF ReadUpTo, Cut
    <3>2. Len(data) \in 0 .. Len(data) /\ Len(data) \in Nat
      BY <1>1, ListFacts, MessageConstants DEF MessageTypes
    <3>3. n < Len(data) => Len(Code(n)) < Len(Code(Len(data)))
      BY <1>1, <3>2, CodePrefix DEF MessageTypes
    <3>4. Len(Code(n)) \in Nat
      BY <1>1, CodeIs, SeqFacts DEF MessageTypes
    <3> QED BY <3>1, <3>2, <3>3, <3>4
  <2> QED BY <1>2, <1>6, <2>1, <2>2 DEF ReadUpTo
<1> QED BY <1>3, <1>4, <1>5, <1>6 DEF Message!ParametersRead, Message!RoundTrip

(* What the invariant says of a behaviour about a message.                  *)
MessagePart == part = "message" => MessageInv

LEMMA MessagePartAlways == Spec => []MessagePart
<1>1. Init => MessagePart
  BY MessageStart DEF Init, MessagePart
<1>2. MessagePart /\ [Next]_vars => MessagePart'
  <2> SUFFICES ASSUME MessagePart, [Next]_vars, part' = "message" PROVE MessageInv'
    BY DEF MessagePart
  <2>1. CASE part = "message" /\ Message!Next
    BY <2>1, ReadGuidStep, ReadParamStep, ReadEndStep DEF MessagePart, Message!Next
  <2>2. CASE part' = part /\ UNCHANGED message_vars
    BY <2>2, MessageStutter DEF MessagePart
  <2> QED BY <2>1, <2>2 DEF Next, vars
<1> QED BY <1>1, <1>2, PTL DEF Spec

(* The parameters of a message (the PHP clients, ReadHSParams), for any     *)
(* GUIDs, keys and values that their lengths can be written of: a message   *)
(* that arrives whole is read as it was sent, unless it has no parameter or *)
(* ends with an empty one; one that is cut is refused, or read up to the    *)
(* cut, and what was read of it was sent.                                   *)
THEOREM ParametersAlwaysRead == Spec => []ParametersRead
<1>1. MessagePart => ParametersRead
  BY MessageHolds DEF MessagePart, ParametersRead
<1> QED BY <1>1, MessagePartAlways, PTL
=============================================================================
