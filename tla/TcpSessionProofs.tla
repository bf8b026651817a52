-------------------------- MODULE TcpSessionProofs --------------------------
(***************************************************************************)
(* Proofs about TcpSession, for every shape of messages, every size of the *)
(* buffers and every number of messages: the stream is kept in step, slabs *)
(* are held exactly, answers are faithful, and the connection implements   *)
(* Session.                                                                *)
(***************************************************************************)
EXTENDS TcpSession, SequenceTheorems, WellFoundedInduction, TLAPS

-----------------------------------------------------------------------------
(* The inductive invariant. *)

Kinds == {"ask", "skip", "ex", "zip", "bad", "alien"}
Lengths == {l \in Nat : l >= HeaderLen}
Sendable == [id : 1 .. MaxMessages, len : Lengths, kind : Kinds]
Cell == (0 .. MaxMessages) \X Nat
Encoding == {Plain, [codec |-> "gzip", label |-> "gzip"]}
            \cup {[codec |-> "mp-flate", label |-> l] : l \in {"mp-flate", "mp-snappy"}}
Answers == [to : 0 .. MaxMessages, encoding : Encoding, source : Slices, body : Seq(Cell)]

Typed ==
  /\ setup \in [client : Clients, distance : Distances, compressors : Configs]
  /\ pending \in Seq(Sendable) /\ wire \in Seq(Cell) /\ answers \in Seq(Answers)

(* Messages are numbered as they are sent, and served in that order. *)
Consecutive(q) == \A n \in DOMAIN q : q[n].id = q[1].id + n - 1
Numbered ==
  /\ Consecutive(pending)
  /\ pending # <<>> => pending[Len(pending)].id = sent

(* What the cells in memory and on the wire were when they were sent: none  *)
(* is missing, none on the wire is overwritten, and of those in memory the  *)
(* first is overwritten if any is.                                          *)
Shows(cells, w, s) ==
  /\ Len(s) = Len(cells) + Len(w)
  /\ \A i \in 1 .. Len(cells) : cells[i] = s[i] \/ cells[i] = Junk
  /\ \A i \in 1 .. Len(w) : w[i] = s[Len(cells) + i]
Untouched(cells, s) == \A i \in 1 .. Len(cells) : cells[i] = s[i]

(* The stream ends within the last message. *)
CutShort(s, q) ==
  /\ q # <<>> /\ s # <<>>
  /\ s[Len(s)][1] = q[Len(q)].id /\ s[Len(s)][2] < q[Len(q)].len

Carries(s) ==
  /\ Shows(data_stream.cells, wire, s)
  /\ setup.client = "waits" \/ ~Stained => Untouched(data_stream.cells, s)
  /\ InOrder(s, ToServe)
  /\ IF ending = "cut" THEN CutShort(s, ToServe) ELSE Whole(s, ToServe)
Underway == ~Over /\ pc # "astray" => \E s \in Seq(Cell) : Carries(s)

(* A message that is being read or served is the first of those pending. *)
Framed ==
  /\ data_stream.mem # "own"
  /\ pc \in {"body", "serve"} => pending # <<>> /\ (allocator <=> pending[1].len >= SharedCap)
  /\ pc \in {"body", "serve"} => ~Stained
  /\ pc = "body" => data_stream.cells # <<>>
  /\ pc = "serve" => request.id = pending[1].id
  /\ pc = "astray" => setup.client # "waits"

(* A client that waits for answers has sent nothing behind a message that   *)
(* will have one.                                                           *)
Waiting ==
  setup.client = "waits" => \A i \in 1 .. Len(pending) - 1 : pending[i].kind = "skip"

IInv == TypeOK /\ Typed /\ Numbered /\ Underway /\ Framed /\ Waiting
        /\ SlabsHeldExactly /\ EndServesAll /\ AnswersFaithful

-----------------------------------------------------------------------------
(* Numbers and sequences. *)

LEMMA NatMinimum ==
  ASSUME NEW T, T \subseteq Nat, T # {}
  PROVE  \E m \in T : \A n \in T : m <= n
<1>1. PICK m \in T : \A n \in T : ~(<<n, m>> \in OpToRel(<, Nat))
  BY NatLessThanWellFounded, WFMin, Zenon
<1>2. \A n \in T : ~(n < m)
  BY <1>1 DEF OpToRel
<1> QED BY <1>2

LEMMA LenEmpty ==
  ASSUME NEW E, NEW q \in Seq(E)
  PROVE  q = <<>> <=> Len(q) = 0
BY EmptySeq

LEMMA SeqFacts ==
  ASSUME NEW E, NEW q \in Seq(E)
  PROVE  /\ Len(q) \in Nat /\ DOMAIN q = 1 .. Len(q)
         /\ \A i \in 1 .. Len(q) : q[i] \in E
         /\ q # <<>> <=> Len(q) # 0
<1>1. Len(q) \in Nat /\ DOMAIN q = 1 .. Len(q)
  BY LenProperties
<1>2. q # <<>> <=> Len(q) # 0
  BY LenEmpty
<1> QED BY <1>1, <1>2, ElementOfSeq

LEMMA TailFacts ==
  ASSUME NEW E, NEW q \in Seq(E), q # <<>>
  PROVE  /\ Len(q) \in Nat /\ Len(q) # 0 /\ Head(q) = q[1] /\ q[1] \in E
         /\ Tail(q) \in Seq(E) /\ Len(Tail(q)) = Len(q) - 1
         /\ \A i \in 1 .. Len(q) - 1 : Tail(q)[i] = q[i + 1]
<1>1. Len(q) \in Nat /\ Len(q) # 0
  BY SeqFacts
<1>2. Tail(q) \in Seq(E) /\ Len(Tail(q)) = Len(q) - 1
      /\ \A i \in 1 .. Len(Tail(q)) : Tail(q)[i] = q[i + 1]
  BY HeadTailProperties
<1>3. 1 \in 1 .. Len(q)
  BY <1>1
<1>4. q[1] \in E
  BY <1>3, SeqFacts
<1> QED BY <1>1, <1>2, <1>4

LEMMA AppendFacts ==
  ASSUME NEW E, NEW q \in Seq(E), NEW e \in E
  PROVE  /\ Append(q, e) \in Seq(E) /\ Append(q, e) # <<>> /\ Len(Append(q, e)) = Len(q) + 1
         /\ \A i \in 1 .. Len(q) : Append(q, e)[i] = q[i]
         /\ Append(q, e)[Len(q) + 1] = e
BY AppendProperties

LEMMA SuffixFacts ==
  ASSUME NEW E, NEW s \in Seq(E), NEW n \in 0 .. Len(s)
  PROVE  /\ SubSeq(s, n + 1, Len(s)) \in Seq(E)
         /\ Len(SubSeq(s, n + 1, Len(s))) = Len(s) - n
         /\ \A i \in 1 .. Len(s) - n : SubSeq(s, n + 1, Len(s))[i] = s[n + i]
<1>1. Len(s) \in Nat /\ n \in Nat /\ n <= Len(s)
  BY SeqFacts
<1>2. \A i \in n + 1 .. Len(s) : s[i] \in E
  <2>1. \A i \in n + 1 .. Len(s) : i \in 1 .. Len(s)
    BY <1>1
  <2> QED BY <2>1, SeqFacts
<1>3. n + 1 \in Int /\ Len(s) \in Int
  BY <1>1
<1>4. /\ SubSeq(s, n + 1, Len(s)) \in Seq(E)
      /\ Len(SubSeq(s, n + 1, Len(s))) = IF n + 1 <= Len(s) THEN Len(s) - (n + 1) + 1 ELSE 0
      /\ \A i \in 1 .. Len(s) - (n + 1) + 1 : SubSeq(s, n + 1, Len(s))[i] = s[(n + 1) + i - 1]
  BY <1>2, <1>3, SubSeqProperties
<1>5. \A i \in 1 .. Len(s) - n : i \in 1 .. Len(s) - (n + 1) + 1 /\ n + 1 + i - 1 = n + i
  BY <1>1
<1> QED BY <1>1, <1>4, <1>5

LEMMA PrefixFacts ==
  ASSUME NEW E, NEW s \in Seq(E), NEW n \in 0 .. Len(s)
  PROVE  /\ SubSeq(s, 1, n) \in Seq(E)
         /\ Len(SubSeq(s, 1, n)) = n
         /\ \A i \in 1 .. n : SubSeq(s, 1, n)[i] = s[i]
<1>1. Len(s) \in Nat /\ n \in Nat /\ n <= Len(s)
  BY SeqFacts
<1>2. \A i \in 1 .. n : s[i] \in E
  <2>1. \A i \in 1 .. n : i \in 1 .. Len(s)
    BY <1>1
  <2> QED BY <2>1, SeqFacts
<1>3. /\ SubSeq(s, 1, n) \in Seq(E)
      /\ Len(SubSeq(s, 1, n)) = IF 1 <= n THEN n - 1 + 1 ELSE 0
      /\ \A i \in 1 .. n - 1 + 1 : SubSeq(s, 1, n)[i] = s[1 + i - 1]
  BY <1>1, <1>2, SubSeqProperties
<1>4. \A i \in 1 .. n : i \in 1 .. n - 1 + 1 /\ 1 + i - 1 = i
  BY <1>1
<1> QED BY <1>1, <1>3, <1>4

LEMMA ConcatFacts ==
  ASSUME NEW E, NEW s \in Seq(E), NEW t \in Seq(E)
  PROVE  /\ s \o t \in Seq(E) /\ Len(s \o t) = Len(s) + Len(t)
         /\ \A i \in 1 .. Len(s) : (s \o t)[i] = s[i]
         /\ \A i \in 1 .. Len(t) : (s \o t)[Len(s) + i] = t[i]
<1>1. Len(s) \in Nat /\ Len(t) \in Nat
  BY SeqFacts
<1>2. /\ s \o t \in Seq(E) /\ Len(s \o t) = Len(s) + Len(t)
      /\ \A i \in 1 .. Len(s) + Len(t) :
           (s \o t)[i] = IF i <= Len(s) THEN s[i] ELSE t[i - Len(s)]
  BY ConcatProperties
<1>3. \A i \in 1 .. Len(s) : i \in 1 .. Len(s) + Len(t) /\ i <= Len(s)
  BY <1>1
<1>4. \A i \in 1 .. Len(t) : /\ Len(s) + i \in 1 .. Len(s) + Len(t)
                            /\ ~(Len(s) + i <= Len(s)) /\ Len(s) + i - Len(s) = i
  BY <1>1
<1> QED BY <1>2, <1>3, <1>4

LEMMA BytesFacts ==
  ASSUME NEW m \in Sendable
  PROVE  /\ Bytes(m) \in Seq(Cell) /\ Len(Bytes(m)) = m.len /\ m.len \in Nat \ {0}
         /\ \A i \in 1 .. m.len : Bytes(m)[i] = <<m.id, i>>
<1>1. m.len \in Nat \ {0} /\ m.id \in 0 .. MaxMessages
  BY SessionAssumption DEF Sendable, Lengths
<1>2. Bytes(m) \in [1 .. m.len -> Cell]
  BY <1>1 DEF Bytes, Cell
<1>3. Bytes(m) \in Seq(Cell)
  BY <1>1, <1>2, SeqDef
<1>4. Len(Bytes(m)) = m.len
  BY <1>1, <1>2, <1>3, LenProperties DEF Bytes
<1> QED BY <1>1, <1>3, <1>4 DEF Bytes

-----------------------------------------------------------------------------
(* Streams of cells that are in order. *)

LEMMA MessageFacts ==
  ASSUME NEW q \in Seq(Sendable), NEW n \in DOMAIN q
  PROVE  /\ DOMAIN q = 1 .. Len(q) /\ Len(q) \in Nat /\ n \in Nat /\ 1 <= n /\ n <= Len(q)
         /\ q[n] \in Sendable /\ q[n].id \in 1 .. MaxMessages /\ q[n].id \in Nat
         /\ q[n].len \in Nat /\ q[n].len >= HeaderLen /\ q[n].len >= 1
<1>1. DOMAIN q = 1 .. Len(q) /\ Len(q) \in Nat /\ q[n] \in Sendable
  BY SeqFacts
<1> QED BY <1>1, SessionAssumption DEF Sendable, Lengths

LEMMA CellFacts ==
  ASSUME NEW s \in Seq(Cell), NEW i \in 1 .. Len(s)
  PROVE  /\ s[i] = <<s[i][1], s[i][2]>> /\ s[i][1] \in Nat /\ s[i][2] \in Nat
         /\ i \in Nat /\ Len(s) \in Nat /\ s[i] \in Cell
<1>1. s[i] \in Cell /\ Len(s) \in Nat
  BY SeqFacts
<1> QED BY <1>1, SessionAssumption DEF Cell

(* Each cell is one of a message. *)
LEMMA CellsBelong ==
  ASSUME NEW s \in Seq(Cell), NEW q \in Seq(Sendable), InOrder(s, q), NEW i \in 1 .. Len(s)
  PROVE  \E n \in DOMAIN q : s[i][1] = q[n].id /\ 1 <= s[i][2] /\ s[i][2] <= q[n].len
<1>1. CASE i = 1
  <2>1. s # <<>> /\ Len(s) \in Nat
    BY SeqFacts
  <2>2. q # <<>> /\ s[1] = <<q[1].id, 1>>
    BY <2>1 DEF InOrder
  <2>3. 1 \in DOMAIN q
    BY <2>2, SeqFacts
  <2>4. q[1].len >= 1
    BY <2>3, MessageFacts
  <2> QED BY <1>1, <2>2, <2>3, <2>4
<1>2. CASE i # 1
  <2>1. Len(s) \in Nat /\ i - 1 \in 1 .. Len(s) - 1 /\ i - 1 \in 1 .. Len(s) /\ i - 1 + 1 = i
    BY <1>2, SeqFacts
  <2>2. PICK n \in DOMAIN q : Follows(s, i - 1, q, n)
    BY <2>1 DEF InOrder
  <2>3. s[i - 1][2] \in Nat
    BY <2>1, CellFacts
  <2>4. CASE s[i - 1][2] < q[n].len /\ s[i] = <<q[n].id, s[i - 1][2] + 1>>
    BY <2>3, <2>4, MessageFacts
  <2>5. CASE n < Len(q) /\ s[i] = <<q[n + 1].id, 1>>
    <3>1. n + 1 \in DOMAIN q
      BY <2>5, MessageFacts
    <3>2. q[n + 1].len >= 1
      BY <3>1, MessageFacts
    <3> QED BY <2>5, <3>1, <3>2
  <2> QED BY <2>1, <2>2, <2>4, <2>5 DEF Follows
<1> QED BY <1>1, <1>2

LEMMA DifferentIds ==
  ASSUME NEW q \in Seq(Sendable), Consecutive(q), NEW n \in DOMAIN q, NEW k \in DOMAIN q
  PROVE  q[n].id = q[k].id <=> n = k
<1>1. q[n].id = q[1].id + n - 1 /\ q[k].id = q[1].id + k - 1
  BY DEF Consecutive
<1>2. 1 \in DOMAIN q
  BY MessageFacts
<1> QED BY <1>1, <1>2, MessageFacts

(* What comes after a cell. *)
LEMMA CellAfter ==
  ASSUME NEW s \in Seq(Cell), NEW q \in Seq(Sendable), InOrder(s, q), Consecutive(q),
         NEW i \in 1 .. Len(s) - 1, NEW n \in DOMAIN q, s[i][1] = q[n].id
  PROVE  /\ s[i][2] <= q[n].len
         /\ s[i][2] < q[n].len => s[i + 1] = <<q[n].id, s[i][2] + 1>>
         /\ s[i][2] = q[n].len => n < Len(q) /\ s[i + 1] = <<q[n + 1].id, 1>>
<1>1. PICK k \in DOMAIN q : Follows(s, i, q, k)
  BY DEF InOrder
<1>2. k = n
  <2>1. q[k].id = q[n].id
    BY <1>1 DEF Follows
  <2> QED BY <2>1, DifferentIds
<1>3. i \in 1 .. Len(s)
  BY SeqFacts
<1> QED BY <1>1, <1>2, <1>3, CellFacts, MessageFacts DEF Follows

(* The stream begins with the first message ... *)
LEMMA FirstMessage ==
  ASSUME NEW s \in Seq(Cell), NEW q \in Seq(Sendable), InOrder(s, q), Consecutive(q),
         NEW i \in 1 .. Len(s), i <= q[1].len
  PROVE  s[i] = <<q[1].id, i>>
<1> DEFINE Wrong == {j \in 1 .. Len(s) : j <= q[1].len /\ s[j] # <<q[1].id, j>>}
<1> SUFFICES ASSUME Wrong # {} PROVE FALSE
  OBVIOUS
<1>0. Len(s) \in Nat /\ s # <<>>
  BY SeqFacts
<1>1. q # <<>> /\ s[1] = <<q[1].id, 1>>
  BY <1>0 DEF InOrder
<1>2. 1 \in DOMAIN q
  BY <1>1, SeqFacts
<1>3. PICK m \in Wrong : \A n \in Wrong : m <= n
  <2>1. Wrong \subseteq Nat
    OBVIOUS
  <2> QED BY <2>1, NatMinimum
<1>4. m # 1 /\ m \in 1 .. Len(s)
  BY <1>1
<1>5. m - 1 \in 1 .. Len(s) - 1 /\ m - 1 + 1 = m /\ m - 1 \in 1 .. Len(s) /\ ~(m <= m - 1)
  BY <1>0, <1>4
<1>6. q[1].len \in Nat
  BY <1>2, MessageFacts
<1>7. s[m - 1] = <<q[1].id, m - 1>>
  BY <1>3, <1>5, <1>6
<1>8. PICK k \in 1 .. Len(s) - 1 : k = m - 1
  BY <1>5
<1>9. s[k][1] = q[1].id /\ s[k][2] = k /\ k < q[1].len
  BY <1>3, <1>5, <1>6, <1>7, <1>8
<1>10. s[k + 1] = <<q[1].id, k + 1>>
  BY <1>2, <1>9, CellAfter
<1> QED BY <1>5, <1>8, <1>10

(* ... and does not come back to it. *)
LEMMA AfterFirst ==
  ASSUME NEW s \in Seq(Cell), NEW q \in Seq(Sendable), InOrder(s, q), Consecutive(q),
         NEW i \in 1 .. Len(s), i > q[1].len
  PROVE  s[i][1] # q[1].id
<1> DEFINE Wrong == {j \in 1 .. Len(s) : j > q[1].len /\ s[j][1] = q[1].id}
<1> SUFFICES ASSUME Wrong # {} PROVE FALSE
  OBVIOUS
<1>0. Len(s) \in Nat /\ s # <<>>
  BY SeqFacts
<1>1. q # <<>>
  BY <1>0 DEF InOrder
<1>2. 1 \in DOMAIN q /\ q[1].len \in Nat /\ q[1].len >= 1
  <2>1. 1 \in DOMAIN q
    BY <1>1, SeqFacts
  <2> QED BY <2>1, MessageFacts
<1>3. PICK m \in Wrong : \A n \in Wrong : m <= n
  <2>1. Wrong \subseteq Nat
    OBVIOUS
  <2> QED BY <2>1, NatMinimum
<1>5. m - 1 \in 1 .. Len(s) - 1 /\ m - 1 + 1 = m /\ m - 1 \in 1 .. Len(s) /\ ~(m <= m - 1)
  BY <1>0, <1>2
<1>6. PICK n \in DOMAIN q : s[m - 1][1] = q[n].id
  BY <1>5, CellsBelong
<1>7. \/ s[m] = <<q[n].id, s[m - 1][2] + 1>> /\ s[m - 1][2] < q[n].len
      \/ s[m] = <<q[n + 1].id, 1>> /\ n + 1 \in DOMAIN q /\ s[m - 1][2] = q[n].len
  <2>1. s[m - 1][2] \in Nat /\ q[n].len \in Nat
    BY <1>5, CellFacts, MessageFacts
  <2>2. n < Len(q) => n + 1 \in DOMAIN q
    BY MessageFacts
  <2>3. PICK k \in 1 .. Len(s) - 1 : k = m - 1
    BY <1>5
  <2>4. /\ s[k][2] <= q[n].len
        /\ s[k][2] < q[n].len => s[k + 1] = <<q[n].id, s[k][2] + 1>>
        /\ s[k][2] = q[n].len => n < Len(q) /\ s[k + 1] = <<q[n + 1].id, 1>>
    BY <1>6, <2>3, CellAfter
  <2>5. s[k + 1] = s[m] /\ s[k] = s[m - 1]
    BY <1>5, <2>3
  <2>6. PICK p \in Nat : p = s[m - 1][2]
    BY <2>1
  <2>7. p < q[n].len \/ p = q[n].len
    BY <2>1, <2>4, <2>5, <2>6
  <2>8. CASE p < q[n].len
    <3>1. s[m] = <<q[n].id, p + 1>>
      BY <2>4, <2>5, <2>6, <2>8
    <3> QED BY <3>1, <2>6, <2>8
  <2>9. CASE p = q[n].len
    <3>1. n < Len(q) /\ s[m] = <<q[n + 1].id, 1>>
      BY <2>4, <2>5, <2>6, <2>9
    <3> QED BY <3>1, <2>2, <2>6, <2>9
  <2> QED BY <2>7, <2>8, <2>9
<1>8. s[m][1] = q[1].id
  OBVIOUS
<1>9. n = 1 /\ s[m] = <<q[n].id, s[m - 1][2] + 1>> /\ s[m - 1][2] < q[n].len
  <2>1. CASE s[m] = <<q[n].id, s[m - 1][2] + 1>> /\ s[m - 1][2] < q[n].len
    BY <1>2, <1>8, <2>1, DifferentIds
  <2>2. CASE s[m] = <<q[n + 1].id, 1>> /\ n + 1 \in DOMAIN q
    <3>1. n + 1 = 1
      BY <1>2, <1>8, <2>2, DifferentIds
    <3> QED BY <3>1, MessageFacts
  <2> QED BY <1>7, <2>1, <2>2
<1>10. m - 1 <= q[1].len
  BY <1>3, <1>5, <1>6, <1>9, <1>2
<1>11. s[m - 1] = <<q[1].id, m - 1>>
  BY <1>5, <1>10, FirstMessage
<1> QED BY <1>2, <1>5, <1>9, <1>11

LEMMA ConsecutiveTail ==
  ASSUME NEW q \in Seq(Sendable), Consecutive(q), q # <<>>
  PROVE  Consecutive(Tail(q))
<1>1. PICK t \in Seq(Sendable) : t = Tail(q)
  BY TailFacts
<1>2. Len(q) \in Nat /\ Len(t) = Len(q) - 1 /\ \A i \in 1 .. Len(q) - 1 : t[i] = q[i + 1]
  BY <1>1, TailFacts
<1>3. ASSUME NEW n \in DOMAIN t PROVE t[n].id = t[1].id + n - 1
  <2>1. n \in 1 .. Len(q) - 1 /\ 1 \in 1 .. Len(q) - 1
    BY <1>2, MessageFacts
  <2>2. 2 \in DOMAIN q /\ n + 1 \in DOMAIN q /\ 1 \in DOMAIN q
    BY <1>2, <2>1, SeqFacts
  <2>3. q[2].id = q[1].id + 2 - 1 /\ q[n + 1].id = q[1].id + (n + 1) - 1 /\ q[1].id \in Nat
    BY <2>2, MessageFacts DEF Consecutive
  <2>4. t[1] = q[2] /\ t[n] = q[n + 1]
    BY <1>2, <2>1
  <2>5. PICK a \in Nat : a = q[1].id
    BY <2>3
  <2>6. t[1].id = a + 1 /\ t[n].id = a + n
    BY <2>1, <2>3, <2>4, <2>5
  <2> QED BY <2>1, <2>6
<1> QED BY <1>1, <1>3 DEF Consecutive

(* The first message is all there when the last one, or a part of it, is. *)
LEMMA EnoughCells ==
  ASSUME NEW s \in Seq(Cell), NEW q \in Seq(Sendable), InOrder(s, q), Consecutive(q), q # <<>>,
         Whole(s, q) \/ (CutShort(s, q) /\ Len(q) # 1)
  PROVE  Len(s) >= q[1].len
<1>1. s # <<>> /\ Len(s) \in Nat /\ Len(s) # 0 /\ s[Len(s)][1] = q[Len(q)].id
  <2>1. s # <<>> /\ s[Len(s)][1] = q[Len(q)].id
    BY DEF Whole, CutShort
  <2> QED BY <2>1, SeqFacts
<1>2. Len(q) \in DOMAIN q /\ 1 \in DOMAIN q /\ q[1].len \in Nat
  <2>1. Len(q) \in DOMAIN q /\ 1 \in DOMAIN q
    BY SeqFacts
  <2> QED BY <2>1, MessageFacts
<1> SUFFICES ASSUME Len(s) < q[1].len PROVE FALSE
  BY <1>1, <1>2
<1>3. Len(s) \in 1 .. Len(s) /\ Len(s) <= q[1].len
  BY <1>1, <1>2
<1>4. s[Len(s)] = <<q[1].id, Len(s)>>
  BY <1>3, FirstMessage
<1>5. Len(q) = 1
  <2>1. q[Len(q)].id = q[1].id
    BY <1>1, <1>4
  <2> QED BY <1>2, <2>1, DifferentIds
<1>6. s[Len(s)] = <<q[1].id, q[1].len>>
  BY <1>5 DEF Whole
<1> QED BY <1>1, <1>2, <1>4, <1>6

(* A message that is taken off the stream leaves the next in its place. *)
LEMMA TakeOrder ==
  ASSUME NEW s \in Seq(Cell), NEW q \in Seq(Sendable), InOrder(s, q), Consecutive(q), q # <<>>,
         Len(s) >= q[1].len
  PROVE  /\ InOrder(SubSeq(s, q[1].len + 1, Len(s)), Tail(q))
         /\ Whole(s, q) => Whole(SubSeq(s, q[1].len + 1, Len(s)), Tail(q))
         /\ CutShort(s, q) => CutShort(SubSeq(s, q[1].len + 1, Len(s)), Tail(q))
<1>1. PICK t \in Seq(Sendable) : t = Tail(q)
  BY TailFacts
<1>2. /\ Len(q) \in Nat /\ Len(q) # 0 /\ Len(t) = Len(q) - 1 /\ DOMAIN q = 1 .. Len(q)
      /\ DOMAIN t = 1 .. Len(q) - 1 /\ \A i \in 1 .. Len(q) - 1 : t[i] = q[i + 1]
  BY <1>1, TailFacts, SeqFacts
<1>3. PICK l \in Nat : l = q[1].len /\ l >= 1 /\ l <= Len(s) /\ Len(s) \in Nat
  <2>1. 1 \in DOMAIN q
    BY <1>2
  <2> QED BY <2>1, MessageFacts, SeqFacts
<1>4. PICK r \in Seq(Cell) : r = SubSeq(s, q[1].len + 1, Len(s)) /\ r = SubSeq(s, l + 1, Len(s))
  <2>1. l \in 0 .. Len(s)
    BY <1>3
  <2>2. SubSeq(s, l + 1, Len(s)) \in Seq(Cell)
    BY <2>1, SuffixFacts
  <2> QED BY <1>3, <2>2
<1>5. Len(r) = Len(s) - l /\ \A i \in 1 .. Len(s) - l : r[i] = s[l + i]
  <2>1. l \in 0 .. Len(s)
    BY <1>3
  <2> QED BY <1>4, <2>1, SuffixFacts
<1>6. s[l] = <<q[1].id, l>>
  BY <1>3, FirstMessage
<1>7. Len(s) > l => t # <<>> /\ s[l + 1] = <<t[1].id, 1>>
  <2> SUFFICES ASSUME Len(s) > l PROVE t # <<>> /\ s[l + 1] = <<t[1].id, 1>>
    OBVIOUS
  <2>1. l \in 1 .. Len(s) - 1 /\ 1 \in DOMAIN q /\ s[l][1] = q[1].id /\ s[l][2] = q[1].len
    BY <1>2, <1>3, <1>6
  <2>2. 1 < Len(q) /\ s[l + 1] = <<q[1 + 1].id, 1>>
    BY <2>1, CellAfter
  <2>3. 1 \in 1 .. Len(q) - 1 /\ Len(t) # 0
    BY <1>2, <2>2
  <2>4. t # <<>>
    BY <2>3, SeqFacts
  <2> QED BY <1>2, <2>2, <2>3, <2>4
<1>8. InOrder(r, t)
  <2>1. r # <<>> => t # <<>> /\ r[1] = <<t[1].id, 1>>
    <3> SUFFICES ASSUME r # <<>> PROVE t # <<>> /\ r[1] = <<t[1].id, 1>>
      OBVIOUS
    <3>1. Len(r) # 0 /\ Len(r) \in Nat
      BY SeqFacts
    <3>2. Len(s) > l /\ 1 \in 1 .. Len(s) - l
      BY <1>3, <1>5, <3>1
    <3> QED BY <1>5, <1>7, <3>2
  <2>2. ASSUME NEW i \in 1 .. Len(r) - 1
        PROVE  \E n \in DOMAIN t : Follows(r, i, t, n)
    <3>0. i \in Nat /\ 1 <= i /\ i <= Len(s) - l - 1
      BY <1>3, <1>5
    <3>a. PICK j \in Nat : j = l + i
      BY <3>0
    <3>b. Len(s) \in Nat /\ l <= Len(s)
      BY <1>3
    <3>c. j \in 1 .. Len(s) - 1 /\ j \in 1 .. Len(s) /\ j > l
      BY <3>a, <3>b, <3>0
    <3>1. j = l + i /\ j \in 1 .. Len(s) - 1 /\ j \in 1 .. Len(s) /\ j > q[1].len
      BY <1>3, <3>a, <3>c
    <3>2. r[i] = s[j] /\ r[i + 1] = s[j + 1]
      <4>1. i \in 1 .. Len(s) - l /\ i + 1 \in 1 .. Len(s) - l /\ l + (i + 1) = j + 1
        BY <3>0, <3>a, <3>b
      <4> QED BY <1>5, <3>1, <4>1
    <3>3. PICK n \in DOMAIN q : Follows(s, j, q, n)
      BY <3>1 DEF InOrder
    <3>4. n # 1
      BY <3>1, <3>3, AfterFirst DEF Follows
    <3>5. PICK k \in DOMAIN t : k = n - 1
      BY <1>2, <3>4
    <3>6. t[k] = q[n] /\ (n < Len(q) => k < Len(t) /\ t[k + 1] = q[n + 1])
      <4>1. k + 1 = n /\ k \in 1 .. Len(q) - 1
        BY <1>2, <3>5
      <4>2. n < Len(q) => k < Len(t) /\ k + 1 \in 1 .. Len(q) - 1
        BY <1>2, <3>5, <4>1
      <4> QED BY <1>2, <4>1, <4>2
    <3>7. Follows(r, i, t, k)
      <4>1. k + 1 = n
        BY <1>2, <3>5
      <4> QED BY <3>2, <3>3, <3>6, <4>1 DEF Follows
    <3> QED BY <3>7
  <2> QED BY <2>1, <2>2 DEF InOrder
<1>9. s # <<>> /\ Len(q) # 1 /\ s[Len(s)][1] = q[Len(q)].id
      => /\ t # <<>> /\ r # <<>> /\ r[Len(r)] = s[Len(s)] /\ t[Len(t)] = q[Len(q)]
  <2> SUFFICES ASSUME s # <<>>, Len(q) # 1, s[Len(s)][1] = q[Len(q)].id
               PROVE  /\ t # <<>> /\ r # <<>> /\ r[Len(r)] = s[Len(s)] /\ t[Len(t)] = q[Len(q)]
    OBVIOUS
  <2>1. t # <<>> /\ t[Len(t)] = q[Len(q)]
    <3>1. Len(t) # 0 /\ Len(t) \in 1 .. Len(q) - 1 /\ Len(t) + 1 = Len(q)
      BY <1>2
    <3>2. t # <<>>
      BY <3>1, SeqFacts
    <3> QED BY <1>2, <3>1, <3>2
  <2>2. Len(s) # l
    <3> SUFFICES ASSUME Len(s) = l PROVE FALSE
      OBVIOUS
    <3>1. q[Len(q)].id = q[1].id
      BY <1>6
    <3>2. Len(q) \in DOMAIN q /\ 1 \in DOMAIN q
      BY <1>2
    <3> QED BY <3>1, <3>2, DifferentIds
  <2>3. Len(s) - l \in 1 .. Len(s) - l /\ l + (Len(s) - l) = Len(s) /\ Len(r) # 0
    BY <1>3, <1>5, <2>2
  <2>4. r # <<>>
    BY <2>3, SeqFacts
  <2> QED BY <1>5, <2>1, <2>3, <2>4
<1>10. ASSUME Whole(s, q) PROVE Whole(r, t)
  <2> SUFFICES ASSUME t # <<>> PROVE r # <<>> /\ r[Len(r)] = <<t[Len(t)].id, t[Len(t)].len>>
    BY DEF Whole
  <2>1. Len(q) # 1
    <3>1. Len(t) # 0
      BY SeqFacts
    <3> QED BY <1>2, <3>1
  <2>2. s # <<>> /\ s[Len(s)] = <<q[Len(q)].id, q[Len(q)].len>>
    BY <1>10 DEF Whole
  <2> QED BY <1>9, <2>1, <2>2
<1>11. ASSUME CutShort(s, q) PROVE CutShort(r, t)
  <2>1. s # <<>> /\ s[Len(s)][1] = q[Len(q)].id /\ s[Len(s)][2] < q[Len(q)].len
    BY <1>11 DEF CutShort
  <2>2. Len(q) # 1
    <3> SUFFICES ASSUME Len(q) = 1 PROVE FALSE
      OBVIOUS
    <3>1. Len(s) \in 1 .. Len(s)
      BY <1>3
    <3>2. CASE Len(s) > l
      BY <1>3, <2>1, <3>1, <3>2, AfterFirst
    <3>3. CASE Len(s) = l
      BY <1>3, <1>6, <2>1, <3>3
    <3> QED BY <1>3, <3>2, <3>3
  <2> QED BY <1>9, <2>1, <2>2 DEF CutShort
<1> QED BY <1>1, <1>4, <1>8, <1>10, <1>11

(* A message that is sent goes behind the last one. *)
LEMMA SendOrder ==
  ASSUME NEW s \in Seq(Cell), NEW q \in Seq(Sendable), NEW m \in Sendable,
         InOrder(s, q), Whole(s, q)
  PROVE  InOrder(s \o Bytes(m), Append(q, m)) /\ Whole(s \o Bytes(m), Append(q, m))
<1>1. PICK b \in Seq(Cell), l \in Nat \ {0} :
         b = Bytes(m) /\ Len(b) = l /\ l = m.len /\ \A i \in 1 .. l : b[i] = <<m.id, i>>
  BY BytesFacts
<1>2. PICK t \in Seq(Cell), u \in Seq(Sendable) : t = s \o b /\ u = Append(q, m)
  BY ConcatFacts, AppendFacts
<1>3. /\ Len(t) = Len(s) + l /\ Len(s) \in Nat
      /\ \A i \in 1 .. Len(s) : t[i] = s[i]
      /\ \A i \in 1 .. l : t[Len(s) + i] = <<m.id, i>>
  BY <1>1, <1>2, ConcatFacts, SeqFacts
<1>4. /\ Len(u) = Len(q) + 1 /\ Len(q) \in Nat /\ DOMAIN q = 1 .. Len(q) /\ DOMAIN u = 1 .. Len(q) + 1
      /\ u # <<>> /\ u[Len(q) + 1] = m /\ \A i \in 1 .. Len(q) : u[i] = q[i]
  <2>1. Len(u) = Len(q) + 1 /\ u # <<>> /\ u[Len(q) + 1] = m /\ \A i \in 1 .. Len(q) : u[i] = q[i]
    BY <1>2, AppendFacts
  <2> QED BY <2>1, SeqFacts
<1>5. t # <<>> /\ t[Len(t)] = <<m.id, l>>
  <2>1. Len(t) # 0 /\ l \in 1 .. l
    BY <1>3
  <2>2. t # <<>>
    BY <2>1, SeqFacts
  <2> QED BY <1>3, <2>1, <2>2
<1>6. t[1] = <<u[1].id, 1>>
  <2>1. CASE s = <<>>
    <3>1. q = <<>>
      BY <2>1 DEF Whole
    <3>2. Len(s) = 0 /\ Len(q) = 0
      BY <2>1, <3>1, SeqFacts
    <3>3. 1 \in 1 .. l /\ 0 + 1 = 1
      OBVIOUS
    <3> QED BY <1>3, <1>4, <3>2, <3>3
  <2>2. CASE s # <<>>
    <3>1. q # <<>> /\ s[1] = <<q[1].id, 1>>
      BY <2>2 DEF InOrder
    <3>2. Len(s) # 0 /\ Len(q) # 0
      BY <2>2, <3>1, SeqFacts
    <3>3. 1 \in 1 .. Len(s) /\ 1 \in 1 .. Len(q)
      BY <1>3, <1>4, <3>2
    <3> QED BY <1>3, <1>4, <3>1, <3>3
  <2> QED BY <2>1, <2>2
<1>7. ASSUME NEW i \in 1 .. Len(t) - 1
      PROVE  \E n \in DOMAIN u : Follows(t, i, u, n)
  <2>0. i \in Nat /\ 1 <= i /\ i <= Len(s) + l - 1
    BY <1>3
  <2>1. CASE i < Len(s)
    <3>1. i \in 1 .. Len(s) - 1 /\ i \in 1 .. Len(s) /\ i + 1 \in 1 .. Len(s)
      BY <1>3, <2>0, <2>1
    <3>2. PICK n \in DOMAIN q : Follows(s, i, q, n)
      BY <3>1 DEF InOrder
    <3>3. t[i] = s[i] /\ t[i + 1] = s[i + 1]
      BY <1>3, <3>1
    <3>4. n \in DOMAIN u /\ u[n] = q[n] /\ (n < Len(q) => n < Len(u) /\ u[n + 1] = q[n + 1])
      BY <1>4
    <3>5. Follows(t, i, u, n)
      BY <3>2, <3>3, <3>4 DEF Follows
    <3> QED BY <3>4, <3>5
  <2>2. CASE i = Len(s)
    <3>1. s # <<>>
      BY <2>0, <2>2, SeqFacts
    <3>2. q # <<>>
      BY <3>1 DEF InOrder
    <3>3. s[Len(s)] = <<q[Len(q)].id, q[Len(q)].len>>
      BY <3>2 DEF Whole
    <3>4. Len(q) # 0
      BY <3>2, SeqFacts
    <3>5. Len(q) \in DOMAIN u /\ u[Len(q)] = q[Len(q)] /\ Len(q) < Len(u)
      BY <1>4, <3>4
    <3>6. t[i] = s[i] /\ i \in 1 .. Len(s) /\ 1 \in 1 .. l
      BY <1>3, <2>0, <2>2
    <3>7. t[i + 1] = <<m.id, 1>>
      BY <1>3, <2>2, <3>6
    <3>8. Follows(t, i, u, Len(q))
      BY <1>4, <2>2, <3>3, <3>5, <3>6, <3>7 DEF Follows
    <3> QED BY <3>5, <3>8
  <2>3. CASE i > Len(s)
    <3>0. i - Len(s) \in Nat
      BY <1>3, <2>0, <2>3
    <3>1. PICK j \in Nat : j = i - Len(s)
      BY <3>0
    <3>2. j \in 1 .. l /\ j + 1 \in 1 .. l /\ Len(s) + j = i /\ Len(s) + (j + 1) = i + 1 /\ j < l
      BY <1>3, <2>0, <2>3, <3>1
    <3>3. t[i] = <<m.id, j>> /\ t[i + 1] = <<m.id, j + 1>>
      BY <1>3, <3>2
    <3>4. Len(q) + 1 \in DOMAIN u
      BY <1>4
    <3>5. Follows(t, i, u, Len(q) + 1)
      BY <1>1, <1>4, <3>2, <3>3, <3>4 DEF Follows
    <3> QED BY <3>4, <3>5
  <2> QED BY <1>3, <2>0, <2>1, <2>2, <2>3
<1>8. InOrder(t, u)
  BY <1>4, <1>6, <1>7 DEF InOrder
<1>9. Whole(t, u)
  BY <1>1, <1>4, <1>5 DEF Whole
<1> QED BY <1>1, <1>2, <1>8, <1>9

(* Before a cell of a message come those with smaller numbers. *)
LEMMA CellsBefore ==
  ASSUME NEW s \in Seq(Cell), NEW q \in Seq(Sendable), InOrder(s, q), s # <<>>,
         NEW k \in Nat, k < s[Len(s)][2]
  PROVE  k < Len(s) /\ s[Len(s) - k] = <<s[Len(s)][1], s[Len(s)][2] - k>>
<1>1. Len(s) \in Nat /\ Len(s) # 0
  BY SeqFacts
<1>2. PICK a \in Nat, c \in Nat : s[Len(s)] = <<a, c>>
  <2>1. Len(s) \in 1 .. Len(s)
    BY <1>1
  <2> QED BY <2>1, CellFacts
<1> DEFINE Wrong == {j \in Nat : j < c /\ ~(j < Len(s) /\ s[Len(s) - j] = <<a, c - j>>)}
<1> SUFFICES ASSUME Wrong # {} PROVE FALSE
  <2>1. ASSUME Wrong = {}
        PROVE  k < Len(s) /\ s[Len(s) - k] = <<a, c - k>>
    <3>1. k < c
      BY <1>2
    <3> QED BY <2>1, <3>1
  <2>2. s[Len(s)][1] = a /\ s[Len(s)][2] = c
    BY <1>2
  <2>3. Wrong = {}
    OBVIOUS
  <2> QED BY <2>1, <2>2, <2>3
<1>3. PICK m \in Wrong : \A n \in Wrong : m <= n
  <2>1. Wrong \subseteq Nat
    OBVIOUS
  <2> QED BY <2>1, NatMinimum
<1>4. m # 0
  BY <1>1, <1>2
<1>5. PICK j \in Nat : j = m - 1
  BY <1>4
<1>6. j < Len(s) /\ s[Len(s) - j] = <<a, c - j>> /\ m < c /\ m = j + 1
  <2>1. m \in Nat /\ m < c /\ m = j + 1 /\ j < c /\ ~(m <= j)
    BY <1>4, <1>5
  <2>2. j \notin Wrong
    BY <1>3, <2>1
  <2> QED BY <2>1, <2>2
<1>7. PICK i \in Nat : i = Len(s) - j
  <2>1. Len(s) - j \in Nat
    BY <1>1, <1>6
  <2> QED BY <2>1
<1>8. i \in 1 .. Len(s) /\ s[i] = <<a, c - j>> /\ c - j > 1
  BY <1>1, <1>6, <1>7
<1>9. i # 1
  <2>1. s[1][2] = 1
    BY DEF InOrder
  <2> QED BY <1>8, <2>1
<1>10. PICK h \in Nat : h = i - 1
  BY <1>8, <1>9
<1>11. h \in 1 .. Len(s) - 1 /\ h + 1 = i /\ h \in 1 .. Len(s)
  BY <1>1, <1>8, <1>9, <1>10
<1>12. PICK n \in DOMAIN q : Follows(s, h, q, n)
  BY <1>11 DEF InOrder
<1>13. s[h][1] = a /\ s[h][2] + 1 = c - j
  BY <1>8, <1>11, <1>12 DEF Follows
<1>14. s[h] = <<a, c - m>>
  <2>1. s[h][2] \in Nat /\ s[h] = <<s[h][1], s[h][2]>>
    BY <1>11, CellFacts
  <2>2. s[h][2] = c - m
    <3>1. PICK z \in Nat : z = s[h][2]
      BY <2>1
    <3>2. z + 1 = c - j /\ m = j + 1
      BY <1>6, <1>13, <3>1
    <3>3. m \in Nat
      BY <3>2
    <3>4. z = c - m
      BY <3>2, <3>3
    <3> QED BY <3>1, <3>4
  <2> QED BY <1>13, <2>1, <2>2
<1>15. h = Len(s) - m /\ m < Len(s)
  BY <1>1, <1>6, <1>7, <1>10, <1>11
<1> QED BY <1>3, <1>14, <1>15

(* A client that leaves in the middle of its last message. *)
LEMMA CutOrder ==
  ASSUME NEW s \in Seq(Cell), NEW q \in Seq(Sendable), InOrder(s, q), Whole(s, q), s # <<>>,
         NEW k \in Nat \ {0}, k < s[Len(s)][2]
  PROVE  /\ k < Len(s) /\ InOrder(SubSeq(s, 1, Len(s) - k), q)
         /\ CutShort(SubSeq(s, 1, Len(s) - k), q)
<1>1. Len(s) \in Nat /\ k < Len(s) /\ s[Len(s) - k] = <<s[Len(s)][1], s[Len(s)][2] - k>>
  BY CellsBefore, SeqFacts
<1>2. PICK l \in Nat : l = Len(s) - k /\ l \in 0 .. Len(s) /\ l # 0 /\ l < Len(s)
  BY <1>1
<1>3. PICK p \in Seq(Cell) : p = SubSeq(s, 1, l)
  BY <1>2, PrefixFacts
<1>4. Len(p) = l /\ \A i \in 1 .. l : p[i] = s[i]
  BY <1>2, <1>3, PrefixFacts
<1>5. q # <<>> /\ s[1] = <<q[1].id, 1>>
  BY DEF InOrder
<1>6. p # <<>> /\ 1 \in 1 .. l /\ l \in 1 .. l
  <2>1. p # <<>>
    BY <1>2, <1>4, SeqFacts
  <2> QED BY <1>2, <2>1
<1>7. ASSUME NEW i \in 1 .. l - 1
      PROVE  i \in 1 .. Len(s) - 1 /\ p[i] = s[i] /\ p[i + 1] = s[i + 1]
  <2>1. i \in 1 .. Len(s) - 1 /\ i \in 1 .. l /\ i + 1 \in 1 .. l
    BY <1>1, <1>2
  <2> QED BY <1>4, <2>1
<1>8. InOrder(p, q)
  <2>1. p[1] = <<q[1].id, 1>>
    BY <1>4, <1>5, <1>6
  <2>2. ASSUME NEW i \in 1 .. l - 1
        PROVE  \E n \in DOMAIN q : Follows(p, i, q, n)
    <3>1. PICK n \in DOMAIN q : Follows(s, i, q, n)
      BY <1>7 DEF InOrder
    <3>2. Follows(p, i, q, n)
      BY <1>7, <3>1 DEF Follows
    <3> QED BY <3>2
  <2> QED BY <1>4, <1>5, <2>1, <2>2 DEF InOrder
<1>9. CutShort(p, q)
  <2>1. s[Len(s)] = <<q[Len(q)].id, q[Len(q)].len>>
    BY <1>5 DEF Whole
  <2>2. Len(q) \in DOMAIN q
    BY <1>5, SeqFacts
  <2>3. q[Len(q)].len \in Nat
    BY <2>2, MessageFacts
  <2>4. p[Len(p)] = <<q[Len(q)].id, q[Len(q)].len - k>>
    BY <1>1, <1>2, <1>4, <1>6, <2>1
  <2> QED BY <1>5, <1>6, <2>3, <2>4 DEF CutShort
<1> QED BY <1>1, <1>2, <1>3, <1>8, <1>9

-----------------------------------------------------------------------------
(* What the server holds, and what is on the wire. *)

LEMMA ShowsFacts ==
  ASSUME NEW c \in Seq(Cell), NEW w \in Seq(Cell), NEW s \in Seq(Cell), Shows(c, w, s)
  PROVE  /\ Len(c) \in Nat /\ Len(w) \in Nat /\ Len(s) = Len(c) + Len(w)
         /\ \A i \in 1 .. Len(c) : i \in 1 .. Len(s)
         /\ c # <<>> /\ c[1] # Junk => s # <<>> /\ c[1] = s[1]
<1>1. Len(c) \in Nat /\ Len(w) \in Nat /\ Len(s) = Len(c) + Len(w)
  BY SeqFacts DEF Shows
<1>2. c # <<>> => s # <<>> /\ 1 \in 1 .. Len(c)
  BY <1>1, SeqFacts
<1> QED BY <1>1, <1>2 DEF Shows

LEMMA ReadShows ==
  ASSUME NEW c \in Seq(Cell), NEW w \in Seq(Cell), NEW s \in Seq(Cell), Shows(c, w, s),
         NEW n \in 0 .. Len(w)
  PROVE  /\ Shows(c \o SubSeq(w, 1, n), SubSeq(w, n + 1, Len(w)), s)
         /\ Untouched(c, s) => Untouched(c \o SubSeq(w, 1, n), s)
<1>1. PICK a \in Seq(Cell), b \in Seq(Cell) : a = SubSeq(w, 1, n) /\ b = SubSeq(w, n + 1, Len(w))
  BY PrefixFacts, SuffixFacts
<1>2. /\ Len(a) = n /\ \A i \in 1 .. n : a[i] = w[i]
      /\ Len(b) = Len(w) - n /\ \A i \in 1 .. Len(w) - n : b[i] = w[n + i]
  BY <1>1, PrefixFacts, SuffixFacts
<1>3. PICK d \in Seq(Cell) : d = c \o a
  BY ConcatFacts
<1>4. /\ Len(d) = Len(c) + n /\ \A i \in 1 .. Len(c) : d[i] = c[i]
      /\ \A i \in 1 .. n : d[Len(c) + i] = a[i]
  <2>1. /\ Len(d) = Len(c) + Len(a) /\ \A i \in 1 .. Len(c) : d[i] = c[i]
        /\ \A i \in 1 .. Len(a) : d[Len(c) + i] = a[i]
    BY <1>3, ConcatFacts
  <2>2. Len(a) = n
    BY <1>2
  <2> QED BY <2>1, <2>2
<1>5. Len(c) \in Nat /\ Len(w) \in Nat /\ Len(s) = Len(c) + Len(w) /\ n \in Nat /\ n <= Len(w)
  BY ShowsFacts
<1>6. ASSUME NEW i \in 1 .. Len(d)
      PROVE  \/ i \in 1 .. Len(c) /\ d[i] = c[i]
             \/ d[i] = s[i]
  <2>1. CASE i <= Len(c)
    BY <1>4, <1>5, <2>1
  <2>2. CASE i > Len(c)
    <3>1. i - Len(c) \in 1 .. n /\ i - Len(c) \in 1 .. Len(w) /\ Len(c) + (i - Len(c)) = i
      BY <1>4, <1>5, <2>2
    <3>2. PICK j \in 1 .. n : j = i - Len(c) /\ j \in 1 .. Len(w) /\ Len(c) + j = i
      BY <3>1
    <3>3. d[i] = w[j]
      BY <1>2, <1>4, <3>2
    <3>4. w[j] = s[i]
      BY <3>2 DEF Shows
    <3> QED BY <3>3, <3>4
  <2> QED BY <1>4, <1>5, <2>1, <2>2
<1>7. ASSUME NEW i \in 1 .. Len(b) PROVE b[i] = s[Len(d) + i]
  <2>1. PICK j \in Nat : j = n + i
    BY <1>5
  <2>2. i \in 1 .. Len(w) - n /\ j \in 1 .. Len(w) /\ Len(c) + j = Len(d) + i
    BY <1>2, <1>4, <1>5, <2>1
  <2>3. b[i] = w[j]
    BY <1>2, <2>1, <2>2
  <2>4. w[j] = s[Len(c) + j]
    BY <2>2 DEF Shows
  <2> QED BY <2>2, <2>3, <2>4
<1>8. Len(s) = Len(d) + Len(b)
  BY <1>2, <1>4, <1>5
<1>9. Shows(d, b, s)
  BY <1>6, <1>7, <1>8 DEF Shows
<1>10. Untouched(c, s) => Untouched(d, s)
  BY <1>6 DEF Untouched
<1> QED BY <1>1, <1>3, <1>9, <1>10

LEMMA TakeShows ==
  ASSUME NEW c \in Seq(Cell), NEW w \in Seq(Cell), NEW s \in Seq(Cell), Shows(c, w, s),
         NEW n \in 0 .. Len(c)
  PROVE  /\ Shows(SubSeq(c, n + 1, Len(c)), w, SubSeq(s, n + 1, Len(s)))
         /\ Untouched(c, s) => Untouched(SubSeq(c, n + 1, Len(c)), SubSeq(s, n + 1, Len(s)))
<1>1. Len(c) \in Nat /\ Len(w) \in Nat /\ Len(s) = Len(c) + Len(w) /\ n \in Nat /\ n <= Len(c)
      /\ n \in 0 .. Len(s)
  BY ShowsFacts
<1>2. PICK a \in Seq(Cell), b \in Seq(Cell) :
         a = SubSeq(c, n + 1, Len(c)) /\ b = SubSeq(s, n + 1, Len(s))
  BY <1>1, SuffixFacts
<1>3. /\ Len(a) = Len(c) - n /\ \A i \in 1 .. Len(c) - n : a[i] = c[n + i]
      /\ Len(b) = Len(s) - n /\ \A i \in 1 .. Len(s) - n : b[i] = s[n + i]
  BY <1>1, <1>2, SuffixFacts
<1>4. ASSUME NEW i \in 1 .. Len(a)
      PROVE  \E j \in 1 .. Len(c) : a[i] = c[j] /\ b[i] = s[j]
  <2>1. PICK j \in Nat : j = n + i
    BY <1>1, <1>3
  <2>2. j \in 1 .. Len(c) /\ i \in 1 .. Len(c) - n /\ i \in 1 .. Len(s) - n
    BY <1>1, <1>3, <2>1
  <2> QED BY <1>3, <2>1, <2>2
<1>5. ASSUME NEW i \in 1 .. Len(w) PROVE w[i] = b[Len(a) + i]
  <2>0. i \in Nat /\ 1 <= i /\ i <= Len(w) /\ Len(a) \in Nat
    BY <1>1, <1>3
  <2>1. PICK j \in Nat : j = Len(a) + i
    BY <2>0
  <2>2. j \in 1 .. Len(s) - n /\ n + j = Len(c) + i
    BY <1>1, <1>3, <2>0, <2>1
  <2>3. b[j] = s[Len(c) + i]
    BY <1>3, <2>2
  <2> QED BY <2>1, <2>3 DEF Shows
<1>6. Len(b) = Len(a) + Len(w)
  BY <1>1, <1>3
<1>7. Shows(a, w, b)
  BY <1>4, <1>5, <1>6 DEF Shows
<1>8. Untouched(c, s) => Untouched(a, b)
  BY <1>4 DEF Untouched
<1> QED BY <1>2, <1>7, <1>8

LEMMA SendShows ==
  ASSUME NEW c \in Seq(Cell), NEW w \in Seq(Cell), NEW s \in Seq(Cell), Shows(c, w, s),
         NEW b \in Seq(Cell)
  PROVE  /\ Shows(c, w \o b, s \o b)
         /\ Untouched(c, s) => Untouched(c, s \o b)
<1>1. Len(c) \in Nat /\ Len(w) \in Nat /\ Len(s) = Len(c) + Len(w) /\ Len(b) \in Nat
      /\ \A i \in 1 .. Len(c) : i \in 1 .. Len(s)
  BY ShowsFacts, SeqFacts
<1>2. PICK v \in Seq(Cell), t \in Seq(Cell) : v = w \o b /\ t = s \o b
  BY ConcatFacts
<1>3. /\ Len(v) = Len(w) + Len(b) /\ \A i \in 1 .. Len(w) : v[i] = w[i]
      /\ \A i \in 1 .. Len(b) : v[Len(w) + i] = b[i]
      /\ Len(t) = Len(s) + Len(b) /\ \A i \in 1 .. Len(s) : t[i] = s[i]
      /\ \A i \in 1 .. Len(b) : t[Len(s) + i] = b[i]
  BY <1>2, ConcatFacts
<1>4. ASSUME NEW i \in 1 .. Len(v) PROVE v[i] = t[Len(c) + i]
  <2>1. CASE i <= Len(w)
    <3>1. i \in 1 .. Len(w) /\ Len(c) + i \in 1 .. Len(s)
      BY <1>1, <1>3, <2>1
    <3> QED BY <1>3, <3>1 DEF Shows
  <2>2. CASE i > Len(w)
    <3>1. i - Len(w) \in 1 .. Len(b)
      BY <1>1, <1>3, <2>2
    <3>2. PICK j \in 1 .. Len(b) : j = i - Len(w)
      BY <3>1
    <3>3. Len(w) + j = i /\ Len(s) + j = Len(c) + i
      BY <1>1, <1>3, <3>2
    <3> QED BY <1>3, <3>3
  <2> QED BY <1>1, <1>3, <2>1, <2>2
<1>5. Len(t) = Len(c) + Len(v)
  BY <1>1, <1>3
<1>6. Shows(c, v, t)
  BY <1>1, <1>3, <1>4, <1>5 DEF Shows
<1>7. Untouched(c, s) => Untouched(c, t)
  BY <1>1, <1>3 DEF Untouched
<1> QED BY <1>2, <1>6, <1>7

LEMMA CutShows ==
  ASSUME NEW c \in Seq(Cell), NEW w \in Seq(Cell), NEW s \in Seq(Cell), Shows(c, w, s),
         NEW k \in 0 .. Len(w)
  PROVE  /\ Shows(c, SubSeq(w, 1, Len(w) - k), SubSeq(s, 1, Len(s) - k))
         /\ Untouched(c, s) => Untouched(c, SubSeq(s, 1, Len(s) - k))
<1>1. Len(c) \in Nat /\ Len(w) \in Nat /\ Len(s) = Len(c) + Len(w) /\ k \in Nat /\ k <= Len(w)
  BY ShowsFacts
<1>2. PICK m \in 0 .. Len(w), n \in 0 .. Len(s) :
         m = Len(w) - k /\ n = Len(s) - k /\ n = Len(c) + m /\ m \in Nat
  <2>1. /\ Len(w) - k \in 0 .. Len(w) /\ Len(s) - k \in 0 .. Len(s)
        /\ Len(s) - k = Len(c) + (Len(w) - k) /\ Len(w) - k \in Nat
    BY <1>1
  <2> QED BY <2>1
<1>3. PICK v \in Seq(Cell), t \in Seq(Cell) : v = SubSeq(w, 1, m) /\ t = SubSeq(s, 1, n)
  BY PrefixFacts
<1>4. /\ Len(v) = m /\ \A i \in 1 .. m : v[i] = w[i]
      /\ Len(t) = n /\ \A i \in 1 .. n : t[i] = s[i]
  BY <1>3, PrefixFacts
<1>5. \A i \in 1 .. Len(c) : i \in 1 .. n
  BY <1>1, <1>2
<1>6. \A i \in 1 .. m : i \in 1 .. Len(w) /\ Len(c) + i \in 1 .. n
  BY <1>1, <1>2
<1>7. Shows(c, v, t)
  BY <1>2, <1>4, <1>5, <1>6 DEF Shows
<1>8. Untouched(c, s) => Untouched(c, t)
  BY <1>4, <1>5 DEF Untouched
<1> QED BY <1>2, <1>3, <1>7, <1>8

-----------------------------------------------------------------------------
(* Slices. *)

LEMMA SliceFacts ==
  ASSUME NEW x \in Slices
  PROVE  /\ x = [mem |-> x.mem, off |-> x.off, cells |-> x.cells]
         /\ x.mem \in {"heap", "own", "shared", "slab"} /\ x.off \in Nat
         /\ x.cells \in Seq(Cell)
BY DEF Slices, Cell

LEMMA MakeSlice ==
  ASSUME NEW m \in {"heap", "own", "shared", "slab"}, NEW o \in Nat, NEW c \in Seq(Cell)
  PROVE  [mem |-> m, off |-> o, cells |-> c] \in Slices
BY DEF Slices, Cell

LEMMA EmptySlice ==
  Empty \in Slices /\ Empty.mem = "heap" /\ Empty.cells = <<>> /\ Len(Empty.cells) = 0
<1>1. <<>> \in Seq(Cell)
  OBVIOUS
<1> QED BY <1>1, MakeSlice DEF Empty

LEMMA MovedRecord ==
  ASSUME NEW A, NEW B, NEW C, NEW x \in [mem : A, off : B, cells : C], NEW c \in C, NEW n \in B
  PROVE  /\ [x EXCEPT !.cells = c, !.off = n] \in [mem : A, off : B, cells : C]
         /\ [x EXCEPT !.cells = c, !.off = n].mem = x.mem
         /\ [x EXCEPT !.cells = c, !.off = n].cells = c
OBVIOUS

Moved(x, c, n) == [x EXCEPT !.cells = c, !.off = n]

LEMMA MovedSlice ==
  ASSUME NEW x \in Slices, NEW c \in Seq(Cell), NEW n \in Nat
  PROVE  Moved(x, c, n) \in Slices /\ Moved(x, c, n).mem = x.mem /\ Moved(x, c, n).cells = c
<1>1. Slices = [mem : {"heap", "own", "shared", "slab"}, off : Nat, cells : Seq(Cell)]
  BY DEF Slices, Cell
<1> QED BY <1>1, MovedRecord DEF Moved

LEMMA GrownFacts ==
  ASSUME NEW x \in Slices, NEW c \in Seq(Cell), NEW cap \in Nat
  PROVE  /\ Grown(x, c, cap) \in Slices
         /\ Grown(x, c, cap).cells = x.cells \o c
         /\ x.mem # "own" => Grown(x, c, cap).mem # "own"
<1>1. PICK d \in Seq(Cell) : d = x.cells \o c
  BY SliceFacts, ConcatFacts
<1>2. [x EXCEPT !.cells = d] = [mem |-> x.mem, off |-> x.off, cells |-> d]
  BY SliceFacts
<1>3. Grown(x, c, cap) = [mem |-> x.mem, off |-> x.off, cells |-> d]
      \/ Grown(x, c, cap) = [mem |-> "heap", off |-> 0, cells |-> d]
  BY <1>1, <1>2 DEF Grown
<1>4. /\ [mem |-> x.mem, off |-> x.off, cells |-> d] \in Slices
      /\ [mem |-> "heap", off |-> 0, cells |-> d] \in Slices
  BY SliceFacts, MakeSlice
<1>5. PICK g \in Slices : g = Grown(x, c, cap)
  BY <1>3, <1>4
<1>6. CASE g = [mem |-> x.mem, off |-> x.off, cells |-> d]
  BY <1>1, <1>5, <1>6
<1>7. CASE g = [mem |-> "heap", off |-> 0, cells |-> d]
  BY <1>1, <1>5, <1>7
<1> QED BY <1>3, <1>5, <1>6, <1>7

(* A slice before and after the memory it lies in was written. *)
Worn(new, old) ==
  /\ Len(new) = Len(old)
  /\ \A i \in 1 .. Len(old) : new[i] = old[i] \/ new[i] = Junk
  /\ new # <<>> /\ new[1] # Junk => new = old

LEMMA JunkCell == Junk \in Cell
BY SessionAssumption DEF Junk, Cell

LEMMA JunkSequence ==
  ASSUME NEW c \in Seq(Cell)
  PROVE  [i \in DOMAIN c |-> Junk] \in Seq(Cell)
<1>1. DOMAIN c = 1 .. Len(c) /\ Len(c) \in Nat
  BY SeqFacts
<1>2. [i \in 1 .. Len(c) |-> Junk] \in [1 .. Len(c) -> Cell]
  BY JunkCell
<1>3. [i \in 1 .. Len(c) |-> Junk] \in Seq(Cell)
  BY <1>1, <1>2, IsASeq
<1> QED BY <1>1, <1>3

LEMMA OverwrittenFacts ==
  ASSUME NEW x \in Slices, NEW w \in Nat
  PROVE  /\ Overwritten(x, w) \in Slices /\ Overwritten(x, w).mem = x.mem
         /\ Worn(Overwritten(x, w).cells, x.cells)
         /\ x.mem # "shared" => Overwritten(x, w) = x
         /\ \A i \in 1 .. Len(x.cells) :
              Overwritten(x, w).cells[i] =
                IF x.mem = "shared" /\ x.off + i <= w THEN Junk ELSE x.cells[i]
<1>1. PICK c \in Seq(Cell), n \in Nat :
        c = x.cells /\ n = Len(c) /\ DOMAIN c = 1 .. n /\ \A i \in 1 .. n : c[i] \in Cell
  BY SliceFacts, SeqFacts
<1>2. CASE x.mem # "shared"
  <2>1. Overwritten(x, w) = x
    BY <1>2 DEF Overwritten
  <2> QED BY <1>2, <2>1 DEF Worn
<1>3. CASE x.mem = "shared"
  <2> DEFINE d == [i \in 1 .. n |-> IF x.off + i <= w THEN Junk ELSE c[i]]
  <2>1. d \in [1 .. n -> Cell]
    BY <1>1, JunkCell
  <2>2. d \in Seq(Cell) /\ Len(d) = n
    BY <2>1, IsASeq, LenProperties
  <2>3. \A i \in 1 .. n : d[i] = IF x.off + i <= w THEN Junk ELSE c[i]
    OBVIOUS
  <2>4. Overwritten(x, w) = [x EXCEPT !.cells = d]
    BY <1>1, <1>3 DEF Overwritten
  <2> HIDE DEF d
  <2>5. PICK e \in Seq(Cell) : e = d
    BY <2>2
  <2>6. Overwritten(x, w) = [mem |-> x.mem, off |-> x.off, cells |-> e]
    BY <2>4, <2>5, SliceFacts
  <2>7. Overwritten(x, w) \in Slices
    BY <2>6, SliceFacts, MakeSlice
  <2>8. Overwritten(x, w).cells = e /\ Overwritten(x, w).mem = x.mem
    BY <2>6
  <2>9. \A i \in 1 .. n : e[i] = IF x.mem = "shared" /\ x.off + i <= w THEN Junk ELSE c[i]
    BY <1>3, <2>3, <2>5
  <2>10. Len(e) = Len(c)
    BY <1>1, <2>2, <2>5
  <2>11. ASSUME e # <<>>, e[1] # Junk PROVE e = c
    <3>1. Len(e) # 0 /\ 1 \in 1 .. n
      BY <1>1, <2>10, <2>11, SeqFacts
    <3>2. ~(x.off + 1 <= w) /\ x.off \in Nat
      BY <1>3, <2>9, <2>11, <3>1, SliceFacts
    <3>3. \A i \in 1 .. n : ~(x.off + i <= w)
      BY <3>2
    <3>4. \A i \in 1 .. n : e[i] = c[i]
      BY <2>9, <3>3
    <3> QED BY <1>1, <2>10, <3>4, SeqEqual
  <2>12. Worn(e, c)
    BY <1>1, <2>9, <2>10, <2>11 DEF Worn
  <2> QED BY <1>1, <1>3, <2>7, <2>8, <2>9, <2>12
<1> QED BY <1>2, <1>3

LEMMA WornShows ==
  ASSUME NEW c \in Seq(Cell), NEW w \in Seq(Cell), NEW s \in Seq(Cell), Shows(c, w, s),
         NEW d \in Seq(Cell), Worn(d, c)
  PROVE  Shows(d, w, s)
BY DEF Worn, Shows

(* The message a cell is of. *)
LEMMA FirstCell ==
  ASSUME pending \in Seq(Sendable), Consecutive(pending),
         NEW c \in Seq(Cell), NEW w \in Seq(Cell), NEW s \in Seq(Cell),
         Shows(c, w, s), InOrder(s, pending), c # <<>>, c[1] # Junk
  PROVE  /\ pending # <<>> /\ 1 \in DOMAIN pending /\ pending[1] \in Sendable
         /\ Head(c) = c[1] /\ c[1][1] = pending[1].id /\ MessageOf(c[1]) = pending[1]
         /\ pending[1].len \in Nat /\ pending[1].len >= HeaderLen
<1>1. s # <<>> /\ c[1] = s[1]
  BY ShowsFacts
<1>2. pending # <<>> /\ c[1][1] = pending[1].id
  BY <1>1 DEF InOrder
<1>3. 1 \in DOMAIN pending /\ pending[1] \in Sendable /\ DOMAIN pending = 1 .. Len(pending)
  BY <1>2, SeqFacts
<1>4. {i \in 1 .. Len(pending) : pending[i].id = c[1][1]} = {1}
  <2>1. ASSUME NEW i \in 1 .. Len(pending), pending[i].id = pending[1].id PROVE i = 1
    BY <1>3, <2>1, DifferentIds
  <2> QED BY <1>2, <1>3, <2>1
<1>5. Min({1}) = 1
  BY DEF Min
<1>6. SelectInSeq(pending, LAMBDA m : m.id = c[1][1]) = 1
  BY <1>4, <1>5 DEF SelectInSeq
<1>7. MessageOf(c[1]) = pending[1]
  BY <1>6 DEF MessageOf
<1>8. Head(c) = c[1]
  BY TailFacts
<1> QED BY <1>2, <1>3, <1>7, <1>8, MessageFacts

-----------------------------------------------------------------------------
(* Every step keeps the invariant: the client and the network. *)

(* One message, and one answer, as the properties see them. *)
Offered(m) == m.id \in 1 .. MaxMessages /\ [len |-> m.len, kind |-> m.kind] \in Shapes
Faithful(a) ==
  /\ Readable(a.encoding) <=> a.encoding.label # "mp-snappy"
  /\ a.body = a.source.cells <=>
       ~(a.source.mem = "shared" /\ a.source.cells # <<>> /\ a.source.off < AnswerHeader)

LEMMA InitIInv == Init => IInv
<1> SUFFICES ASSUME Init PROVE IInv
  OBVIOUS
<1>1. Typed
  BY DEF Init, Typed
<1>2. conn_ex \in Conninfo
  <2>1. Threshold \in Int
    BY SessionAssumption
  <2> QED BY <2>1 DEF Init, make_conn_ex, Conninfo
<1>3. TypeOK
  <2>1. sent \in 0 .. MaxMessages /\ 0 \in 0 .. MaxMessages
    BY SessionAssumption DEF Init
  <2>2. request \in [mem : {"heap", "shared", "slab"}, id : 0 .. MaxMessages]
    BY <2>1 DEF Init, NoRequest
  <2>3. DOMAIN pending = {} /\ DOMAIN answers = {} /\ ending = "open" /\ pc = "top" /\ why = "none"
        /\ data_stream = Empty
    BY DEF Init
  <2>4. allocator \in BOOLEAN
    BY DEF Init
  <2> QED BY <1>2, <2>1, <2>2, <2>3, <2>4, EmptySlice DEF TypeOK
<1>4. Numbered
  BY DEF Init, Numbered, Consecutive
<1>5. Carries(<<>>)
  <2>1. data_stream.cells = <<>> /\ wire = <<>> /\ ToServe = <<>> /\ ending # "cut"
    BY EmptySlice DEF Init, ToServe
  <2>2. Shows(<<>>, <<>>, <<>>) /\ Untouched(<<>>, <<>>)
    BY DEF Shows, Untouched
  <2>3. InOrder(<<>>, <<>>) /\ Whole(<<>>, <<>>)
    BY DEF InOrder, Whole
  <2> QED BY <2>1, <2>2, <2>3 DEF Carries
<1>6. Underway
  <2>1. <<>> \in Seq(Cell)
    OBVIOUS
  <2> QED BY <1>5, <2>1 DEF Underway
<1>7. Framed
  BY EmptySlice DEF Init, Framed
<1>8. Waiting
  BY DEF Init, Waiting
<1>9. SlabsHeldExactly /\ EndServesAll /\ AnswersFaithful
  BY DEF Init, SlabsHeldExactly, EndServesAll, AnswersFaithful
<1> QED BY <1>1, <1>3, <1>4, <1>6, <1>7, <1>8, <1>9 DEF IInv

LEMMA ConsecutiveAppend ==
  ASSUME NEW q \in Seq(Sendable), Consecutive(q), NEW m \in Sendable, NEW z \in Nat, m.id = z + 1,
         q # <<>> => q[Len(q)].id = z
  PROVE  Consecutive(Append(q, m))
<1>1. PICK u \in Seq(Sendable) : u = Append(q, m)
  BY AppendFacts
<1>2. /\ Len(u) = Len(q) + 1 /\ u[Len(q) + 1] = m /\ \A i \in 1 .. Len(q) : u[i] = q[i]
      /\ DOMAIN u = 1 .. Len(u) /\ DOMAIN q = 1 .. Len(q) /\ Len(q) \in Nat
  BY <1>1, AppendFacts, SeqFacts
<1>3. CASE q = <<>>
  <2>1. Len(q) = 0
    BY <1>3, SeqFacts
  <2>2. DOMAIN u = {1} /\ u[1].id \in Nat
    BY <1>2, <2>1
  <2> QED BY <1>1, <2>2 DEF Consecutive
<1>4. CASE q # <<>>
  <2>1. Len(q) # 0 /\ 1 \in 1 .. Len(q) /\ Len(q) \in 1 .. Len(q)
    BY <1>2, <1>4, SeqFacts
  <2>2. PICK a \in Nat : a = q[1].id
    BY <1>2, <2>1, MessageFacts
  <2>3. z = a + Len(q) - 1
    BY <1>2, <1>4, <2>1, <2>2 DEF Consecutive
  <2>4. u[1].id = a
    BY <1>2, <2>1, <2>2
  <2>5. ASSUME NEW n \in DOMAIN u PROVE u[n].id = a + n - 1
    <3>1. CASE n \in 1 .. Len(q)
      BY <1>2, <2>2, <3>1 DEF Consecutive
    <3>2. CASE n = Len(q) + 1
      BY <1>2, <2>3, <3>2
    <3> QED BY <1>2, <3>1, <3>2
  <2> QED BY <1>1, <2>4, <2>5 DEF Consecutive
<1> QED BY <1>3, <1>4

LEMMA SentMessage ==
  ASSUME IInv, NEW shape \in Shapes, Send(shape),
         NEW m, m = [id |-> sent + 1, len |-> shape.len, kind |-> shape.kind]
  PROVE  m \in Sendable /\ Offered(m) /\ m.id = sent + 1 /\ sent \in Nat /\ sent' \in 0 .. MaxMessages
<1>0. sent < MaxMessages /\ sent' = sent + 1
  BY DEF Send
<1>1. shape.len \in Lengths /\ shape.kind \in Kinds /\ shape = [len |-> shape.len, kind |-> shape.kind]
  BY SessionAssumption DEF Kinds, Lengths
<1>2. sent \in Nat /\ sent + 1 \in 1 .. MaxMessages
  <2>1. sent \in 0 .. MaxMessages
    BY DEF IInv, TypeOK
  <2>2. MaxMessages \in Nat
    BY SessionAssumption
  <2> QED BY <1>0, <2>1, <2>2
<1>3. m.id = sent + 1 /\ m.len = shape.len /\ m.kind = shape.kind
  BY <1>1
<1>4. m \in Sendable
  BY <1>1, <1>2 DEF Sendable
<1>5. Offered(m)
  BY <1>1, <1>2, <1>3 DEF Offered
<1> QED BY <1>0, <1>2, <1>3, <1>4, <1>5

LEMMA SendStep ==
  ASSUME IInv, NEW shape \in Shapes, Send(shape)
  PROVE  IInv'
<1>1. PICK m : m = [id |-> sent + 1, len |-> shape.len, kind |-> shape.kind]
  OBVIOUS
<1>2. /\ pending' = Append(pending, m) /\ wire' = wire \o Bytes(m) /\ sent' = sent + 1
      /\ ending = "open" /\ ~Over /\ sent < MaxMessages /\ (setup.client = "waits" => Settled)
      /\ UNCHANGED <<setup, ending, answers, pc, why, data_stream, request, allocator, conn_ex>>
  BY <1>1 DEF Send
<1>3. m \in Sendable /\ Offered(m) /\ m.id = sent + 1 /\ sent \in Nat /\ sent' \in 0 .. MaxMessages
  BY <1>1, SentMessage
<1>4. pending \in Seq(Sendable) /\ wire \in Seq(Cell) /\ Bytes(m) \in Seq(Cell)
  BY <1>3, BytesFacts DEF IInv, Typed
<1>5. PICK n \in Nat : n = Len(pending) /\ DOMAIN pending = 1 .. n
  BY <1>4, SeqFacts
<1>6. PICK u \in Seq(Sendable) : u = Append(pending, m)
  BY <1>3, <1>4, AppendFacts
<1>7. /\ Len(u) = n + 1 /\ DOMAIN u = 1 .. n + 1 /\ u[n + 1] = m /\ u # <<>>
      /\ \A i \in 1 .. n : u[i] = pending[i]
  <2>1. Len(u) = n + 1 /\ u[n + 1] = m /\ u # <<>> /\ \A i \in 1 .. n : u[i] = pending[i]
    BY <1>3, <1>4, <1>5, <1>6, AppendFacts
  <2>2. DOMAIN u = 1 .. Len(u)
    BY SeqFacts
  <2> QED BY <2>1, <2>2
<1>8. TypeOK'
  <2>1. \A i \in DOMAIN pending : Offered(pending[i])
    BY DEF IInv, TypeOK, Offered
  <2>2. \A i \in 1 .. n + 1 : i \in 1 .. n \/ i = n + 1
    OBVIOUS
  <2>3. \A i \in DOMAIN u : Offered(u[i])
    BY <1>3, <1>5, <1>7, <2>1, <2>2
  <2>4. (\A i \in DOMAIN pending : /\ pending[i].id \in 1 .. MaxMessages
                                /\ [len |-> pending[i].len, kind |-> pending[i].kind] \in Shapes)'
    BY <1>2, <1>6, <2>3 DEF Offered
  <2> QED BY <1>2, <1>3, <2>4 DEF IInv, TypeOK
<1>9. Typed'
  <2>1. wire' \in Seq(Cell)
    BY <1>2, <1>4, ConcatFacts
  <2> QED BY <1>2, <1>6, <2>1 DEF IInv, Typed
<1>10. Numbered'
  <2>1. Consecutive(u)
    BY <1>3, <1>4, <1>6, ConsecutiveAppend DEF IInv, Numbered
  <2>2. u[Len(u)].id = sent'
    BY <1>2, <1>3, <1>7
  <2> QED BY <1>2, <1>6, <2>1, <2>2 DEF Numbered, Consecutive
<1>12. ToServe \in Seq(Sendable) /\ ToServe' = Append(ToServe, m)
  <2>1. CASE pc = "serve"
    <3>1. pending # <<>>
      BY <2>1 DEF IInv, Framed
    <3>2. Tail(Append(pending, m)) = Append(Tail(pending), m)
      BY <1>4, <3>1, HeadTailAppend
    <3> QED BY <1>2, <1>4, <2>1, <3>1, <3>2, TailFacts DEF ToServe
  <2>2. CASE pc # "serve"
    BY <1>2, <1>4, <2>2 DEF ToServe
  <2> QED BY <2>1, <2>2
<1>13. Underway'
  <2> SUFFICES ASSUME pc # "astray" PROVE Underway'
    BY <1>2 DEF Underway
  <2>0. PICK s \in Seq(Cell) : Carries(s)
    BY <1>2 DEF IInv, Underway
  <2>1. PICK t \in Seq(Cell) : t = s \o Bytes(m)
    BY <1>4, <2>0, ConcatFacts
  <2>2. data_stream.cells \in Seq(Cell)
    BY SliceFacts DEF IInv, TypeOK
  <2>3. /\ Shows(data_stream.cells, wire', t)
        /\ Untouched(data_stream.cells, s) => Untouched(data_stream.cells, t)
    BY <1>2, <1>4, <2>0, <2>1, <2>2, SendShows DEF Carries
  <2>4. InOrder(t, ToServe') /\ Whole(t, ToServe')
    BY <1>2, <1>3, <2>0, <1>12, <2>1, SendOrder DEF Carries
  <2>5. Carries(t)'
    BY <1>2, <2>0, <2>3, <2>4 DEF Carries, Stained
  <2> QED BY <2>5 DEF Underway
<1>14. Framed'
  <2>1. pending # <<>> => u[1] = pending[1] /\ u # <<>>
    <3>1. pending # <<>> => 1 \in 1 .. n
      BY <1>4, <1>5, SeqFacts
    <3> QED BY <1>7, <3>1
  <2> QED BY <1>2, <1>6, <2>1 DEF IInv, Framed, Stained
<1>15. Waiting'
  <2>1. setup.client = "waits" => \A i \in 1 .. n : u[i].kind = "skip"
    BY <1>2, <1>5, <1>7 DEF Settled
  <2>2. setup.client = "waits" => \A i \in 1 .. Len(u) - 1 : u[i].kind = "skip"
    BY <1>7, <2>1
  <2> QED BY <1>2, <1>6, <2>2 DEF Waiting
<1>16. SlabsHeldExactly' /\ EndServesAll'
  BY <1>2 DEF IInv, SlabsHeldExactly, EndServesAll, Over
<1>17. AnswersFaithful'
  BY <1>2 DEF IInv, AnswersFaithful
<1> QED BY <1>8, <1>9, <1>10, <1>13, <1>14, <1>15, <1>16, <1>17 DEF IInv

(* Nothing of the server or of the stream changes. *)
LEMMA ReceiveStep ==
  ASSUME IInv, Receive
  PROVE  IInv'
<1>1. /\ answers # <<>> /\ answers' = Tail(answers)
      /\ UNCHANGED <<client_vars, wire, pc, why, data_stream, request, allocator, conn_ex>>
  BY DEF Receive
<1>2. answers \in Seq(Answers)
  BY DEF IInv, Typed
<1>3. PICK u \in Seq(Answers) : u = Tail(answers)
  BY <1>1, <1>2, TailFacts
<1>4. ASSUME NEW i \in DOMAIN u
      PROVE  \E j \in DOMAIN answers : u[i] = answers[j]
  <2>1. i \in 1 .. Len(answers) - 1 /\ Len(answers) \in Nat /\ DOMAIN answers = 1 .. Len(answers)
    <3>1. Len(u) = Len(answers) - 1
      BY <1>1, <1>2, <1>3, TailFacts
    <3>2. DOMAIN u = 1 .. Len(u) /\ Len(answers) \in Nat /\ DOMAIN answers = 1 .. Len(answers)
      BY <1>2, SeqFacts
    <3> QED BY <3>1, <3>2
  <2>2. i + 1 \in DOMAIN answers
    BY <2>1
  <2>3. u[i] = answers[i + 1]
    BY <1>1, <1>2, <1>3, <2>1, TailFacts
  <2> QED BY <2>2, <2>3
<1>5. TypeOK'
  BY <1>1, <1>3, <1>4 DEF IInv, TypeOK, client_vars
<1>6. Typed'
  BY <1>1, <1>3 DEF IInv, Typed, client_vars
<1>7. AnswersFaithful'
  <2>1. \A j \in DOMAIN answers : Faithful(answers[j])
    BY DEF IInv, AnswersFaithful, Faithful
  <2>2. \A i \in DOMAIN u : Faithful(u[i])
    BY <1>4, <2>1
  <2> QED BY <1>1, <1>3, <2>2 DEF AnswersFaithful, Faithful
<1>8. Numbered' /\ Framed' /\ Waiting' /\ SlabsHeldExactly' /\ EndServesAll'
  BY <1>1 DEF IInv, Numbered, Consecutive, Framed, Stained, Waiting, SlabsHeldExactly, EndServesAll, client_vars
<1>9. Underway'
  <2>1. Over' = Over /\ ToServe' = ToServe
    BY <1>1 DEF Over, ToServe, client_vars
  <2>2. ASSUME NEW s \in Seq(Cell), Carries(s) PROVE Carries(s)'
    BY <1>1, <2>1, <2>2 DEF Carries, Stained, client_vars
  <2> QED BY <1>1, <2>1, <2>2 DEF IInv, Underway
<1> QED BY <1>5, <1>6, <1>7, <1>8, <1>9 DEF IInv

LEMMA FinishStep ==
  ASSUME IInv, NEW how \in {"fin", "cut", "error"}, Finish(how)
  PROVE  IInv'
<1>1. /\ ending = "open" /\ ~Over /\ ending' = how
      /\ UNCHANGED <<setup, pending, sent, answers, pc, why, data_stream, request, allocator, conn_ex>>
  BY DEF Finish
<1>2. wire \in Seq(Cell) /\ data_stream.cells \in Seq(Cell)
  BY SliceFacts DEF IInv, Typed, TypeOK
<1>4. ToServe' = ToServe /\ ToServe \in Seq(Sendable)
  <2>1. pc = "serve" => pending # <<>>
    BY DEF IInv, Framed
  <2> QED BY <1>1, <2>1, TailFacts DEF ToServe, IInv, Typed
<1>3. wire' \in Seq(Cell)
  <2>1. CASE UNCHANGED wire
    BY <1>2, <2>1
  <2>2. ASSUME wire # <<>>, NEW k \in 1 .. Last(wire)[2] - 1, k <= Len(wire),
               wire' = SubSeq(wire, 1, Len(wire) - k)
        PROVE  wire' \in Seq(Cell)
    <3>1. Len(wire) \in 1 .. Len(wire) /\ Len(wire) \in Nat /\ Last(wire) = wire[Len(wire)]
      <4>1. Len(wire) \in Nat /\ Len(wire) # 0
        BY <1>2, <2>2, SeqFacts
      <4> QED BY <4>1 DEF Last
    <3>2. Last(wire)[2] \in Nat
      BY <1>2, <3>1, CellFacts
    <3>3. Len(wire) - k \in 0 .. Len(wire)
      BY <2>2, <3>1, <3>2
    <3> QED BY <1>2, <2>2, <3>3, PrefixFacts
  <2> QED BY <2>1, <2>2 DEF Finish
<1>5. ASSUME pc # "astray" PROVE \E t \in Seq(Cell) : Carries(t)'
  <2>0. PICK s \in Seq(Cell) : Carries(s)
    BY <1>1, <1>5 DEF IInv, Underway
  <2>1. CASE how # "cut" /\ UNCHANGED wire
    BY <1>1, <1>2, <2>0, <1>4, <2>1 DEF Carries, Stained
  <2>2. CASE how = "cut" /\ wire # <<>>
    <3>1. PICK k \in 1 .. Last(wire)[2] - 1 :
            k <= Len(wire) /\ wire' = SubSeq(wire, 1, Len(wire) - k)
      BY <2>2 DEF Finish
    <3>2. Len(wire) \in 1 .. Len(wire) /\ Len(wire) \in Nat /\ Last(wire) = wire[Len(wire)]
      <4>1. Len(wire) \in Nat /\ Len(wire) # 0
        BY <1>2, <2>2, SeqFacts
      <4> QED BY <4>1 DEF Last
    <3>3. Len(s) = Len(data_stream.cells) + Len(wire) /\ Len(data_stream.cells) \in Nat
      BY <1>2, <2>0, ShowsFacts DEF Carries
    <3>4. Last(wire) = s[Len(s)]
      BY <2>0, <3>2, <3>3 DEF Carries, Shows
    <3>5. s # <<>>
      BY <3>2, <3>3, SeqFacts
    <3>6. Len(s) \in 1 .. Len(s)
      BY <3>2, <3>3
    <3>7. s[Len(s)][2] \in Nat
      BY <3>6, CellFacts
    <3>8. k \in Nat \ {0} /\ k < s[Len(s)][2] /\ k \in 0 .. Len(wire)
      BY <3>1, <3>2, <3>4, <3>7
    <3>9. InOrder(s, ToServe) /\ Whole(s, ToServe)
      BY <1>1, <2>0 DEF Carries
    <3>10. /\ k < Len(s) /\ InOrder(SubSeq(s, 1, Len(s) - k), ToServe)
           /\ CutShort(SubSeq(s, 1, Len(s) - k), ToServe)
      BY <1>4, <3>5, <3>8, <3>9, CutOrder
    <3>11. /\ Shows(data_stream.cells, wire', SubSeq(s, 1, Len(s) - k))
           /\ Untouched(data_stream.cells, s) => Untouched(data_stream.cells, SubSeq(s, 1, Len(s) - k))
      BY <1>2, <2>0, <3>1, <3>8, CutShows DEF Carries
    <3>12. Len(s) - k \in 0 .. Len(s) /\ Len(wire) - k \in 0 .. Len(wire)
      BY <3>2, <3>3, <3>8, <3>10
    <3>13. SubSeq(s, 1, Len(s) - k) \in Seq(Cell) /\ wire' \in Seq(Cell)
      BY <1>2, <3>1, <3>12, PrefixFacts
    <3>14. PICK t \in Seq(Cell) : t = SubSeq(s, 1, Len(s) - k)
      BY <3>13
    <3>15. Carries(t)'
      BY <1>1, <2>0, <1>4, <2>2, <3>10, <3>11, <3>14 DEF Carries, Stained
    <3> QED BY <3>13, <3>15
  <2> QED BY <2>1, <2>2 DEF Finish
<1>6. TypeOK'
  BY <1>1 DEF IInv, TypeOK
<1>7. Typed'
  BY <1>1, <1>3 DEF IInv, Typed
<1>8. Underway'
  BY <1>1, <1>5 DEF Underway
<1>9. Numbered' /\ Framed' /\ Waiting' /\ SlabsHeldExactly' /\ AnswersFaithful'
  BY <1>1 DEF IInv, Numbered, Consecutive, Framed, Stained, Waiting, SlabsHeldExactly, AnswersFaithful
<1>10. EndServesAll'
  BY <1>1 DEF EndServesAll, Over
<1> QED BY <1>6, <1>7, <1>8, <1>9, <1>10 DEF IInv

-----------------------------------------------------------------------------
(* Reading. *)

(* What a step of the server that serves nothing leaves alone. *)
LEMMA NothingServed ==
  ASSUME IInv, UNCHANGED client_vars, UNCHANGED <<answers, conn_ex>>, wire' \in Seq(Cell)
  PROVE  /\ Typed' /\ Numbered' /\ Waiting' /\ AnswersFaithful'
         /\ data_stream' \in Slices /\ pc' \in {"top", "body", "serve", "astray", "closed", "crashed"}
            /\ why' \in {"none", "end", "end in message", "header", "parameters", "astray"}
            /\ request' \in [mem : {"heap", "shared", "slab"}, id : 0 .. MaxMessages]
            /\ allocator' \in BOOLEAN
            => TypeOK'
<1>1. Typed' /\ Numbered' /\ Waiting' /\ AnswersFaithful'
  BY DEF IInv, Typed, Numbered, Consecutive, Waiting, AnswersFaithful, client_vars
<1>2. ASSUME data_stream' \in Slices, pc' \in {"top", "body", "serve", "astray", "closed", "crashed"},
             why' \in {"none", "end", "end in message", "header", "parameters", "astray"},
             request' \in [mem : {"heap", "shared", "slab"}, id : 0 .. MaxMessages],
             allocator' \in BOOLEAN
      PROVE  TypeOK'
  BY <1>2 DEF IInv, TypeOK, client_vars
<1> QED BY <1>1, <1>2

LEMMA TypeParts ==
  ASSUME IInv
  PROVE  /\ pending \in Seq(Sendable) /\ wire \in Seq(Cell) /\ answers \in Seq(Answers)
         /\ data_stream \in Slices /\ data_stream.cells \in Seq(Cell) /\ data_stream.mem # "own"
         /\ pc \in {"top", "body", "serve", "astray", "closed", "crashed"}
         /\ why \in {"none", "end", "end in message", "header", "parameters", "astray"}
         /\ request \in [mem : {"heap", "shared", "slab"}, id : 0 .. MaxMessages]
         /\ allocator \in BOOLEAN /\ Consecutive(pending)
<1>1. /\ data_stream \in Slices
      /\ pc \in {"top", "body", "serve", "astray", "closed", "crashed"}
      /\ why \in {"none", "end", "end in message", "header", "parameters", "astray"}
      /\ request \in [mem : {"heap", "shared", "slab"}, id : 0 .. MaxMessages]
      /\ allocator \in BOOLEAN
  BY DEF IInv, TypeOK
<1>2. data_stream.cells \in Seq(Cell)
  BY <1>1, SliceFacts
<1> QED BY <1>1, <1>2 DEF IInv, Typed, Framed, Numbered

(* Cells come from the wire behind those in memory; none gets lost. *)
Taken(cells) ==
  /\ cells \in Seq(Cell) /\ wire' \in Seq(Cell)
  /\ \A s \in Seq(Cell) :
       Shows(data_stream.cells, wire, s)
         => /\ Shows(data_stream.cells \o cells, wire', s)
            /\ Untouched(data_stream.cells, s) => Untouched(data_stream.cells \o cells, s)

LEMMA ReadTakes ==
  ASSUME IInv, NEW n \in Reads, Read(n)
  PROVE  Taken(SubSeq(wire, 1, n))
<1>1. wire \in Seq(Cell) /\ data_stream.cells \in Seq(Cell)
  BY TypeParts
<1>2. n \in 0 .. Len(wire)
  <2>1. Len(wire) \in Nat
    BY <1>1, SeqFacts
  <2> QED BY <2>1, SessionAssumption DEF Reads
<1>3. wire' = SubSeq(wire, n + 1, Len(wire))
  BY DEF Read
<1>4. SubSeq(wire, 1, n) \in Seq(Cell) /\ wire' \in Seq(Cell)
  BY <1>1, <1>2, <1>3, PrefixFacts, SuffixFacts
<1>5. \A s \in Seq(Cell) :
        Shows(data_stream.cells, wire, s)
          => /\ Shows(data_stream.cells \o SubSeq(wire, 1, n), wire', s)
             /\ Untouched(data_stream.cells, s)
                  => Untouched(data_stream.cells \o SubSeq(wire, 1, n), s)
  BY <1>1, <1>2, <1>3, ReadShows
<1> QED BY <1>4, <1>5 DEF Taken

LEMMA NothingTaken ==
  ASSUME IInv, wire' = wire
  PROVE  Taken(<<>>)
<1>1. wire \in Seq(Cell) /\ data_stream.cells \in Seq(Cell)
  BY TypeParts
<1>2. <<>> \in Seq(Cell)
  OBVIOUS
<1>3. data_stream.cells \o <<>> = data_stream.cells
  BY <1>1, ConcatEmptySeq
<1> QED BY <1>1, <1>3, <1>2 DEF Taken

(* The stream is the same when cells moved from the wire into memory. *)
LEMMA TakenCarries ==
  ASSUME UNCHANGED client_vars, pc \in {"top", "body"}, pc' \in {"top", "body"},
         data_stream.cells \in Seq(Cell), NEW cells, Taken(cells), data_stream'.cells = data_stream.cells \o cells,
         NEW s \in Seq(Cell), Carries(s)
  PROVE  Carries(s)'
<1>1. ToServe = pending /\ ToServe' = pending'
  BY DEF ToServe
<1>2. /\ Shows(data_stream'.cells, wire', s)
      /\ Untouched(data_stream.cells, s) => Untouched(data_stream'.cells, s)
  BY DEF Taken, Carries
<1>3. Stained => Stained'
  <2> SUFFICES ASSUME Stained PROVE Stained'
    OBVIOUS
  <2>1. data_stream.cells # <<>> /\ data_stream.cells[1] = Junk
    BY DEF Stained
  <2>2. Len(data_stream.cells) \in Nat /\ Len(data_stream.cells) # 0
    BY <2>1, SeqFacts
  <2>3. PICK c \in Seq(Cell) : c = data_stream.cells \o cells
    BY ConcatFacts DEF Taken
  <2>4. Len(c) = Len(data_stream.cells) + Len(cells) /\ c[1] = data_stream.cells[1] /\ Len(cells) \in Nat
    BY <2>2, <2>3, ConcatFacts, SeqFacts DEF Taken
  <2>5. Len(c) # 0
    BY <2>2, <2>4
  <2> QED BY <2>1, <2>3, <2>4, <2>5, SeqFacts DEF Stained
<1> QED BY <1>1, <1>2, <1>3 DEF Carries, client_vars

(* Cells that come from the wire were not overwritten. *)
LEMMA FirstOverwritten ==
  ASSUME IInv, pc = "top", NEW cells, Taken(cells), NEW c \in Seq(Cell), c = data_stream.cells \o cells,
         c # <<>>, c[1] = Junk
  PROVE  Stained /\ setup.client # "waits"
<1>1. PICK s \in Seq(Cell) : Carries(s)
  BY DEF IInv, Underway, Over
<1>2. Shows(c, wire', s)
  BY <1>1 DEF Taken, Carries
<1>3. Len(c) \in Nat /\ Len(c) # 0 /\ Len(s) = Len(c) + Len(wire') /\ Len(wire') \in Nat
  BY <1>2, SeqFacts, ShowsFacts DEF Taken
<1>4. s # <<>>
  <2>1. Len(s) # 0
    BY <1>3
  <2> QED BY <2>1, SeqFacts
<1>5. s[1] # Junk
  BY <1>1, <1>4 DEF Carries, InOrder, Junk
<1>6. ASSUME Untouched(data_stream.cells, s) PROVE FALSE
  <2>1. Untouched(c, s) /\ 1 \in 1 .. Len(c)
    BY <1>1, <1>3, <1>6 DEF Taken, Carries
  <2> QED BY <1>5, <2>1 DEF Untouched
<1> QED BY <1>1, <1>6 DEF Carries

LEMMA FrameStep ==
  ASSUME IInv, pc = "top", UNCHANGED client_vars, NEW cells, Taken(cells), Frame(cells)
  PROVE  IInv'
<1>1. /\ pending \in Seq(Sendable) /\ data_stream \in Slices /\ data_stream.cells \in Seq(Cell)
      /\ data_stream.mem # "own" /\ Consecutive(pending)
      /\ cells \in Seq(Cell) /\ wire' \in Seq(Cell) /\ ~allocator
  BY TypeParts DEF Taken, IInv, SlabsHeldExactly
<1>2. PICK c \in Seq(Cell) : c = data_stream.cells \o cells
  BY <1>1, ConcatFacts
<1>3. UNCHANGED <<answers, conn_ex>> /\ request' = request
  BY DEF Frame, Break
<1>4. Typed' /\ Numbered' /\ Waiting' /\ AnswersFaithful'
  BY <1>1, <1>3, NothingServed
<1>5. PICK s \in Seq(Cell) : Carries(s)
  BY DEF IInv, Underway, Over
<1>6. ToServe = pending /\ HeaderLen \in Nat \ {0} /\ SharedCap \in Nat
  BY SessionAssumption DEF ToServe
<1>7. CASE /\ Len(c) < HeaderLen
           /\ data_stream' = Grown(data_stream, cells, CapOf(data_stream, 0))
           /\ UNCHANGED <<pc, why, request, allocator, conn_ex, answers>>
  <2>1. CapOf(data_stream, 0) \in Nat
    BY <1>6 DEF CapOf
  <2>2. data_stream' \in Slices /\ data_stream'.cells = c /\ data_stream'.mem # "own"
    BY <1>1, <1>2, <1>7, <2>1, GrownFacts
  <2>3. TypeOK'
    BY <1>1, <1>3, <1>7, <2>2, NothingServed, TypeParts
  <2>4. Carries(s)'
    BY <1>1, <1>2, <1>5, <1>7, <2>2, TakenCarries
  <2>5. Framed' /\ SlabsHeldExactly' /\ EndServesAll'
    BY <1>1, <1>7, <2>2 DEF Framed, SlabsHeldExactly, EndServesAll
  <2> QED BY <1>4, <2>3, <2>4, <2>5 DEF IInv, Underway
<1>8. CASE Break("header") /\ data_stream' = Empty /\ UNCHANGED allocator
  <2>1. pc' = "closed" /\ why' = "header"
    BY <1>8 DEF Break
  <2>2. TypeOK'
    BY <1>1, <1>3, <1>8, <2>1, EmptySlice, NothingServed, TypeParts
  <2>3. Framed' /\ SlabsHeldExactly' /\ EndServesAll' /\ Underway'
    BY <1>1, <1>8, <2>1, EmptySlice DEF Framed, SlabsHeldExactly, EndServesAll, Underway, Over
  <2> QED BY <1>4, <2>2, <2>3 DEF IInv
<1>9. CASE /\ Len(c) >= HeaderLen /\ c[1] # Junk
           /\ allocator' = (allocator \/ MessageOf(c[1]).len >= SharedCap)
           /\ \E mem \in {"shared", "slab"}, cap \in {SharedCap, MessageOf(c[1]).len} :
                data_stream' = Grown([mem |-> mem, off |-> 0, cells |-> data_stream.cells],
                                     cells, cap)
           /\ pc' = "body" /\ UNCHANGED <<why, request, conn_ex, answers>>
  <2>1. c # <<>>
    <3>1. Len(c) \in Nat /\ Len(c) # 0
      BY <1>6, <1>9, SeqFacts
    <3> QED BY <3>1, SeqFacts
  <2>2. Shows(c, wire', s) /\ InOrder(s, pending)
    BY <1>2, <1>5, <1>6 DEF Taken, Carries
  <2>3. pending # <<>> /\ MessageOf(c[1]) = pending[1] /\ pending[1].len \in Nat
    BY <1>1, <1>9, <2>1, <2>2, FirstCell
  <2>4. PICK mem \in {"shared", "slab"}, cap \in {SharedCap, pending[1].len} :
           data_stream' = Grown([mem |-> mem, off |-> 0, cells |-> data_stream.cells],
                                cells, cap)
    BY <1>9, <2>3
  <2>5. cap \in Nat
    BY <1>6, <2>3, <2>4
  <2>6. PICK x \in Slices : x = [mem |-> mem, off |-> 0, cells |-> data_stream.cells]
    BY <1>1, MakeSlice
  <2>7. x.mem # "own" /\ x.cells = data_stream.cells
    BY <2>6
  <2>8. data_stream' \in Slices /\ data_stream'.cells = c /\ data_stream'.mem # "own"
    BY <1>1, <1>2, <2>4, <2>5, <2>6, <2>7, GrownFacts
  <2>9. allocator' \in BOOLEAN /\ (allocator' <=> pending[1].len >= SharedCap)
    BY <1>1, <1>9, <2>3
  <2>10. TypeOK'
    BY <1>1, <1>3, <1>9, <2>8, <2>9, NothingServed, TypeParts
  <2>11. Carries(s)'
    BY <1>1, <1>2, <1>5, <1>9, <2>8, TakenCarries
  <2>12. Framed'
    BY <1>9, <2>1, <2>3, <2>8, <2>9 DEF Framed, Stained, client_vars
  <2>13. SlabsHeldExactly' /\ EndServesAll'
    BY <1>9 DEF SlabsHeldExactly, EndServesAll
  <2> QED BY <1>4, <2>10, <2>11, <2>12, <2>13 DEF IInv, Underway
<1>10. CASE /\ Len(c) >= HeaderLen /\ c[1] = Junk
            /\ pc' = "astray"
            /\ data_stream' = [Empty EXCEPT !.cells = [i \in DOMAIN c |-> Junk]]
            /\ allocator' \in BOOLEAN
            /\ UNCHANGED <<why, request, conn_ex, answers>>
  <2>1. c # <<>>
    <3>1. Len(c) \in Nat /\ Len(c) # 0
      BY <1>6, <1>10, SeqFacts
    <3> QED BY <3>1, SeqFacts
  <2>2. setup.client # "waits"
    BY <1>2, <1>10, <2>1, FirstOverwritten
  <2>3. PICK d \in Seq(Cell) : d = [i \in DOMAIN c |-> Junk]
    BY JunkSequence
  <2>4. data_stream' = [mem |-> "heap", off |-> 0, cells |-> d]
    BY <1>10, <2>3 DEF Empty
  <2>5. data_stream' \in Slices /\ data_stream'.mem # "own"
    BY <2>4, MakeSlice
  <2>6. TypeOK'
    BY <1>1, <1>3, <1>10, <2>5, NothingServed, TypeParts
  <2>7. Underway' /\ Framed' /\ SlabsHeldExactly' /\ EndServesAll'
    BY <1>10, <2>2, <2>5 DEF Underway, Framed, SlabsHeldExactly, EndServesAll, client_vars
  <2> QED BY <1>4, <2>6, <2>7 DEF IInv
<1> QED
  <2> DEFINE kind == IF c[1] = Junk THEN "alien" ELSE MessageOf(c[1]).kind
             size == MessageOf(c[1]).len
             mem  == IF size < SharedCap THEN "shared" ELSE "slab"
  <2>1. ASSUME Len(c) >= HeaderLen, kind # "alien",
               allocator' = (allocator \/ mem = "slab"),
               data_stream' = Grown([mem |-> mem, off |-> 0, cells |-> data_stream.cells], cells,
                                    IF mem = "shared" THEN SharedCap ELSE size),
               pc' = "body", UNCHANGED <<why, request, conn_ex, answers>>
        PROVE  IInv'
    <3>1. c[1] # Junk
      BY <2>1
    <3>2. c # <<>>
      <4>1. Len(c) \in Nat /\ Len(c) # 0
        BY <1>6, <2>1, SeqFacts
      <4> QED BY <4>1, SeqFacts
    <3>3. Shows(c, wire', s) /\ InOrder(s, pending)
      BY <1>2, <1>5, <1>6 DEF Taken, Carries
    <3>4. size \in Nat
      BY <1>1, <3>1, <3>2, <3>3, FirstCell
    <3>5. mem = "slab" <=> size >= SharedCap
      BY <1>6, <3>4
    <3>6. mem \in {"shared", "slab"}
      OBVIOUS
    <3> QED BY <1>9, <2>1, <3>1, <3>5, <3>6
  <2>2. \/ /\ Len(c) < HeaderLen
           /\ data_stream' = Grown(data_stream, cells, CapOf(data_stream, 0))
           /\ UNCHANGED <<pc, why, request, allocator, conn_ex, answers>>
        \/ /\ Len(c) >= HeaderLen
           /\ kind = "alien"
           /\ Break("header")
           /\ data_stream' = Empty
           /\ UNCHANGED allocator
        \/ /\ Len(c) >= HeaderLen
           /\ c[1] = Junk
           /\ pc' = "astray"
           /\ data_stream' = [Empty EXCEPT !.cells = [i \in DOMAIN c |-> Junk]]
           /\ allocator' \in BOOLEAN
           /\ UNCHANGED <<why, request, conn_ex, answers>>
        \/ /\ Len(c) >= HeaderLen
           /\ kind # "alien"
           /\ allocator' = (allocator \/ mem = "slab")
           /\ data_stream' = Grown([mem |-> mem, off |-> 0, cells |-> data_stream.cells], cells,
                                   IF mem = "shared" THEN SharedCap ELSE size)
           /\ pc' = "body"
           /\ UNCHANGED <<why, request, conn_ex, answers>>
    BY <1>2, Zenon DEF Frame
  <2> HIDE DEF kind, size, mem
  <2> QED BY <1>7, <1>8, <1>10, <2>1, <2>2

(* The message that is being read, and what of it is in memory. *)
LEMMA BodyFacts ==
  ASSUME IInv, pc = "body"
  PROVE  /\ pending # <<>> /\ 1 \in DOMAIN pending /\ pending[1] \in Sendable /\ Head(pending) = pending[1]
         /\ Size = pending[1].len /\ Size \in Nat /\ Size >= HeaderLen
         /\ data_stream.cells # <<>> /\ 1 \in 1 .. Len(data_stream.cells)
         /\ data_stream.cells[1][1] = pending[1].id
         /\ ToServe = pending /\ (allocator <=> pending[1].len >= SharedCap)
<1>1. /\ pending \in Seq(Sendable) /\ data_stream.cells \in Seq(Cell) /\ wire \in Seq(Cell)
      /\ Consecutive(pending)
  BY TypeParts
<1>2. data_stream.cells # <<>> /\ data_stream.cells[1] # Junk
      /\ (allocator <=> pending[1].len >= SharedCap)
  BY DEF IInv, Framed, Stained
<1>3. ToServe = pending
  BY DEF ToServe
<1>4. PICK s \in Seq(Cell) : Carries(s)
  BY DEF IInv, Underway, Over
<1>5. Shows(data_stream.cells, wire, s) /\ InOrder(s, pending)
  BY <1>3, <1>4 DEF Carries
<1>6. /\ pending # <<>> /\ 1 \in DOMAIN pending /\ pending[1] \in Sendable
      /\ Head(data_stream.cells) = data_stream.cells[1]
      /\ data_stream.cells[1][1] = pending[1].id
      /\ MessageOf(data_stream.cells[1]) = pending[1]
      /\ pending[1].len \in Nat /\ pending[1].len >= HeaderLen
  BY <1>1, <1>2, <1>5, FirstCell
<1>7. Size = pending[1].len
  BY <1>6 DEF Size
<1>8. Head(pending) = pending[1]
  BY <1>1, <1>6, TailFacts
<1>9. 1 \in 1 .. Len(data_stream.cells)
  <2>1. Len(data_stream.cells) \in Nat /\ Len(data_stream.cells) # 0
    BY <1>1, <1>2, SeqFacts
  <2> QED BY <2>1
<1> QED BY <1>2, <1>3, <1>6, <1>7, <1>8, <1>9

LEMMA ReadBodyStep ==
  ASSUME IInv, NEW n \in Reads, ReadBody(n)
  PROVE  IInv'
<1>1. /\ pc = "body" /\ Read(n)
      /\ data_stream' = Grown(data_stream, SubSeq(wire, 1, n), CapOf(data_stream, Size))
      /\ UNCHANGED <<client_vars, answers, pc, why, request, allocator, conn_ex>>
  BY DEF ReadBody
<1>2. Taken(SubSeq(wire, 1, n))
  BY <1>1, ReadTakes
<1>3. PICK cells \in Seq(Cell) : cells = SubSeq(wire, 1, n)
  BY <1>2 DEF Taken
<1>4. /\ data_stream \in Slices /\ data_stream.cells \in Seq(Cell) /\ data_stream.mem # "own"
      /\ wire' \in Seq(Cell)
  BY <1>2, TypeParts DEF Taken
<1>5. CapOf(data_stream, Size) \in Nat
  BY <1>1, BodyFacts, SessionAssumption DEF CapOf
<1>6. /\ data_stream' \in Slices /\ data_stream'.cells = data_stream.cells \o cells
      /\ data_stream'.mem # "own"
  BY <1>1, <1>3, <1>4, <1>5, GrownFacts
<1>7. Typed' /\ Numbered' /\ Waiting' /\ AnswersFaithful'
  BY <1>1, <1>4, NothingServed
<1>8. TypeOK'
  BY <1>1, <1>4, <1>6, NothingServed, TypeParts
<1>9. Underway'
  <2>1. PICK s \in Seq(Cell) : Carries(s)
    BY <1>1 DEF IInv, Underway, Over
  <2>2. Carries(s)'
    BY <1>1, <1>2, <1>3, <1>4, <1>6, <2>1, TakenCarries
  <2> QED BY <2>2 DEF Underway
<1>10. Framed'
  <2>1. data_stream'.cells # <<>> /\ data_stream'.cells[1] = data_stream.cells[1]
    <3>1. /\ Len(data_stream'.cells) = Len(data_stream.cells) + Len(cells)
          /\ \A i \in 1 .. Len(data_stream.cells) : data_stream'.cells[i] = data_stream.cells[i]
      BY <1>3, <1>4, <1>6, ConcatFacts
    <3>2. 1 \in 1 .. Len(data_stream.cells)
      BY <1>1, BodyFacts
    <3>3. Len(data_stream.cells) \in Nat /\ Len(cells) \in Nat
      BY <1>4, SeqFacts
    <3>4. Len(data_stream'.cells) # 0
      BY <3>1, <3>2, <3>3
    <3>5. data_stream'.cells \in Seq(Cell)
      BY <1>6, SliceFacts
    <3>6. data_stream'.cells # <<>>
      BY <3>4, <3>5, SeqFacts
    <3> QED BY <3>1, <3>2, <3>6
  <2> QED BY <1>1, <1>6, <2>1 DEF IInv, Framed, Stained, client_vars
<1>11. SlabsHeldExactly' /\ EndServesAll'
  BY <1>1 DEF SlabsHeldExactly, EndServesAll
<1> QED BY <1>7, <1>8, <1>9, <1>10, <1>11 DEF IInv

LEMMA ReadEndsStep ==
  ASSUME IInv, ReadEnds
  PROVE  IInv'
<1>1. /\ \/ pc = "top" /\ Len(data_stream.cells) < HeaderLen
         \/ pc = "body" /\ Len(data_stream.cells) < Size
      /\ \/ ending \in {"fin", "cut"} /\ wire = <<>>
         \/ ending = "error"
      /\ pc' = "closed" /\ why' = (IF pc = "top" THEN "end" ELSE "end in message")
      /\ UNCHANGED <<client_vars, wire, data_stream, allocator, request, conn_ex, answers>>
  BY DEF ReadEnds, Break
<1>2. /\ pending \in Seq(Sendable) /\ data_stream \in Slices /\ data_stream.cells \in Seq(Cell)
      /\ wire \in Seq(Cell) /\ Consecutive(pending)
  BY TypeParts
<1>3. Typed' /\ Numbered' /\ Waiting' /\ AnswersFaithful'
  BY <1>1, <1>2, NothingServed
<1>4. TypeOK'
  <2>1. why' \in {"none", "end", "end in message", "header", "parameters", "astray"}
    BY <1>1
  <2> QED BY <1>1, <1>2, <2>1, NothingServed, TypeParts
<1>5. Underway' /\ Framed'
  BY <1>1 DEF Underway, Over, IInv, Framed
<1>6. SlabsHeldExactly'
  <2>1. CASE pc = "top"
    <3>1. ~allocator /\ why' = "end"
      BY <1>1, <2>1 DEF IInv, SlabsHeldExactly
    <3> QED BY <1>1, <3>1 DEF SlabsHeldExactly
  <2>2. CASE pc = "body"
    <3>1. (allocator <=> Head(pending).len >= SharedCap) /\ why' = "end in message"
      BY <1>1, <2>2, BodyFacts
    <3> QED BY <1>1, <3>1 DEF SlabsHeldExactly, client_vars
  <2> QED BY <1>1, <2>1, <2>2
<1>7. EndServesAll'
  <2> SUFFICES ASSUME ending \in {"fin", "cut"}
               PROVE  Len(pending) = IF ending = "cut" THEN 1 ELSE 0
    BY <1>1 DEF EndServesAll, client_vars
  <2>1. PICK s \in Seq(Cell) : Carries(s)
    BY <1>1 DEF IInv, Underway, Over
  <2>2. ToServe = pending /\ wire = <<>>
    BY <1>1 DEF ToServe
  <2>3. Len(s) = Len(data_stream.cells) /\ Len(s) \in Nat
    <3>1. Len(s) = Len(data_stream.cells) + Len(wire) /\ Len(data_stream.cells) \in Nat
      BY <1>2, <2>1, ShowsFacts DEF Carries
    <3>2. Len(wire) = 0
      BY <1>2, <2>2, SeqFacts
    <3> QED BY <3>1, <3>2
  <2>4. pending # <<>> => Len(s) < pending[1].len
    <3>1. CASE pc = "body"
      BY <1>1, <2>3, <3>1, BodyFacts
    <3>2. CASE pc = "top"
      <4>1. pending # <<>> => 1 \in DOMAIN pending
        BY <1>2, SeqFacts
      <4>2. pending # <<>> => pending[1].len \in Nat /\ pending[1].len >= HeaderLen
        BY <1>2, <4>1, MessageFacts
      <4>3. Len(s) < HeaderLen /\ HeaderLen \in Nat
        BY <1>1, <2>3, <3>2, SessionAssumption
      <4> QED BY <2>3, <4>2, <4>3
    <3> QED BY <1>1, <3>1, <3>2
  <2>5. pending # <<>> => pending[1].len \in Nat
    <3>1. pending # <<>> => 1 \in DOMAIN pending
      BY <1>2, SeqFacts
    <3> QED BY <1>2, <3>1, MessageFacts
  <2>6. CASE ending = "fin"
    <3>1. InOrder(s, pending) /\ Whole(s, pending)
      BY <2>1, <2>2, <2>6 DEF Carries
    <3>2. pending = <<>>
      BY <1>2, <2>3, <2>4, <2>5, <3>1, EnoughCells
    <3> QED BY <1>2, <2>6, <3>2, SeqFacts
  <2>7. CASE ending = "cut"
    <3>1. InOrder(s, pending) /\ CutShort(s, pending)
      BY <2>1, <2>2, <2>7 DEF Carries
    <3>2. pending # <<>>
      BY <3>1 DEF CutShort
    <3>3. Len(pending) = 1
      BY <1>2, <2>3, <2>4, <2>5, <3>1, <3>2, EnoughCells
    <3> QED BY <2>7, <3>3
  <2> QED BY <2>6, <2>7
<1> QED BY <1>3, <1>4, <1>5, <1>6, <1>7 DEF IInv

LEMMA TakeStep ==
  ASSUME IInv, TakeMessage
  PROVE  IInv'
<1>1. pc = "body" /\ UNCHANGED <<client_vars, wire, allocator>> /\ Len(data_stream.cells) >= Size
  BY DEF TakeMessage
<1>2. /\ pending \in Seq(Sendable) /\ data_stream \in Slices /\ data_stream.cells \in Seq(Cell)
      /\ wire \in Seq(Cell) /\ Consecutive(pending) /\ data_stream.mem # "own"
      /\ request \in [mem : {"heap", "shared", "slab"}, id : 0 .. MaxMessages] /\ allocator \in BOOLEAN
  BY TypeParts
<1>a. why \in {"none", "end", "end in message", "header", "parameters", "astray"}
  BY TypeParts
<1>3. PICK l \in Nat : l = Size
  BY <1>1, BodyFacts
<1>4. l = pending[1].len /\ l \in 0 .. Len(data_stream.cells) /\ Len(data_stream.cells) \in Nat
  <2>1. Len(data_stream.cells) \in Nat
    BY <1>2, SeqFacts
  <2> QED BY <1>1, <1>3, <2>1, BodyFacts
<1>5. PICK rest \in Seq(Cell) : rest = SubSeq(data_stream.cells, l + 1, Len(data_stream.cells))
  BY <1>2, <1>4, SuffixFacts
<1>6. data_stream' \in Slices /\ data_stream'.cells = rest /\ data_stream'.mem # "own"
  <2>1. data_stream' = IF rest = <<>> THEN Empty
                       ELSE [data_stream EXCEPT !.cells = rest, !.off = @ + l]
    BY <1>3, <1>5 DEF TakeMessage
  <2>2. data_stream.off \in Nat /\ data_stream.off + l \in Nat
    BY <1>2, <1>3, SliceFacts
  <2>3. PICK z \in Nat : z = data_stream.off + l
    BY <2>2
  <2>4. rest # <<>> => data_stream' = Moved(data_stream, rest, z)
    BY <2>1, <2>3 DEF Moved
  <2>5. CASE rest = <<>>
    BY <2>1, <2>5, EmptySlice
  <2>6. CASE rest # <<>>
    <3>1. data_stream \in Slices /\ data_stream.mem # "own"
      BY <1>2
    <3>2. /\ Moved(data_stream, rest, z) \in Slices
          /\ Moved(data_stream, rest, z).mem = data_stream.mem
          /\ Moved(data_stream, rest, z).cells = rest
      BY <1>5, <2>3, <3>1, MovedSlice
    <3> QED BY <2>4, <2>6, <3>1, <3>2
  <2> QED BY <2>5, <2>6
<1>7. CASE Break("parameters")
  <2>1. pc' = "closed" /\ why' = "parameters" /\ UNCHANGED <<request, conn_ex, answers>>
    BY <1>7 DEF Break
  <2>2. Typed' /\ Numbered' /\ Waiting' /\ AnswersFaithful'
    BY <1>1, <1>2, <2>1, NothingServed
  <2>3. TypeOK'
    BY <1>1, <1>2, <1>a, <1>6, <2>1, NothingServed
  <2>4. Underway' /\ Framed' /\ EndServesAll'
    BY <1>6, <2>1 DEF Underway, Over, Framed, EndServesAll
  <2>5. SlabsHeldExactly'
    <3>1. allocator <=> Head(pending).len >= SharedCap
      BY <1>1, BodyFacts
    <3> QED BY <1>1, <2>1, <3>1 DEF SlabsHeldExactly, client_vars
  <2> QED BY <2>2, <2>3, <2>4, <2>5 DEF IInv
<1>8. CASE /\ pc' = "serve"
           /\ request' = [id |-> data_stream.cells[1][1],
                          mem |-> IF Head(pending).kind = "zip" THEN "heap" ELSE data_stream.mem]
           /\ UNCHANGED <<why, conn_ex, answers>>
  <2>1. Typed' /\ Numbered' /\ Waiting' /\ AnswersFaithful'
    BY <1>1, <1>2, <1>8, NothingServed
  <2>2. request' \in [mem : {"heap", "shared", "slab"}, id : 0 .. MaxMessages]
        /\ request'.id = pending[1].id
    <3>1. pending[1].id \in 0 .. MaxMessages
      BY <1>1, BodyFacts DEF Sendable
    <3>2. data_stream.mem \in {"heap", "shared", "slab"}
      BY <1>2, SliceFacts
    <3> QED BY <1>1, <1>8, <3>1, <3>2, BodyFacts
  <2>3. TypeOK'
    BY <1>1, <1>2, <1>a, <1>6, <1>8, <2>2, NothingServed
  <2>5. SlabsHeldExactly' /\ EndServesAll'
    BY <1>8 DEF SlabsHeldExactly, EndServesAll
  <2>6. PICK s \in Seq(Cell) : Carries(s)
    BY <1>1 DEF IInv, Underway, Over
  <2>7. ToServe = pending /\ ToServe' = Tail(pending) /\ pending # <<>>
    BY <1>1, <1>8, BodyFacts DEF ToServe, client_vars
  <2>8. Len(s) >= l /\ l \in 0 .. Len(s)
    <3>1. Shows(data_stream.cells, wire, s)
      BY <2>6 DEF Carries
    <3>2. Len(s) = Len(data_stream.cells) + Len(wire) /\ Len(wire) \in Nat
      BY <1>2, <3>1, ShowsFacts
    <3> QED BY <1>4, <3>2
  <2>9. PICK t \in Seq(Cell) : t = SubSeq(s, l + 1, Len(s))
    BY <2>8, SuffixFacts
  <2>10. /\ Shows(rest, wire, t)
         /\ Untouched(data_stream.cells, s) => Untouched(rest, t)
    BY <1>2, <1>4, <1>5, <2>6, <2>9, TakeShows DEF Carries
  <2>11. /\ InOrder(t, Tail(pending))
         /\ Whole(s, pending) => Whole(t, Tail(pending))
         /\ CutShort(s, pending) => CutShort(t, Tail(pending))
    BY <1>2, <1>4, <2>6, <2>7, <2>8, <2>9, TakeOrder DEF Carries
  <2>12. Untouched(rest, t)
    BY <1>1, <2>6, <2>10 DEF IInv, Framed, Carries
  <2>13. ~Stained'
    <3> SUFFICES ASSUME rest # <<>>, rest[1] = Junk PROVE FALSE
      BY <1>6 DEF Stained
    <3>1. Len(rest) \in Nat /\ Len(rest) # 0 /\ Len(t) = Len(rest) + Len(wire) /\ Len(wire) \in Nat
      BY <1>2, <2>10, SeqFacts, ShowsFacts
    <3>2. Len(t) # 0 /\ 1 \in 1 .. Len(rest)
      BY <3>1
    <3>3. t # <<>> /\ t[1] = Junk
      BY <2>12, <3>2, SeqFacts DEF Untouched
    <3> QED BY <2>11, <3>3 DEF InOrder, Junk
  <2>14. Framed'
    BY <1>1, <1>6, <1>8, <2>2, <2>13, BodyFacts DEF Framed, client_vars
  <2>15. Carries(t)'
    BY <1>1, <1>6, <2>6, <2>7, <2>10, <2>11, <2>12 DEF Carries, client_vars
  <2> QED BY <2>1, <2>3, <2>14, <2>5, <2>15 DEF IInv, Underway
<1> QED BY <1>7, <1>8 DEF TakeMessage

-----------------------------------------------------------------------------
(* Serving and answering. *)

LEMMA OptionsKept ==
  ASSUME IInv, NEW m, NEW options \in OptionsAfter(m)
  PROVE  options \in Conninfo
<1>1. conn_ex \in Conninfo /\ Threshold \in Int
  <2>1. TypeOK
    BY DEF IInv
  <2>2. conn_ex \in Conninfo
    BY <2>1 DEF TypeOK
  <2>3. Threshold \in Int
    BY SessionAssumption
  <2> QED BY <2>2, <2>3
<1>2. CASE m.kind # "ex"
  BY <1>1, <1>2 DEF OptionsAfter
<1>3. CASE m.kind = "ex"
  <2>1. PICK snappy \in BOOLEAN, t \in {0, Threshold} :
          options = handle_conn_ex(conn_ex, setup.distance, setup.compressors, snappy, t)
    BY <1>3 DEF OptionsAfter
  <2>2. t \in Int
    BY <1>1
  <2>3. PICK asked : asked = IF snappy /\ "mp-snappy" \in setup.compressors THEN "mp-snappy" ELSE conn_ex.comp
    OBVIOUS
  <2>4. asked \in {"nil", "mp-flate", "mp-snappy"}
    BY <1>1, <2>3 DEF Conninfo
  <2>5. PICK comp : comp = IF (asked = "nil" \/ setup.distance > 1) /\ "mp-flate" \in setup.compressors
                           THEN "mp-flate" ELSE asked
    OBVIOUS
  <2>6. comp \in {"nil", "mp-flate", "mp-snappy"}
    BY <2>4, <2>5
  <2>7. PICK c \in {"nil", "mp-flate", "mp-snappy"} : c = IF t = 0 THEN "nil" ELSE comp
    BY <2>6
  <2>8. options = conn_ex \/ options = [comp |-> c, threshold |-> t]
    BY <2>1, <2>3, <2>5, <2>7 DEF handle_conn_ex
  <2>9. [comp |-> c, threshold |-> t] \in Conninfo
    BY <2>2 DEF Conninfo
  <2> QED BY <1>1, <2>8, <2>9
<1> QED BY <1>2, <1>3

(* No label but mp-snappy lies. *)
LEMMA EncodingFacts ==
  ASSUME NEW options \in Conninfo, NEW compressors, NEW length,
         NEW e \in Encodings(options, compressors, length), e # Crash
  PROVE  e \in Encoding /\ (Readable(e) <=> e.label # "mp-snappy")
<1>1. PICK c \in {"nil", "mp-flate", "mp-snappy"} : c = options.comp
  BY DEF Conninfo
<1>2. \/ e = [codec |-> "none", label |-> "none"]
      \/ e = [codec |-> "gzip", label |-> "gzip"]
      \/ c # "nil" /\ e = [codec |-> "mp-flate", label |-> c]
  <2>1. \/ e \in {Plain} \/ e \in {[codec |-> "gzip", label |-> "gzip"]} \/ e \in {Crash}
        \/ options.comp # "nil" /\ e \in {Plain, [codec |-> "mp-flate", label |-> options.comp]}
    BY Zenon DEF Encodings
  <2>2. \/ e = Plain \/ e = [codec |-> "gzip", label |-> "gzip"]
        \/ options.comp # "nil" /\ e = [codec |-> "mp-flate", label |-> options.comp]
    BY <2>1, Zenon
  <2>3. e = Plain => e = [codec |-> "none", label |-> "none"]
    BY DEF Plain
  <2> QED BY <1>1, <2>2, <2>3
<1>3. CASE e = [codec |-> "none", label |-> "none"]
  BY <1>3 DEF Encoding, Readable, Plain
<1>4. CASE e = [codec |-> "gzip", label |-> "gzip"]
  BY <1>4 DEF Encoding, Readable
<1>5. CASE c # "nil" /\ e = [codec |-> "mp-flate", label |-> c]
  <2>1. c \in {"mp-flate", "mp-snappy"}
    BY <1>5
  <2>2. e.codec = "mp-flate" /\ e.label = c
    BY <1>5
  <2>3. e \in Encoding
    BY <1>5, <2>1 DEF Encoding
  <2> QED BY <2>1, <2>2, <2>3 DEF Readable
<1> QED BY <1>2, <1>3, <1>4, <1>5

LEMMA ResponseFacts ==
  ASSUME IInv, NEW m \in Sendable, NEW r \in Responses(m)
  PROVE  r \in Slices /\ \A i \in 1 .. Len(r.cells) : r.cells[i] # Junk
<1>1. request.mem \in {"heap", "own", "shared", "slab"}
  BY TypeParts
<1>2. m.id \in Nat \ {0} /\ m.len \in Nat /\ m.id \in 0 .. MaxMessages /\ MaxMessages \in Nat
  BY SessionAssumption DEF Sendable, Lengths
<1>3. CASE r = Empty
  BY <1>3, EmptySlice
<1>4. ASSUME NEW l \in AnswerLens,
             r = [mem |-> "own", off |-> 0, cells |-> [i \in 1 .. l |-> <<m.id, m.len>>]]
      PROVE  r \in Slices /\ \A i \in 1 .. Len(r.cells) : r.cells[i] # Junk
  <2> DEFINE d == [i \in 1 .. l |-> <<m.id, m.len>>]
  <2>1. l \in Nat
    BY SessionAssumption
  <2>2. <<m.id, m.len>> \in Cell /\ <<m.id, m.len>> # Junk
    BY <1>2 DEF Cell, Junk
  <2>3. d \in Seq(Cell) /\ Len(d) = l
    <3>1. d \in [1 .. l -> Cell]
      BY <2>2
    <3>2. d \in Seq(Cell)
      BY <2>1, <3>1, SeqDef
    <3> QED BY <2>1, <3>1, <3>2, LenProperties
  <2>4. \A i \in 1 .. l : d[i] # Junk
    BY <2>2
  <2> HIDE DEF d
  <2>5. r = [mem |-> "own", off |-> 0, cells |-> d]
    BY <1>4 DEF d
  <2>6. [mem |-> "own", off |-> 0, cells |-> d] \in Slices
    BY <2>3, MakeSlice
  <2> QED BY <2>3, <2>4, <2>5, <2>6
<1>5. ASSUME NEW l \in AnswerLens, l + HeaderLen <= m.len,
             r = [mem |-> request.mem, off |-> m.len - l, cells |-> SubSeq(Bytes(m), m.len - l + 1, m.len)]
      PROVE  r \in Slices /\ \A i \in 1 .. Len(r.cells) : r.cells[i] # Junk
  <2>1. l \in Nat /\ HeaderLen \in Nat
    BY SessionAssumption
  <2>2. PICK n \in Nat : n = m.len - l /\ n \in 0 .. m.len
    <3>1. m.len - l \in Nat /\ m.len - l \in 0 .. m.len
      BY <1>2, <1>5, <2>1
    <3> QED BY <3>1
  <2>3. PICK b \in Seq(Cell) : b = Bytes(m) /\ Len(b) = m.len /\ \A i \in 1 .. m.len : b[i] = <<m.id, i>>
    BY BytesFacts
  <2>4. n \in 0 .. Len(b)
    BY <2>2, <2>3
  <2>5. PICK d \in Seq(Cell) : d = SubSeq(b, n + 1, Len(b))
    BY <2>4, SuffixFacts
  <2>6. Len(d) = Len(b) - n /\ \A i \in 1 .. Len(b) - n : d[i] = b[n + i]
    BY <2>4, <2>5, SuffixFacts
  <2>7. ASSUME NEW i \in 1 .. Len(d) PROVE d[i] # Junk
    <3>1. n + i \in 1 .. m.len /\ i \in 1 .. Len(b) - n
      BY <1>2, <2>2, <2>3, <2>6
    <3>2. d[i] = <<m.id, n + i>>
      BY <2>3, <2>6, <3>1
    <3> QED BY <1>2, <3>2 DEF Junk
  <2>8. r = [mem |-> request.mem, off |-> n, cells |-> d]
    BY <1>5, <2>2, <2>3, <2>5
  <2>9. [mem |-> request.mem, off |-> n, cells |-> d] \in Slices
    BY <1>1, MakeSlice
  <2> QED BY <2>7, <2>8, <2>9
<1> QED BY <1>3, <1>4, <1>5 DEF Responses

LEMMA WrittenFacts ==
  ASSUME NEW e, NEW length \in Nat, NEW w \in Written(e, length)
  PROVE  w \in Nat
<1>1. PICK l \in (IF e.codec = "gzip" THEN 1 .. SharedCap ELSE {length}) :
        w = AnswerHeader + (IF e.codec # "mp-flate" /\ AnswerHeader + l < SharedCap THEN l ELSE 0)
  BY DEF Written
<1>2. l \in Nat
  BY <1>1
<1> QED BY <1>1, <1>2, SessionAssumption

(* What the client gets is the response, unless the header went over it. *)
LEMMA BodyFaithful ==
  ASSUME NEW r \in Slices, \A i \in 1 .. Len(r.cells) : r.cells[i] # Junk
  PROVE  Overwritten(r, AnswerHeader).cells = r.cells <=>
           ~(r.mem = "shared" /\ r.cells # <<>> /\ r.off < AnswerHeader)
<1>1. AnswerHeader \in Nat /\ r.off \in Nat /\ r.cells \in Seq(Cell) /\ Len(r.cells) \in Nat
  BY SessionAssumption, SliceFacts, SeqFacts
<1>2. PICK o \in Slices : o = Overwritten(r, AnswerHeader)
  BY <1>1, OverwrittenFacts
<1>3. /\ Len(o.cells) = Len(r.cells) /\ (r.mem # "shared" => o = r)
      /\ \A i \in 1 .. Len(r.cells) :
           o.cells[i] = IF r.mem = "shared" /\ r.off + i <= AnswerHeader THEN Junk ELSE r.cells[i]
  BY <1>1, <1>2, OverwrittenFacts DEF Worn
<1>4. ASSUME r.mem = "shared", r.cells # <<>>, r.off < AnswerHeader
      PROVE  o.cells # r.cells
  <2>1. 1 \in 1 .. Len(r.cells)
    <3>1. Len(r.cells) # 0
      BY <1>1, <1>4, SeqFacts
    <3> QED BY <1>1, <3>1
  <2>2. r.off + 1 <= AnswerHeader
    BY <1>1, <1>4
  <2>3. o.cells[1] = Junk
    BY <1>3, <1>4, <2>1, <2>2
  <2> QED BY <2>1, <2>3
<1>5. ASSUME ~(r.mem = "shared" /\ r.cells # <<>> /\ r.off < AnswerHeader)
      PROVE  o.cells = r.cells
  <2>1. ASSUME NEW i \in 1 .. Len(r.cells) PROVE o.cells[i] = r.cells[i]
    <3>1. r.cells # <<>>
      BY <1>1, SeqFacts
    <3>2. r.mem = "shared" => ~(r.off + i <= AnswerHeader)
      BY <1>1, <1>5, <3>1
    <3> QED BY <1>3, <3>2
  <2>2. o.cells \in Seq(Cell)
    BY SliceFacts
  <2> QED BY <1>1, <1>3, <2>1, <2>2, SeqEqual
<1> QED BY <1>2, <1>4, <1>5

(* The message that is served, when its answer leaves the server alive. *)
LEMMA ServeFacts ==
  ASSUME IInv, pc = "serve"
  PROVE  /\ pending # <<>> /\ Head(pending) = pending[1] /\ pending[1] \in Sendable
         /\ request.id = pending[1].id /\ request.id \in 1 .. MaxMessages
         /\ ToServe = Tail(pending) /\ Tail(pending) \in Seq(Sendable)
         /\ Len(Tail(pending)) = Len(pending) - 1 /\ Len(pending) \in Nat
         /\ \A i \in 1 .. Len(pending) - 1 : Tail(pending)[i] = pending[i + 1]
<1>1. pending \in Seq(Sendable) /\ pending # <<>> /\ request.id = pending[1].id
  BY TypeParts DEF IInv, Framed
<1>2. /\ Len(pending) \in Nat /\ Len(pending) # 0 /\ Head(pending) = pending[1]
      /\ pending[1] \in Sendable /\ Tail(pending) \in Seq(Sendable)
      /\ Len(Tail(pending)) = Len(pending) - 1
      /\ \A i \in 1 .. Len(pending) - 1 : Tail(pending)[i] = pending[i + 1]
  BY <1>1, TailFacts
<1>3. pending[1].id \in 1 .. MaxMessages
  BY <1>2 DEF Sendable
<1> QED BY <1>1, <1>2, <1>3 DEF ToServe

(* Either sharedmem was written from where what the server still holds      *)
(* begins, or nothing of that changed; for a client that waits there is     *)
(* nothing left that could show it.                                         *)
LEMMA ServedCarries ==
  ASSUME IInv, pc = "serve", pc' = "top", pending' = Tail(pending),
         UNCHANGED <<setup, sent, wire, ending>>,
         data_stream' \in Slices, Worn(data_stream'.cells, data_stream.cells),
         pending[1].kind = "skip" => data_stream' = data_stream
  PROVE  Underway'
<1>1. /\ data_stream.cells \in Seq(Cell) /\ data_stream'.cells \in Seq(Cell) /\ wire \in Seq(Cell)
  BY TypeParts, SliceFacts
<1>2. PICK s \in Seq(Cell) : Carries(s)
  BY DEF IInv, Underway, Over
<1>3. ToServe' = ToServe /\ ToServe = Tail(pending)
  BY DEF ToServe
<1>4. Shows(data_stream'.cells, wire, s)
  <2>1. Shows(data_stream.cells, wire, s)
    BY <1>2 DEF Carries
  <2> QED BY <1>1, <2>1, WornShows
<1>5. setup.client = "waits" => Untouched(data_stream'.cells, s)
  <2> SUFFICES ASSUME setup.client = "waits" PROVE Untouched(data_stream'.cells, s)
    OBVIOUS
  <2>1. CASE pending[1].kind = "skip"
    BY <1>2, <2>1 DEF Carries
  <2>2. CASE pending[1].kind # "skip"
    <3>1. Len(pending) \in Nat /\ Len(pending) # 0
      BY ServeFacts, TypeParts, SeqFacts
    <3>2. ~(1 \in 1 .. Len(pending) - 1)
      BY <2>2 DEF IInv, Waiting
    <3>3. Len(Tail(pending)) = 0
      BY <3>1, <3>2, ServeFacts
    <3>4. Tail(pending) = <<>>
      BY <3>3, ServeFacts, SeqFacts
    <3>5. s = <<>>
      BY <1>2, <1>3, <3>4 DEF Carries, InOrder
    <3>6. Len(s) = 0
      BY <3>5, SeqFacts
    <3>7. Len(data_stream'.cells) = 0
      <4>1. Len(s) = Len(data_stream'.cells) + Len(wire)
            /\ Len(data_stream'.cells) \in Nat /\ Len(wire) \in Nat
        BY <1>1, <1>4, ShowsFacts
      <4>2. PICK a \in Nat, b \in Nat : a = Len(data_stream'.cells) /\ b = Len(wire)
        BY <4>1
      <4>3. a + b = 0
        BY <3>6, <4>1, <4>2
      <4>4. a = 0
        BY <4>2, <4>3
      <4> QED BY <4>2, <4>4
    <3> QED BY <3>7 DEF Untouched
  <2> QED BY <2>1, <2>2
<1>6. ~Stained' => Untouched(data_stream'.cells, s)
  <2> SUFFICES ASSUME ~Stained' PROVE Untouched(data_stream'.cells, s)
    OBVIOUS
  <2>1. Untouched(data_stream.cells, s)
    BY <1>2 DEF IInv, Framed, Carries
  <2>2. data_stream'.cells # <<>> => data_stream'.cells = data_stream.cells
    BY DEF Stained, Worn
  <2>3. data_stream'.cells = <<>> => Len(data_stream'.cells) = 0
    BY <1>1, SeqFacts
  <2> QED BY <2>1, <2>2, <2>3 DEF Untouched
<1>7. Carries(s)'
  BY <1>2, <1>3, <1>4, <1>5, <1>6 DEF Carries
<1> QED BY <1>7 DEF Underway

(* What serving and answering do: a crash in sendBack changes nothing the   *)
(* client can see.                                                          *)
LEMMA AnswerEffect ==
  ASSUME IInv, Answer, NEW m, m = pending[1]
  PROVE  /\ conn_ex' \in Conninfo
         /\ \/ pc' = "crashed" /\ UNCHANGED <<answers, data_stream>>
            \/ /\ pc' = "top" /\ data_stream' \in Slices /\ data_stream'.mem # "own"
               /\ Worn(data_stream'.cells, data_stream.cells)
               /\ m.kind = "skip" => data_stream' = data_stream /\ answers' = answers
               /\ m.kind # "skip" =>
                    \E a \in Answers : Faithful(a) /\ a.to = m.id /\ answers' = Append(answers, a)
<1>1. pc = "serve"
  BY DEF Answer
<1>2. m \in Sendable /\ m = Head(pending)
  BY <1>1, ServeFacts
<1>3. PICK options \in OptionsAfter(m), r \in Responses(m) :
        /\ conn_ex' = options
        /\ IF m.kind # "skip" THEN SendBack(r, options)
           ELSE pc' = "top" /\ UNCHANGED <<answers, data_stream>>
  BY <1>2 DEF Answer
<1>4. /\ pending \in Seq(Sendable) /\ wire \in Seq(Cell) /\ answers \in Seq(Answers)
      /\ data_stream \in Slices /\ data_stream.cells \in Seq(Cell) /\ data_stream.mem # "own"
      /\ Consecutive(pending)
  BY TypeParts
<1>5. conn_ex' \in Conninfo /\ options \in Conninfo
  BY <1>3, OptionsKept
<1>6. r \in Slices /\ (\A i \in 1 .. Len(r.cells) : r.cells[i] # Junk) /\ Len(r.cells) \in Nat
  <2>1. r \in Slices /\ (\A i \in 1 .. Len(r.cells) : r.cells[i] # Junk)
    BY <1>2, ResponseFacts
  <2> QED BY <2>1, SliceFacts, SeqFacts
<1> QED
  <2>1. CASE m.kind = "skip"
    <3>1. pc' = "top" /\ answers' = answers /\ data_stream' = data_stream
      BY <1>3, <2>1
    <3>2. Worn(data_stream.cells, data_stream.cells)
      BY DEF Worn
    <3> QED BY <1>4, <1>5, <2>1, <3>1, <3>2
  <2>2. CASE m.kind # "skip"
    <3>1. PICK e \in Encodings(options, setup.compressors, Len(r.cells)) :
            IF e = Crash
            THEN /\ pc' = "crashed"
                 /\ UNCHANGED <<answers, data_stream>>
            ELSE /\ pc' = "top"
                 /\ answers' = Append(answers, [to |-> request.id, encoding |-> e,
                                                source |-> r, body |-> Overwritten(r, AnswerHeader).cells])
                 /\ \E w \in Written(e, Len(r.cells)) : data_stream' = Overwritten(data_stream, w)
      BY <1>3, <2>2 DEF SendBack
    <3>2. CASE e # Crash
      <4>1. PICK w \in Written(e, Len(r.cells)) : data_stream' = Overwritten(data_stream, w)
        BY <3>1, <3>2
      <4>2. w \in Nat
        BY <1>6, WrittenFacts
      <4>3. /\ data_stream' \in Slices /\ data_stream'.mem # "own"
            /\ Worn(data_stream'.cells, data_stream.cells)
        BY <1>4, <4>1, <4>2, OverwrittenFacts
      <4>4. PICK b \in Seq(Cell) : b = Overwritten(r, AnswerHeader).cells
        BY <1>6, OverwrittenFacts, SliceFacts, SessionAssumption
      <4>5. b = r.cells <=> ~(r.mem = "shared" /\ r.cells # <<>> /\ r.off < AnswerHeader)
        BY <1>6, <4>4, BodyFaithful
      <4>6. e \in Encoding /\ (Readable(e) <=> e.label # "mp-snappy")
        BY <1>5, <3>2, EncodingFacts
      <4>7. PICK a : a = [to |-> request.id, encoding |-> e, source |-> r, body |-> b]
        OBVIOUS
      <4>8. a.encoding = e /\ a.source = r /\ a.body = b /\ a.to = m.id
        BY <1>1, <4>7, ServeFacts
      <4>9. Faithful(a)
        BY <4>5, <4>6, <4>8 DEF Faithful
      <4>10. a \in Answers
        BY <1>1, <1>6, <4>6, <4>7, ServeFacts DEF Answers
      <4>11. answers' = Append(answers, a)
        BY <3>1, <3>2, <4>4, <4>7
      <4>12. pc' = "top"
        BY <3>1, <3>2
      <4> QED BY <1>5, <2>2, <4>3, <4>8, <4>9, <4>10, <4>11, <4>12
    <3> QED BY <1>5, <3>1, <3>2
  <2> QED BY <2>1, <2>2

(* What is known of the answers and of the memory, for every place of the   *)
(* program.                                                                 *)
LEMMA AstrayFacts ==
  ASSUME IInv
  PROVE  /\ answers \in Seq(Answers) /\ wire \in Seq(Cell) /\ \A i \in DOMAIN answers : Faithful(answers[i])
         /\ why \in {"none", "end", "end in message", "header", "parameters", "astray"}
         /\ data_stream \in Slices /\ data_stream.mem # "own" /\ allocator \in BOOLEAN
         /\ \A d \in Seq(Cell) : LET x == [data_stream EXCEPT !.cells = d]
                                 IN  x \in Slices /\ x.mem # "own"
<1>1. \A i \in DOMAIN answers : Faithful(answers[i])
  BY DEF IInv, AnswersFaithful, Faithful
<1>2. ASSUME NEW d \in Seq(Cell)
      PROVE  [data_stream EXCEPT !.cells = d] \in Slices /\ [data_stream EXCEPT !.cells = d].mem # "own"
  <2>1. [data_stream EXCEPT !.cells = d] = [mem |-> data_stream.mem, off |-> data_stream.off, cells |-> d]
    <3>1. PICK x \in Slices : x = data_stream
      BY TypeParts
    <3>2. [x EXCEPT !.cells = d] = [mem |-> x.mem, off |-> x.off, cells |-> d]
      BY SliceFacts
    <3> QED BY <3>1, <3>2
  <2>2. data_stream.mem \in {"heap", "own", "shared", "slab"} /\ data_stream.off \in Nat
        /\ data_stream.mem # "own"
    BY TypeParts, SliceFacts
  <2> QED BY <2>1, <2>2, MakeSlice
<1> QED BY <1>1, <1>2, TypeParts

LEMMA AppendFaithful ==
  ASSUME IInv, NEW a \in Answers, Faithful(a), answers' = Append(answers, a)
  PROVE  answers' \in Seq(Answers) /\ \A i \in DOMAIN answers' : Faithful(answers'[i])
<1>0. answers \in Seq(Answers) /\ \A i \in DOMAIN answers : Faithful(answers[i])
  BY AstrayFacts
<1>1. PICK u \in Seq(Answers) : u = Append(answers, a)
  BY <1>0, AppendFacts
<1>2. /\ Len(u) = Len(answers) + 1 /\ u[Len(answers) + 1] = a
      /\ \A i \in 1 .. Len(answers) : u[i] = answers[i]
  BY <1>0, <1>1, AppendFacts
<1>3. Len(answers) \in Nat /\ DOMAIN answers = 1 .. Len(answers) /\ DOMAIN u = 1 .. Len(u)
  BY <1>0, SeqFacts
<1>4. \A i \in DOMAIN u : i \in DOMAIN answers \/ i = Len(answers) + 1
  BY <1>2, <1>3
<1>5. \A i \in DOMAIN u : Faithful(u[i])
  BY <1>0, <1>2, <1>3, <1>4
<1> QED BY <1>1, <1>5

LEMMA AnswerStep ==
  ASSUME IInv, Answer
  PROVE  IInv'
<1>1. /\ pc = "serve" /\ request' = NoRequest /\ allocator' = FALSE
      /\ UNCHANGED <<setup, sent, wire, ending, why>>
      /\ pending' = IF pc' = "crashed" THEN pending ELSE Tail(pending)
  BY DEF Answer
<1>2. PICK m \in Sendable : m = Head(pending) /\ m = pending[1]
  BY <1>1, ServeFacts
<1>4. /\ pending \in Seq(Sendable) /\ wire \in Seq(Cell) /\ answers \in Seq(Answers)
      /\ data_stream \in Slices /\ data_stream.cells \in Seq(Cell) /\ data_stream.mem # "own"
      /\ Consecutive(pending)
  BY TypeParts
<1>5. conn_ex' \in Conninfo
  BY <1>2, AnswerEffect
<1>7. request' \in [mem : {"heap", "shared", "slab"}, id : 0 .. MaxMessages]
  <2>1. 0 \in 0 .. MaxMessages
    BY SessionAssumption
  <2> QED BY <1>1, <2>1 DEF NoRequest
<1>8. \/ pc' = "crashed" /\ UNCHANGED <<answers, data_stream>>
      \/ /\ pc' = "top" /\ data_stream' \in Slices /\ data_stream'.mem # "own"
         /\ Worn(data_stream'.cells, data_stream.cells)
         /\ m.kind = "skip" => data_stream' = data_stream
         /\ \/ answers' = answers
            \/ \E a \in Answers : Faithful(a) /\ answers' = Append(answers, a)
  BY <1>2, AnswerEffect
<1>9. CASE pc' = "crashed" /\ UNCHANGED <<answers, data_stream>>
  <2>1. pending' = pending
    BY <1>1, <1>9
  <2>2. TypeOK'
    BY <1>1, <1>5, <1>7, <1>9, <2>1 DEF IInv, TypeOK
  <2>3. Typed' /\ Numbered' /\ Waiting' /\ AnswersFaithful'
    BY <1>1, <1>9, <2>1 DEF IInv, Typed, Numbered, Consecutive, Waiting, AnswersFaithful
  <2>4. Underway' /\ Framed' /\ SlabsHeldExactly' /\ EndServesAll'
    BY <1>4, <1>9 DEF Underway, Over, Framed, SlabsHeldExactly, EndServesAll
  <2> QED BY <2>2, <2>3, <2>4 DEF IInv
<1>10. CASE /\ pc' = "top" /\ data_stream' \in Slices /\ data_stream'.mem # "own"
            /\ Worn(data_stream'.cells, data_stream.cells)
            /\ m.kind = "skip" => data_stream' = data_stream
            /\ \/ answers' = answers
               \/ \E a \in Answers : Faithful(a) /\ answers' = Append(answers, a)
  <2>1. pending' = Tail(pending) /\ pc' = "top"
    BY <1>1, <1>10
  <2>2. PICK t \in Seq(Sendable) : t = Tail(pending)
    BY <1>1, ServeFacts
  <2>3. /\ Len(pending) \in Nat /\ Len(t) = Len(pending) - 1 /\ DOMAIN t = 1 .. Len(pending) - 1
        /\ DOMAIN pending = 1 .. Len(pending)
        /\ \A i \in 1 .. Len(pending) - 1 : t[i] = pending[i + 1] /\ i + 1 \in DOMAIN pending
    <3>1. Len(pending) \in Nat /\ Len(t) = Len(pending) - 1 /\ DOMAIN t = 1 .. Len(t)
          /\ DOMAIN pending = 1 .. Len(pending)
          /\ \A i \in 1 .. Len(pending) - 1 : t[i] = pending[i + 1]
      BY <1>1, <1>4, <2>2, ServeFacts, SeqFacts
    <3>2. \A i \in 1 .. Len(pending) - 1 : i + 1 \in 1 .. Len(pending)
      BY <3>1
    <3> QED BY <3>1, <3>2
  <2>4. Underway'
    BY <1>1, <1>2, <1>10, <2>1, ServedCarries
  <2>5. answers' \in Seq(Answers) /\ \A i \in DOMAIN answers' : Faithful(answers'[i])
    <3>0. \A i \in DOMAIN answers : Faithful(answers[i])
      BY DEF IInv, AnswersFaithful, Faithful
    <3>1. CASE answers' = answers
      BY <1>4, <3>0, <3>1
    <3> QED BY <1>10, <3>1, AppendFaithful
  <2>6. TypeOK'
    <3>1. \A i \in DOMAIN pending : Offered(pending[i])
      BY DEF IInv, TypeOK, Offered
    <3>2. \A i \in DOMAIN t : Offered(t[i])
      BY <2>3, <3>1
    <3>3. (\A i \in DOMAIN pending : /\ pending[i].id \in 1 .. MaxMessages
                                  /\ [len |-> pending[i].len, kind |-> pending[i].kind] \in Shapes)'
      BY <2>1, <2>2, <3>2 DEF Offered
    <3>4. \A i \in DOMAIN answers' : answers'[i] \in Answers
      BY <2>5, SeqFacts
    <3>5. (\A i \in DOMAIN answers : answers[i].to \in 0 .. MaxMessages /\ answers[i].source \in Slices)'
      BY <3>4 DEF Answers
    <3>6. /\ sent' \in 0 .. MaxMessages /\ ending' \in {"open", "fin", "cut", "error"}
          /\ allocator' \in BOOLEAN
      BY <1>1 DEF IInv, TypeOK
    <3>7. why' \in {"none", "end", "end in message", "header", "parameters", "astray"}
      <4>1. why \in {"none", "end", "end in message", "header", "parameters", "astray"} /\ why' = why
        BY <1>1, TypeParts
      <4> QED BY <4>1
    <3>8. pc' \in {"top", "body", "serve", "astray", "closed", "crashed"} /\ data_stream' \in Slices
      BY <1>10
    <3> QED BY <1>5, <1>7, <3>3, <3>5, <3>6, <3>7, <3>8 DEF TypeOK
  <2>7. Typed'
    BY <1>1, <1>4, <2>1, <2>2, <2>5 DEF IInv, Typed
  <2>8. Numbered'
    <3>1. Consecutive(t)
      BY <1>1, <1>4, <2>2, ConsecutiveTail, ServeFacts
    <3>2. t # <<>> => t[Len(t)].id = sent
      <4>1. t # <<>> => Len(t) # 0
        BY SeqFacts
      <4>2. t # <<>> => Len(t) \in 1 .. Len(pending) - 1 /\ Len(t) + 1 = Len(pending)
        BY <2>3, <4>1
      <4>3. pending[Len(pending)].id = sent
        BY <1>1, ServeFacts DEF IInv, Numbered
      <4> QED BY <2>3, <4>2, <4>3
    <3> QED BY <1>1, <2>1, <2>2, <3>1, <3>2 DEF Numbered, Consecutive
  <2>9. Waiting'
    <3>1. ASSUME setup.client = "waits", NEW i \in 1 .. Len(t) - 1 PROVE t[i].kind = "skip"
      <4>1. i + 1 \in 1 .. Len(pending) - 1 /\ i \in 1 .. Len(pending) - 1
        BY <2>3
      <4>2. pending[i + 1].kind = "skip"
        BY <3>1, <4>1 DEF IInv, Waiting
      <4> QED BY <2>3, <4>1, <4>2
    <3> QED BY <1>1, <2>1, <2>2, <3>1 DEF Waiting
  <2>10. Framed' /\ SlabsHeldExactly' /\ EndServesAll'
    BY <1>1, <1>10 DEF Framed, SlabsHeldExactly, EndServesAll
  <2>11. AnswersFaithful'
    BY <2>5 DEF AnswersFaithful, Faithful
  <2> QED BY <2>4, <2>6, <2>7, <2>8, <2>9, <2>10, <2>11 DEF IInv
<1> QED BY <1>8, <1>9, <1>10

-----------------------------------------------------------------------------
(* A server astray: nothing is claimed of the stream or of the slabs.       *)

LEMMA AstrayStep ==
  ASSUME IInv, UNCHANGED client_vars, UNCHANGED conn_ex, wire' \in Seq(Cell), answers' \in Seq(Answers),
         \A i \in DOMAIN answers' : Faithful(answers'[i]),
         pc = "astray", pc' \in {"astray", "closed", "crashed"}, request' = request,
         why' \in {"none", "end", "end in message", "header", "parameters", "astray"},
         pc' = "closed" => why' = "astray",
         data_stream' \in Slices, data_stream'.mem # "own", allocator' \in BOOLEAN
  PROVE  IInv'
<1>1. Typed' /\ Numbered' /\ Waiting'
  BY DEF IInv, Typed, Numbered, Consecutive, Waiting, client_vars
<1>2. AnswersFaithful'
  BY DEF AnswersFaithful, Faithful
<1>3. TypeOK'
  <2>1. \A i \in DOMAIN answers' : answers'[i] \in Answers
    BY SeqFacts
  <2>2. (\A i \in DOMAIN answers : answers[i].to \in 0 .. MaxMessages /\ answers[i].source \in Slices)'
    BY <2>1 DEF Answers
  <2> QED BY <2>2 DEF IInv, TypeOK, client_vars
<1>4. Underway' /\ Framed' /\ SlabsHeldExactly' /\ EndServesAll'
  BY DEF IInv, Underway, Over, Framed, SlabsHeldExactly, EndServesAll, client_vars
<1> QED BY <1>1, <1>2, <1>3, <1>4 DEF IInv

LEMMA StrayReadStep ==
  ASSUME IInv, NEW n \in Reads, StrayRead(n)
  PROVE  IInv'
<1>1. /\ pc = "astray" /\ Read(n) /\ allocator' \in {allocator, TRUE}
      /\ data_stream' = [data_stream EXCEPT !.cells = @ \o [i \in 1 .. n |-> Junk]]
      /\ UNCHANGED <<client_vars, answers, pc, why, request, conn_ex>>
  BY DEF StrayRead
<1>2. wire' \in Seq(Cell)
  BY <1>1, ReadTakes DEF Taken
<1>3. n \in Nat /\ [i \in 1 .. n |-> Junk] \in [1 .. n -> Cell]
  BY JunkCell, SessionAssumption DEF Reads
<1>4. PICK j \in Seq(Cell) : j = [i \in 1 .. n |-> Junk]
  <2>1. [i \in 1 .. n |-> Junk] \in Seq(Cell)
    BY <1>3, IsASeq
  <2> QED BY <2>1
<1>5. PICK d \in Seq(Cell) : d = data_stream.cells \o j
  BY ConcatFacts, TypeParts
<1>6. data_stream' = [data_stream EXCEPT !.cells = d]
  BY <1>1, <1>4, <1>5
<1>7. data_stream' \in Slices /\ data_stream'.mem # "own" /\ allocator' \in BOOLEAN
  BY <1>1, <1>6, AstrayFacts
<1> QED BY <1>1, <1>2, <1>7, AstrayFacts, AstrayStep

LEMMA StrayServeEffect ==
  ASSUME IInv, StrayServe
  PROVE  \/ answers' = answers
         \/ \E a \in Answers : Faithful(a) /\ answers' = Append(answers, a)
<1> SUFFICES ASSUME NEW guid \in 0 .. sent,
                    answers' = Append(answers, [to |-> guid, encoding |-> Plain,
                                                source |-> Empty, body |-> <<>>])
             PROVE  \E a \in Answers : Faithful(a) /\ answers' = Append(answers, a)
  BY DEF StrayServe
<1>1. guid \in 0 .. MaxMessages
  <2>1. sent \in 0 .. MaxMessages
    BY DEF IInv, TypeOK
  <2> QED BY <2>1, SessionAssumption
<1>2. PICK a : a = [to |-> guid, encoding |-> Plain, source |-> Empty, body |-> <<>>]
  OBVIOUS
<1>3. Plain \in Encoding /\ (Readable(Plain) <=> Plain.label # "mp-snappy")
  BY DEF Plain, Encoding, Readable
<1>4. a \in Answers
  <2>1. <<>> \in Seq(Cell)
    OBVIOUS
  <2> QED BY <1>1, <1>2, <1>3, <2>1, EmptySlice DEF Answers
<1>5. Faithful(a)
  BY <1>2, <1>3, EmptySlice DEF Faithful
<1> QED BY <1>2, <1>4, <1>5

LEMMA StrayServeStep ==
  ASSUME IInv, StrayServe
  PROVE  IInv'
<1>1. /\ pc = "astray" /\ allocator' \in BOOLEAN
      /\ UNCHANGED <<client_vars, wire, pc, why, request, conn_ex>>
  BY DEF StrayServe
<1>2. PICK k \in HeaderLen .. Len(data_stream.cells) :
        data_stream' = [data_stream EXCEPT !.cells = SubSeq(@, k + 1, Len(@))]
  BY DEF StrayServe
<1>3. data_stream.cells \in Seq(Cell) /\ Len(data_stream.cells) \in Nat
  BY TypeParts, SeqFacts
<1>4. k \in 0 .. Len(data_stream.cells)
  BY <1>3, SessionAssumption
<1>5. PICK d \in Seq(Cell) : d = SubSeq(data_stream.cells, k + 1, Len(data_stream.cells))
  BY <1>3, <1>4, SuffixFacts
<1>6. data_stream' = [data_stream EXCEPT !.cells = d]
  BY <1>2, <1>5
<1>7. data_stream' \in Slices /\ data_stream'.mem # "own"
  BY <1>6, AstrayFacts
<1>8. answers' \in Seq(Answers) /\ \A i \in DOMAIN answers' : Faithful(answers'[i])
  BY StrayServeEffect, AppendFaithful, AstrayFacts
<1> QED BY <1>1, <1>7, <1>8, AstrayFacts, AstrayStep

LEMMA StrayLeavesStep ==
  ASSUME IInv, StrayLeaves
  PROVE  IInv'
<1>1. /\ pc = "astray" /\ UNCHANGED <<client_vars, wire, data_stream, allocator, request, conn_ex, answers>>
      /\ \/ pc' = "closed" /\ why' = "astray"
         \/ pc' = "crashed" /\ why' = why
  BY DEF StrayLeaves, Break
<1>2. pc' \in {"astray", "closed", "crashed"} /\ (pc' = "closed" => why' = "astray")
      /\ why' \in {"none", "end", "end in message", "header", "parameters", "astray"}
  BY <1>1, TypeParts
<1> QED BY <1>1, <1>2, AstrayFacts, AstrayStep

-----------------------------------------------------------------------------
(* The invariant holds, and with it the properties. *)

LEMMA StutterStep ==
  ASSUME IInv, UNCHANGED vars
  PROVE  IInv'
<1>1. /\ UNCHANGED <<setup, pending, sent, ending, wire, answers, pc, why>>
      /\ UNCHANGED <<data_stream, request, allocator, conn_ex>>
  BY DEF vars, client_vars
<1>2. TypeOK' /\ Typed' /\ Numbered' /\ Waiting'
  <2>1. TypeOK /\ Typed /\ Numbered /\ Waiting
    BY DEF IInv
  <2>2. TypeOK'
    BY <1>1, <2>1 DEF TypeOK
  <2>3. Typed'
    BY <1>1, <2>1 DEF Typed
  <2>4. Numbered'
    BY <1>1, <2>1 DEF Numbered, Consecutive
  <2>5. Waiting'
    BY <1>1, <2>1 DEF Waiting
  <2> QED BY <2>2, <2>3, <2>4, <2>5
<1>3. Framed' /\ SlabsHeldExactly' /\ EndServesAll' /\ AnswersFaithful'
  BY <1>1 DEF IInv, Framed, Stained, SlabsHeldExactly, EndServesAll, AnswersFaithful
<1>4. Underway'
  <2>1. Over' = Over /\ ToServe' = ToServe
    BY <1>1 DEF Over, ToServe
  <2>2. ASSUME NEW s \in Seq(Cell), Carries(s) PROVE Carries(s)'
    BY <1>1, <2>1, <2>2 DEF Carries, Stained
  <2> QED BY <1>1, <2>1, <2>2 DEF IInv, Underway
<1> QED BY <1>2, <1>3, <1>4 DEF IInv

LEMMA ReadHeadStep ==
  ASSUME IInv, NEW n \in Reads, ReadHead(n)
  PROVE  IInv'
<1>1. pc = "top" /\ Read(n) /\ Frame(SubSeq(wire, 1, n)) /\ UNCHANGED client_vars
  BY DEF ReadHead
<1> QED BY <1>1, ReadTakes, FrameStep

LEMMA NextHeadStep ==
  ASSUME IInv, NextHead
  PROVE  IInv'
<1>1. pc = "top" /\ wire' = wire /\ Frame(<<>>) /\ UNCHANGED client_vars
  BY DEF NextHead
<1> QED BY <1>1, NothingTaken, FrameStep

LEMMA NextIInv ==
  ASSUME IInv, [Next]_vars
  PROVE  IInv'
<1>1. ASSUME ServerStep PROVE IInv'
  BY <1>1, ReadHeadStep, NextHeadStep, ReadBodyStep, ReadEndsStep, TakeStep, AnswerStep,
     StrayReadStep, StrayServeStep, StrayLeavesStep DEF ServerStep
<1> QED BY <1>1, SendStep, ReceiveStep, FinishStep, StutterStep DEF Next

LEMMA SpecIInv == Spec => []IInv
BY InitIInv, NextIInv, PTL DEF Spec

(* The variables of serveSocket and the messages keep their types. *)
THEOREM SessionTypeCorrect == Spec => []TypeOK
<1>1. IInv => TypeOK
  BY DEF IInv
<1> QED BY <1>1, SpecIInv, PTL

(* However the stream is cut into reads, whatever the sizes of the buffers, *)
(* and whatever the server writes over sharedmem: a client that waits for   *)
(* its answers has no message overwritten, any client is read in step as    *)
(* long as none is, and one that closes then has what it sent whole served  *)
(* before the connection is left.                                           *)
THEOREM StreamAlwaysIntact == Spec => []StreamIntact
<1>1. ASSUME IInv, ~Astray, ~Over PROVE InStep
  <2>1. PICK s \in Seq(Cell) : Carries(s)
    BY <1>1 DEF IInv, Underway, Astray
  <2>2. data_stream.cells \in Seq(Cell) /\ wire \in Seq(Cell)
    BY <1>1, TypeParts
  <2>3. Shows(data_stream.cells, wire, s) /\ Untouched(data_stream.cells, s)
    <3>1. ~Stained
      BY <1>1, TypeParts DEF IInv, Framed, Astray, Over
    <3> QED BY <2>1, <3>1 DEF Carries
  <2>4. PICK t \in Seq(Cell) : t = data_stream.cells \o wire
    BY <2>2, ConcatFacts
  <2>5. /\ Len(t) = Len(data_stream.cells) + Len(wire)
        /\ \A i \in 1 .. Len(data_stream.cells) : t[i] = data_stream.cells[i]
        /\ \A i \in 1 .. Len(wire) : t[Len(data_stream.cells) + i] = wire[i]
    BY <2>2, <2>4, ConcatFacts
  <2>6. Len(t) = Len(s) /\ Len(data_stream.cells) \in Nat /\ Len(wire) \in Nat
    BY <2>2, <2>3, <2>5, ShowsFacts
  <2>7. ASSUME NEW i \in 1 .. Len(t) PROVE t[i] = s[i]
    <3>1. CASE i \in 1 .. Len(data_stream.cells)
      BY <2>3, <2>5, <3>1 DEF Untouched
    <3>2. CASE i > Len(data_stream.cells)
      <4>1. i - Len(data_stream.cells) \in 1 .. Len(wire)
        BY <2>5, <2>6, <3>2
      <4>2. PICK j \in 1 .. Len(wire) : j = i - Len(data_stream.cells)
        BY <4>1
      <4>3. Len(data_stream.cells) + j = i
        BY <2>6, <4>2
      <4> QED BY <2>3, <2>5, <4>3 DEF Shows
    <3> QED BY <2>5, <2>6, <3>1, <3>2
  <2>8. t = s
    BY <2>6, <2>7, SeqEqual
  <2> QED BY <2>1, <2>4, <2>8 DEF InStep, Stream, Carries
<1>2. ASSUME IInv, setup.client = "waits" PROVE ~Astray
  <2>1. pc # "astray"
    BY <1>2 DEF IInv, Framed
  <2>2. ASSUME pc = "top", Stained PROVE FALSE
    <3>1. PICK s \in Seq(Cell) : Carries(s)
      BY <1>2, <2>2 DEF IInv, Underway, Over
    <3>2. data_stream.cells # <<>> /\ data_stream.cells[1] = Junk /\ data_stream.cells \in Seq(Cell)
      BY <1>2, <2>2, TypeParts DEF Stained
    <3>3. Len(data_stream.cells) \in Nat /\ Len(data_stream.cells) # 0
      BY <3>2, SeqFacts
    <3>4. s[1] = Junk /\ Len(s) = Len(data_stream.cells) + Len(wire) /\ Len(wire) \in Nat
      <4>1. Untouched(data_stream.cells, s) /\ Shows(data_stream.cells, wire, s)
        BY <1>2, <3>1 DEF Carries
      <4>2. wire \in Seq(Cell)
        BY <1>2, TypeParts
      <4>3. 1 \in 1 .. Len(data_stream.cells)
        BY <3>3
      <4> QED BY <3>2, <4>1, <4>2, <4>3, ShowsFacts DEF Untouched
    <3>5. Len(s) # 0
      BY <3>3, <3>4
    <3>6. s # <<>>
      BY <3>5, SeqFacts
    <3> QED BY <3>1, <3>4, <3>6 DEF Carries, InOrder, Junk
  <2> QED BY <2>1, <2>2 DEF Astray
<1>3. IInv => StreamIntact
  <2>1. IInv => EndServesAll
    BY DEF IInv
  <2>2. Over => InStep
    BY DEF InStep
  <2> QED BY <1>1, <1>2, <2>1, <2>2 DEF StreamIntact
<1> QED BY <1>3, SpecIInv, PTL

(* Slabs are given back after every answer, and kept exactly when the       *)
(* connection is left within a large message.                               *)
THEOREM SlabsAlwaysHeldExactly == Spec => []SlabsHeldExactly
<1>1. IInv => SlabsHeldExactly
  BY DEF IInv
<1> QED BY <1>1, SpecIInv, PTL

(* Answers decode by their label and carry what the handler returned, but   *)
(* for the two exceptions the property names.                               *)
THEOREM AnswersAlwaysFaithful == Spec => []AnswersFaithful
<1>1. IInv => AnswersFaithful
  BY DEF IInv
<1> QED BY <1>1, SpecIInv, PTL

-----------------------------------------------------------------------------
(* The connection is a Session. *)

(* The elements of a sequence, each mapped by a function. *)
Image(f, q) == [i \in DOMAIN q |-> f[q[i]]]

LEMMA ImageFacts ==
  ASSUME NEW A, NEW B, NEW f \in [A -> B], NEW q \in Seq(A)
  PROVE  /\ Image(f, q) \in Seq(B) /\ Len(Image(f, q)) = Len(q)
         /\ \A i \in 1 .. Len(q) : Image(f, q)[i] = f[q[i]]
<1>1. Len(q) \in Nat /\ DOMAIN q = 1 .. Len(q) /\ \A i \in 1 .. Len(q) : q[i] \in A
  BY SeqFacts
<1>2. Image(f, q) \in [1 .. Len(q) -> B]
  BY <1>1 DEF Image
<1>3. Image(f, q) \in Seq(B)
  BY <1>1, <1>2, SeqDef
<1>4. Len(Image(f, q)) = Len(q)
  BY <1>1, <1>2, <1>3, LenProperties
<1> QED BY <1>1, <1>3, <1>4 DEF Image

LEMMA ImageAppend ==
  ASSUME NEW A, NEW B, NEW f \in [A -> B], NEW q \in Seq(A), NEW a \in A
  PROVE  Image(f, Append(q, a)) = Append(Image(f, q), f[a])
<1>1. PICK r \in Seq(A) : r = Append(q, a)
  BY AppendFacts
<1>2. Len(q) \in Nat /\ f[a] \in B
  BY SeqFacts
<1>3. Len(r) = Len(q) + 1 /\ r[Len(q) + 1] = a /\ \A i \in 1 .. Len(q) : r[i] = q[i]
  BY <1>1, AppendFacts
<1>4. PICK s \in Seq(B) : s = Image(f, q)
  BY ImageFacts
<1>5. Len(s) = Len(q) /\ \A i \in 1 .. Len(q) : s[i] = f[q[i]]
  BY <1>4, ImageFacts
<1>6. PICK u \in Seq(B) : u = Append(s, f[a])
  BY <1>2, AppendFacts
<1>7. Len(u) = Len(s) + 1 /\ u[Len(s) + 1] = f[a] /\ \A i \in 1 .. Len(s) : u[i] = s[i]
  BY <1>2, <1>6, AppendFacts
<1>8. \A p \in Seq(A) :
        /\ Image(f, p) \in Seq(B) /\ Len(Image(f, p)) = Len(p)
        /\ \A i \in 1 .. Len(p) : Image(f, p)[i] = f[p[i]]
  BY ImageFacts
<1>9. PICK v \in Seq(B) : v = Image(f, r)
  BY <1>8
<1>10. Len(v) = Len(r) /\ \A i \in 1 .. Len(r) : v[i] = f[r[i]]
  BY <1>8, <1>9
<1>11. ASSUME NEW i \in 1 .. Len(v) PROVE v[i] = u[i]
  <2>1. CASE i = Len(q) + 1
    BY <1>3, <1>5, <1>7, <1>10, <2>1
  <2>2. CASE i \in 1 .. Len(q)
    BY <1>2, <1>3, <1>5, <1>7, <1>10, <2>2
  <2> QED BY <1>2, <1>3, <1>10, <2>1, <2>2
<1>12. Len(v) = Len(u)
  BY <1>3, <1>5, <1>7, <1>10
<1> QED BY <1>1, <1>4, <1>6, <1>9, <1>11, <1>12, SeqEqual

LEMMA ImageTail ==
  ASSUME NEW A, NEW B, NEW f \in [A -> B], NEW q \in Seq(A), q # <<>>
  PROVE  /\ Image(f, q) # <<>> /\ Head(Image(f, q)) = f[Head(q)]
         /\ Image(f, Tail(q)) = Tail(Image(f, q))
<1>1. PICK r \in Seq(A) : r = Tail(q)
  BY TailFacts
<1>2. Len(q) \in Nat /\ Len(q) # 0 /\ Head(q) = q[1]
  BY TailFacts
<1>3. Len(r) = Len(q) - 1 /\ \A i \in 1 .. Len(q) - 1 : r[i] = q[i + 1]
  BY <1>1, TailFacts
<1>4. PICK s \in Seq(B) : s = Image(f, q)
  BY ImageFacts
<1>5. Len(s) = Len(q) /\ \A i \in 1 .. Len(q) : s[i] = f[q[i]]
  BY <1>4, ImageFacts
<1>6. s # <<>> /\ 1 \in 1 .. Len(q)
  <2>1. Len(s) # 0
    BY <1>2, <1>5
  <2> QED BY <1>2, <2>1, SeqFacts
<1>7. Head(s) = f[q[1]]
  <2>1. Head(s) = s[1]
    BY <1>6, TailFacts
  <2> QED BY <1>5, <1>6, <2>1
<1>8. PICK u \in Seq(B) : u = Tail(s)
  BY <1>6, TailFacts
<1>9. Len(u) = Len(s) - 1 /\ \A i \in 1 .. Len(s) - 1 : u[i] = s[i + 1]
  BY <1>6, <1>8, TailFacts
<1>10. PICK v \in Seq(B) : v = Image(f, r)
  BY ImageFacts
<1>11. Len(v) = Len(r) /\ \A i \in 1 .. Len(r) : v[i] = f[r[i]]
  BY <1>10, ImageFacts
<1>12. ASSUME NEW i \in 1 .. Len(v) PROVE v[i] = u[i]
  <2>1. i \in 1 .. Len(q) - 1 /\ i + 1 \in 1 .. Len(q)
    BY <1>2, <1>3, <1>11
  <2> QED BY <1>3, <1>5, <1>9, <1>11, <2>1
<1>13. Len(v) = Len(u)
  BY <1>3, <1>5, <1>9, <1>11
<1>14. v = u
  BY <1>12, <1>13, SeqEqual
<1> QED BY <1>1, <1>2, <1>4, <1>6, <1>7, <1>8, <1>10, <1>14

(* A message as a Session names it, and whom an answer is for. *)
Names == 0 .. MaxMessages
Entry == [m \in Sendable |-> [id |-> m.id, silent |-> m.kind = "skip"]]
Addressee == [a \in Answers |-> a.to]
Inbox == Image(Entry, pending)
Outbox == Image(Addressee, answers)

LEMMA EntryFacts ==
  /\ Entry \in [Sendable -> S!Message] /\ Addressee \in [Answers -> Names]
  /\ \A m \in Sendable : Entry[m].id = m.id /\ (Entry[m].silent <=> m.kind = "skip")
<1>1. ASSUME NEW m \in Sendable
      PROVE  [id |-> m.id, silent |-> m.kind = "skip"] \in S!Message
  <2>1. m.id \in 1 .. MaxMessages
    BY DEF Sendable
  <2>2. (m.kind = "skip") \in BOOLEAN
    OBVIOUS
  <2>3. PICK b \in BOOLEAN : b = (m.kind = "skip")
    BY <2>2
  <2>4. [id |-> m.id, silent |-> b] \in S!Message
    BY <2>1 DEF S!Message
  <2> QED BY <2>3, <2>4
<1>2. Entry \in [Sendable -> S!Message]
  BY <1>1 DEF Entry
<1>3. Addressee \in [Answers -> Names]
  BY DEF Addressee, Answers, Names
<1>4. ASSUME NEW m \in Sendable
      PROVE  Entry[m].id = m.id /\ (Entry[m].silent <=> m.kind = "skip")
  <2>1. PICK b : b = (m.kind = "skip")
    OBVIOUS
  <2>2. Entry[m] = [id |-> m.id, silent |-> b]
    BY <2>1 DEF Entry
  <2>3. Entry[m].id = m.id /\ Entry[m].silent = b
    BY <2>2
  <2>4. Entry[m].silent = (m.kind = "skip")
    BY <2>1, <2>3
  <2> QED BY <2>3, <2>4, Zenon
<1> QED BY <1>2, <1>3, <1>4

LEMMA InboxOf ==
  ASSUME NEW q \in Seq(Sendable)
  PROVE  [i \in DOMAIN q |-> [id |-> q[i].id, silent |-> q[i].kind = "skip"]] = Image(Entry, q)
<1>1. \A i \in DOMAIN q : q[i] \in Sendable
  BY SeqFacts
<1>2. \A i \in DOMAIN q : Entry[q[i]] = [id |-> q[i].id, silent |-> q[i].kind = "skip"]
  BY <1>1 DEF Entry
<1> QED BY <1>2, Zenon DEF Image

LEMMA OutboxOf ==
  ASSUME NEW q \in Seq(Answers)
  PROVE  [i \in DOMAIN q |-> q[i].to] = Image(Addressee, q)
<1>1. \A i \in DOMAIN q : q[i] \in Answers
  BY SeqFacts
<1>2. \A i \in DOMAIN q : Addressee[q[i]] = q[i].to
  BY <1>1 DEF Addressee
<1> QED BY <1>2, Zenon DEF Image

(* The variables of Session that are read off a state. *)
TheInbox == [i \in DOMAIN pending |-> [id |-> pending[i].id, silent |-> pending[i].kind = "skip"]]
TheOutbox == [i \in DOMAIN answers |-> answers[i].to]
TheServer == IF Over THEN "down" ELSE IF Astray THEN "astray" ELSE "up"

LEMMA SessionActions ==
  /\ (TheInbox' = TheInbox /\ TheOutbox' = TheOutbox /\ TheServer' = TheServer) => UNCHANGED S!vars
  /\ (\E m \in S!Message : TheInbox' = Append(TheInbox, m)) /\ TheOutbox' = TheOutbox
       /\ TheServer' = TheServer => S!Send
  /\ TheServer = "up" /\ TheInbox # <<>> /\ TheInbox' = Tail(TheInbox)
       /\ (IF Head(TheInbox).silent THEN TheOutbox' = TheOutbox /\ TheServer' = TheServer
           ELSE /\ TheOutbox' = Append(TheOutbox, Head(TheInbox).id)
                /\ TheServer' = TheServer \/ (Tail(TheInbox) # <<>> /\ TheServer' = "astray"))
       => S!Serve
  /\ TheServer = "astray" /\ (\E x \in 0 .. MaxMessages : TheOutbox' = Append(TheOutbox, x))
       /\ TheInbox' = TheInbox /\ TheServer' = TheServer => S!Stray
  /\ TheOutbox # <<>> /\ TheInbox' = TheInbox /\ TheServer' = TheServer
       /\ (\E k \in 1 .. Len(TheOutbox) : TheOutbox' = SubSeq(TheOutbox, k + 1, Len(TheOutbox)))
       => S!Receive
  /\ TheServer # "down" /\ TheServer' = "down" /\ TheInbox' = TheInbox /\ TheOutbox' = TheOutbox
       => S!Break
<1>1. (TheInbox' = TheInbox /\ TheOutbox' = TheOutbox /\ TheServer' = TheServer) => UNCHANGED S!vars
  BY DEF TheInbox, TheOutbox, TheServer, S!vars
<1>2. (\E m \in S!Message : TheInbox' = Append(TheInbox, m)) /\ TheOutbox' = TheOutbox
        /\ TheServer' = TheServer => S!Send
  BY Zenon DEF TheInbox, TheOutbox, TheServer, S!Send
<1>3. TheServer = "up" /\ TheInbox # <<>> /\ TheInbox' = Tail(TheInbox)
       /\ (IF Head(TheInbox).silent THEN TheOutbox' = TheOutbox /\ TheServer' = TheServer
           ELSE /\ TheOutbox' = Append(TheOutbox, Head(TheInbox).id)
                /\ TheServer' = TheServer \/ (Tail(TheInbox) # <<>> /\ TheServer' = "astray"))
       => S!Serve
  BY Zenon DEF TheInbox, TheOutbox, TheServer, S!Serve
<1>4. TheServer = "astray" /\ (\E x \in 0 .. MaxMessages : TheOutbox' = Append(TheOutbox, x))
        /\ TheInbox' = TheInbox /\ TheServer' = TheServer => S!Stray
  <2>1. \A x \in 0 .. MaxMessages : x \in (1 .. MaxMessages) \cup {0}
    BY SessionAssumption
  <2> QED BY <2>1, Zenon DEF TheInbox, TheOutbox, TheServer, S!Stray
<1>5. TheOutbox # <<>> /\ TheInbox' = TheInbox /\ TheServer' = TheServer
        /\ (\E k \in 1 .. Len(TheOutbox) : TheOutbox' = SubSeq(TheOutbox, k + 1, Len(TheOutbox)))
        => S!Receive
  BY Zenon DEF TheInbox, TheOutbox, TheServer, S!Receive
<1>6. TheServer # "down" /\ TheServer' = "down" /\ TheInbox' = TheInbox /\ TheOutbox' = TheOutbox
        => S!Break
  BY DEF TheInbox, TheOutbox, TheServer, S!Break
<1> QED BY <1>1, <1>2, <1>3, <1>4, <1>5, <1>6

LEMMA SessionState ==
  ASSUME IInv
  PROVE  /\ TheInbox = Inbox /\ TheOutbox = Outbox
         /\ pending \in Seq(Sendable) /\ answers \in Seq(Answers)
BY TypeParts, InboxOf, OutboxOf DEF TheInbox, TheOutbox, Inbox, Outbox

LEMMA SessionStateAfter ==
  ASSUME IInv'
  PROVE  /\ TheInbox' = Inbox' /\ TheOutbox' = Outbox'
         /\ pending' \in Seq(Sendable) /\ answers' \in Seq(Answers)
<1>1. pending' \in Seq(Sendable) /\ answers' \in Seq(Answers)
  BY DEF IInv, Typed
<1> QED BY <1>1, InboxOf, OutboxOf DEF TheInbox, TheOutbox, Inbox, Outbox

(* Each step is one of a Session, or it stutters. *)
SessionStep == [S!Next]_(S!vars)

LEMMA SendSession ==
  ASSUME IInv, IInv', NEW shape \in Shapes, Send(shape)
  PROVE  SessionStep
<1>1. PICK m : m = [id |-> sent + 1, len |-> shape.len, kind |-> shape.kind]
  OBVIOUS
<1>2. pending' = Append(pending, m) /\ UNCHANGED <<answers, pc, data_stream>>
  BY <1>1 DEF Send
<1>3. pending \in Seq(Sendable) /\ pending' \in Seq(Sendable)
  BY DEF IInv, Typed
<1>4. m \in Sendable
  BY <1>1, SentMessage
<1>5. Image(Entry, pending') = Append(Image(Entry, pending), Entry[m]) /\ Entry[m] \in S!Message
  <2>1. Entry \in [Sendable -> S!Message]
    BY EntryFacts
  <2>2. Image(Entry, Append(pending, m)) = Append(Image(Entry, pending), Entry[m])
    BY <1>3, <1>4, <2>1, ImageAppend
  <2>3. Entry[m] \in S!Message
    BY <1>4, <2>1
  <2> QED BY <1>2, <2>2, <2>3
<1>6. TheInbox = Inbox /\ TheOutbox = Outbox /\ TheInbox' = Inbox' /\ TheOutbox' = Outbox'
  BY SessionState, SessionStateAfter
<1>7. TheServer' = TheServer /\ TheOutbox' = TheOutbox
  BY <1>2 DEF Over, Astray, Stained, TheServer, TheOutbox
<1>8. TheInbox' = Append(TheInbox, Entry[m])
  BY <1>5, <1>6 DEF Inbox
<1>9. S!Send
  BY <1>5, <1>7, <1>8, SessionActions
<1> QED BY <1>9 DEF SessionStep, S!Next

LEMMA ReceiveSession ==
  ASSUME IInv, IInv', Receive
  PROVE  SessionStep
<1>1. answers # <<>> /\ answers' = Tail(answers) /\ UNCHANGED <<pending, pc, data_stream>>
  BY DEF Receive, client_vars
<1>2. answers \in Seq(Answers) /\ Addressee \in [Answers -> Names]
  BY EntryFacts DEF IInv, Typed
<1>3. /\ Image(Addressee, answers) # <<>>
      /\ Image(Addressee, Tail(answers)) = Tail(Image(Addressee, answers))
  <2>1. answers # <<>> /\ answers \in Seq(Answers)
    BY <1>1, <1>2
  <2>2. Addressee \in [Answers -> Names]
    BY <1>2
  <2>3. /\ Image(Addressee, answers) # <<>> /\ Head(Image(Addressee, answers)) = Addressee[Head(answers)]
        /\ Image(Addressee, Tail(answers)) = Tail(Image(Addressee, answers))
    <3>1. \A q \in Seq(Answers) : q # <<>> =>
            /\ Image(Addressee, q) # <<>> /\ Head(Image(Addressee, q)) = Addressee[Head(q)]
            /\ Image(Addressee, Tail(q)) = Tail(Image(Addressee, q))
      BY <2>2, ImageTail
    <3> QED BY <2>1, <3>1
  <2> QED BY <2>3
<1>4. TheOutbox = Outbox /\ TheOutbox' = Outbox'
  BY SessionState, SessionStateAfter
<1>5. TheOutbox # <<>> /\ TheOutbox' = Tail(TheOutbox)
  BY <1>1, <1>3, <1>4 DEF Outbox
<1>6. TheServer' = TheServer /\ TheInbox' = TheInbox
  BY <1>1 DEF Over, Astray, Stained, TheInbox, TheServer
<1>6a. \E k \in 1 .. Len(TheOutbox) : TheOutbox' = SubSeq(TheOutbox, k + 1, Len(TheOutbox))
  <2>1. PICK q \in Seq(Names) : q = TheOutbox
    BY <1>2, <1>4, ImageFacts DEF Outbox
  <2>2. q # <<>> /\ 1 \in 1 .. Len(q) /\ 1 + 1 = 2
    BY <1>5, <2>1, EmptySeq, LenProperties
  <2>3. Tail(q) = SubSeq(q, 2, Len(q))
    BY <2>2, TailIsSubSeq
  <2> QED BY <1>5, <2>1, <2>2, <2>3
<1>7. S!Receive
  BY <1>5, <1>6, <1>6a, SessionActions
<1> QED BY <1>7 DEF SessionStep, S!Next

(* Nothing that a Session shows changes, or the server gives up. *)
LEMMA QuietSession ==
  ASSUME UNCHANGED <<pending, answers>>, TheServer' = TheServer \/ (~Over /\ Over')
  PROVE  SessionStep
<1>1. TheInbox' = TheInbox /\ TheOutbox' = TheOutbox
  BY DEF TheInbox, TheOutbox
<1>2. ~Over /\ Over' => TheServer # "down" /\ TheServer' = "down"
  BY DEF TheServer
<1>3. UNCHANGED S!vars \/ S!Break
  BY <1>1, <1>2, SessionActions, Zenon
<1> QED BY <1>3 DEF SessionStep, S!Next

(* A round of the outer loop serves nothing, and goes astray only where     *)
(* something was overwritten before.                                        *)
LEMMA FrameSession ==
  ASSUME IInv, pc = "top", UNCHANGED client_vars, NEW cells, Taken(cells), Frame(cells)
  PROVE  SessionStep
<1>1. data_stream \in Slices /\ data_stream.cells \in Seq(Cell) /\ cells \in Seq(Cell)
  BY TypeParts DEF Taken
<1>2. PICK c \in Seq(Cell) : c = data_stream.cells \o cells
  BY <1>1, ConcatFacts
<1>3. UNCHANGED <<pending, answers>> /\ ~Over
  BY DEF Frame, Break, client_vars, Over
<1>4. c # <<>> /\ c[1] = Junk <=> Stained
  <2>1. c # <<>> /\ c[1] = Junk => Stained
    BY <1>2, FirstOverwritten
  <2>2. ASSUME Stained PROVE c # <<>> /\ c[1] = Junk
    <3>1. data_stream.cells # <<>> /\ data_stream.cells[1] = Junk
      BY <2>2 DEF Stained
    <3>2. Len(data_stream.cells) \in Nat /\ Len(data_stream.cells) # 0 /\ Len(cells) \in Nat
      BY <1>1, <3>1, SeqFacts
    <3>3. Len(c) = Len(data_stream.cells) + Len(cells) /\ c[1] = data_stream.cells[1]
      BY <1>1, <1>2, <3>2, ConcatFacts
    <3>4. Len(c) # 0
      BY <3>2, <3>3
    <3> QED BY <3>1, <3>3, <3>4, SeqFacts
  <2> QED BY <2>1, <2>2
<1>5. CASE data_stream' = Grown(data_stream, cells, CapOf(data_stream, 0)) /\ pc' = pc
  <2>1. CapOf(data_stream, 0) \in Nat
    BY SessionAssumption DEF CapOf
  <2>2. data_stream'.cells = c
    BY <1>1, <1>2, <1>5, <2>1, GrownFacts
  <2>3. TheServer' = TheServer
    BY <1>3, <1>4, <1>5, <2>2 DEF TheServer, Over, Astray, Stained
  <2> QED BY <1>3, <2>3, QuietSession
<1>6. CASE pc' = "closed"
  BY <1>3, <1>6, QuietSession DEF Over
<1>7. CASE pc' = "astray" /\ c[1] = Junk /\ Len(c) >= HeaderLen
  <2>1. Stained
    <3>1. Len(c) \in Nat /\ Len(c) # 0
      BY <1>7, SeqFacts, SessionAssumption
    <3> QED BY <1>4, <1>7, <3>1, SeqFacts
  <2>2. TheServer' = TheServer
    BY <1>7, <2>1 DEF TheServer, Over, Astray
  <2> QED BY <1>3, <2>2, QuietSession
<1>8. CASE pc' = "body" /\ c[1] # Junk
  <2>1. TheServer' = TheServer
    BY <1>4, <1>8 DEF TheServer, Over, Astray
  <2> QED BY <1>3, <2>1, QuietSession
<1> QED
  <2>1. \/ data_stream' = Grown(data_stream, cells, CapOf(data_stream, 0)) /\ pc' = pc
        \/ pc' = "closed"
        \/ pc' = "astray" /\ c[1] = Junk /\ Len(c) >= HeaderLen
        \/ pc' = "body" /\ (IF c[1] = Junk THEN "alien" ELSE MessageOf(c[1]).kind) # "alien"
    BY <1>2, Zenon DEF Frame, Break
  <2> QED BY <1>5, <1>6, <1>7, <1>8, <2>1

(* A server astray sends anything. *)
LEMMA StraySession ==
  ASSUME IInv, IInv', StrayServe
  PROVE  SessionStep
<1>1. pc = "astray" /\ UNCHANGED <<pending, pc>> /\ TheServer = "astray" /\ TheServer' = TheServer
  BY DEF StrayServe, client_vars, TheServer, Over, Astray
<1>2. CASE answers' = answers
  BY <1>1, <1>2, QuietSession
<1>3. ASSUME NEW a \in Answers, answers' = Append(answers, a)
      PROVE  SessionStep
  <2>1. Addressee \in [Answers -> Names] /\ answers \in Seq(Answers)
    BY EntryFacts, SessionState
  <2>2. Image(Addressee, Append(answers, a)) = Append(Image(Addressee, answers), Addressee[a])
    BY <1>3, <2>1, ImageAppend
  <2>3. Addressee[a] \in 0 .. MaxMessages
    BY <1>3, <2>1 DEF Names
  <2>4. TheOutbox' = Append(TheOutbox, Addressee[a])
    BY <1>3, <2>2, SessionState, SessionStateAfter DEF Outbox
  <2>5. TheInbox' = TheInbox
    BY <1>1 DEF TheInbox
  <2>6. S!Stray
    BY <1>1, <2>3, <2>4, <2>5, SessionActions
  <2> QED BY <2>6 DEF SessionStep, S!Next
<1> QED BY <1>2, <1>3, StrayServeEffect

LEMMA AnswerSession ==
  ASSUME IInv, IInv', Answer
  PROVE  SessionStep
<1>1. pc = "serve" /\ ~Over /\ pending' = IF pc' = "crashed" THEN pending ELSE Tail(pending)
  BY DEF Answer, Over
<1>2. PICK m \in Sendable : m = Head(pending) /\ m = pending[1]
  BY <1>1, ServeFacts
<1>3. CASE pc' = "crashed" /\ UNCHANGED <<answers, data_stream>>
  BY <1>1, <1>3, QuietSession DEF Over
<1>4. CASE /\ pc' = "top"
           /\ m.kind = "skip" => answers' = answers /\ data_stream' = data_stream
           /\ m.kind # "skip" => \E a \in Answers : a.to = m.id /\ answers' = Append(answers, a)
  <2>1. pending # <<>> /\ pending' = Tail(pending)
    BY <1>1, <1>4, ServeFacts
  <2>2. Entry \in [Sendable -> S!Message] /\ Addressee \in [Answers -> Names]
    BY EntryFacts
  <2>3. pending \in Seq(Sendable) /\ answers \in Seq(Answers)
    BY SessionState
  <2>4. /\ Image(Entry, pending) # <<>> /\ Head(Image(Entry, pending)) = Entry[m]
        /\ Image(Entry, Tail(pending)) = Tail(Image(Entry, pending))
    <3>1. pending # <<>>
      BY <2>1
    <3>2. /\ Image(Entry, pending) # <<>> /\ Head(Image(Entry, pending)) = Entry[Head(pending)]
          /\ Image(Entry, Tail(pending)) = Tail(Image(Entry, pending))
      BY <2>2, <2>3, <3>1, ImageTail
    <3> QED BY <1>2, <3>2
  <2>5. TheInbox = Inbox /\ TheOutbox = Outbox /\ TheInbox' = Inbox' /\ TheOutbox' = Outbox'
    BY SessionState, SessionStateAfter
  <2>6. TheInbox # <<>> /\ TheInbox' = Tail(TheInbox) /\ Head(TheInbox) = Entry[m]
    BY <2>1, <2>4, <2>5 DEF Inbox
  <2>7. Entry[m].id = m.id /\ (Entry[m].silent <=> m.kind = "skip")
    BY EntryFacts
  <2>8. m.kind = "skip" => TheOutbox' = TheOutbox
    BY <1>4 DEF TheOutbox
  <2>9. m.kind # "skip" => TheOutbox' = Append(TheOutbox, m.id)
    <3> SUFFICES ASSUME m.kind # "skip" PROVE TheOutbox' = Append(TheOutbox, m.id)
      OBVIOUS
    <3>1. PICK a \in Answers : a.to = m.id /\ answers' = Append(answers, a)
      BY <1>4
    <3>2. Image(Addressee, Append(answers, a)) = Append(Image(Addressee, answers), Addressee[a])
      BY <2>2, <2>3, ImageAppend
    <3>3. Addressee[a] = m.id
      BY <3>1 DEF Addressee
    <3> QED BY <2>5, <3>1, <3>2, <3>3 DEF Outbox
  <2>10. TheServer = "up" /\ ~Stained
    BY <1>1 DEF IInv, Framed, TheServer, Over, Astray
  <2>11. TheServer' = IF Stained' THEN "astray" ELSE "up"
    BY <1>4 DEF TheServer, Over, Astray
  <2>12. m.kind = "skip" => TheServer' = TheServer
    BY <1>4, <2>10, <2>11 DEF Stained
  <2>13. Stained' => Tail(TheInbox) # <<>>
    <3> SUFFICES ASSUME Stained' PROVE Tail(TheInbox) # <<>>
      OBVIOUS
    <3>1. PICK s \in Seq(Cell) : Carries(s)'
      BY <1>4 DEF IInv, Underway, Over
    <3>2. data_stream'.cells # <<>> /\ data_stream'.cells \in Seq(Cell) /\ wire' \in Seq(Cell)
      BY SliceFacts DEF Stained, IInv, TypeOK, Typed
    <3>3. Shows(data_stream'.cells, wire', s) /\ InOrder(s, pending')
      BY <1>4, <3>1 DEF Carries, ToServe
    <3>4. /\ Len(s) = Len(data_stream'.cells) + Len(wire') /\ Len(wire') \in Nat
          /\ Len(data_stream'.cells) \in Nat /\ Len(data_stream'.cells) # 0
      BY <3>2, <3>3, ShowsFacts, SeqFacts
    <3>5. Len(s) # 0
      BY <3>4
    <3>6. pending' # <<>>
      BY <3>3, <3>5, SeqFacts DEF InOrder
    <3>7. Image(Entry, pending') # <<>>
      <4>1. \A q \in Seq(Sendable) : q # <<>> =>
              /\ Image(Entry, q) # <<>> /\ Head(Image(Entry, q)) = Entry[Head(q)]
              /\ Image(Entry, Tail(q)) = Tail(Image(Entry, q))
        <5>1. Entry \in [Sendable -> S!Message]
          BY <2>2
        <5> QED BY <5>1, ImageTail
      <4> QED BY <3>6, <4>1, SessionStateAfter
    <3> QED BY <2>5, <2>6, <3>7 DEF Inbox
  <2>14. Head(TheInbox).silent <=> m.kind = "skip"
    BY <2>6, <2>7, Zenon
  <2>15. IF Head(TheInbox).silent THEN TheOutbox' = TheOutbox /\ TheServer' = TheServer
         ELSE /\ TheOutbox' = Append(TheOutbox, Head(TheInbox).id)
              /\ TheServer' = TheServer \/ (Tail(TheInbox) # <<>> /\ TheServer' = "astray")
    BY <2>6, <2>7, <2>8, <2>9, <2>10, <2>11, <2>12, <2>13, <2>14, Zenon
  <2>16. S!Serve
    BY <2>6, <2>10, <2>15, SessionActions
  <2> QED BY <2>16 DEF SessionStep, S!Next
<1> QED BY <1>2, <1>3, <1>4, AnswerEffect

LEMMA NextSession ==
  ASSUME IInv, [Next]_vars
  PROVE  SessionStep
<1>1. IInv'
  BY NextIInv
<1>2. ASSUME NEW shape \in Shapes, Send(shape) PROVE SessionStep
  BY <1>1, <1>2, SendSession
<1>3. ASSUME Receive PROVE SessionStep
  BY <1>1, <1>3, ReceiveSession
<1>4. ASSUME Answer PROVE SessionStep
  BY <1>1, <1>4, AnswerSession
<1>5. ASSUME NEW how \in {"fin", "cut", "error"}, Finish(how) PROVE SessionStep
  <2>1. UNCHANGED <<pending, answers>> /\ TheServer' = TheServer
    BY <1>5 DEF Finish, TheServer, Over, Astray, Stained
  <2> QED BY <2>1, QuietSession
<1>6. ASSUME NEW n \in Reads, ReadHead(n) \/ ReadBody(n) \/ StrayRead(n) PROVE SessionStep
  <2>1. CASE ReadHead(n)
    BY <2>1, ReadTakes, FrameSession DEF ReadHead
  <2>2. CASE ReadBody(n) \/ StrayRead(n)
    <3>1. UNCHANGED <<pending, answers>> /\ TheServer' = TheServer
      BY <2>2 DEF ReadBody, StrayRead, client_vars, TheServer, Over, Astray
    <3> QED BY <3>1, QuietSession
  <2> QED BY <1>6, <2>1, <2>2
<1>7. ASSUME NextHead PROVE SessionStep
  BY <1>7, NothingTaken, FrameSession DEF NextHead
<1>8. ASSUME ReadEnds \/ TakeMessage \/ StrayLeaves PROVE SessionStep
  <2>1. CASE ReadEnds \/ StrayLeaves
    <3>1. UNCHANGED <<pending, answers>> /\ ~Over /\ Over'
      BY <2>1 DEF ReadEnds, StrayLeaves, Break, client_vars, Over
    <3> QED BY <3>1, QuietSession
  <2>2. CASE TakeMessage
    <3>1. UNCHANGED <<pending, answers>> /\ pc = "body" /\ pc' \in {"serve", "closed"}
      BY <2>2 DEF TakeMessage, Break, client_vars
    <3>2. TheServer' = TheServer \/ (~Over /\ Over')
      BY <3>1 DEF TheServer, Over, Astray
    <3> QED BY <3>1, <3>2, QuietSession
  <2> QED BY <1>8, <2>1, <2>2
<1>9. ASSUME StrayServe PROVE SessionStep
  BY <1>1, <1>9, StraySession
<1>10. ASSUME UNCHANGED vars PROVE SessionStep
  <2>1. UNCHANGED <<pending, answers>> /\ TheServer' = TheServer
    BY <1>10 DEF vars, client_vars, TheServer, Over, Astray, Stained
  <2> QED BY <2>1, QuietSession
<1> QED BY <1>2, <1>3, <1>4, <1>5, <1>6, <1>7, <1>8, <1>9, <1>10 DEF Next, ServerStep

(* serveSocket, sendBack and a client that may leave at any time keep what  *)
(* Session promises: messages are served once and in order, an answer goes  *)
(* to the message served, none to __skipsendback, and once the server has   *)
(* left its loop nothing is served; only an answer to a message with        *)
(* another behind it can end this.                                          *)
THEOREM ConnectionImplementsSession == Spec => ImplementsSession
<1>1. Init => S!Init
  <2> SUFFICES ASSUME Init PROVE S!Init
    OBVIOUS
  <2>1. pending = <<>> /\ answers = <<>> /\ ~Over /\ ~Astray
    BY EmptySlice DEF Init, Over, Astray, Stained
  <2>2. /\ [i \in DOMAIN pending |-> [id |-> pending[i].id, silent |-> pending[i].kind = "skip"]] = <<>>
        /\ [i \in DOMAIN answers |-> answers[i].to] = <<>>
    BY <2>1
  <2> QED BY <2>1, <2>2 DEF S!Init
<1>2. IInv /\ [Next]_vars => [S!Next]_(S!vars)
  BY NextSession DEF SessionStep
<1> QED BY <1>1, <1>2, SpecIInv, PTL DEF Spec, ImplementsSession, S!Spec
=============================================================================
