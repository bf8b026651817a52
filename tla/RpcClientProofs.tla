--------------------------- MODULE RpcClientProofs ---------------------------
(***************************************************************************)
(* Proofs about RpcClient, for every number of retries, calls and          *)
(* connections.                                                            *)
(***************************************************************************)
EXTENDS RpcClient, SequenceTheorems, TLAPS

-----------------------------------------------------------------------------
(* The inductive invariant. *)

In(c) == conns[c].inbox
Out(c) == conns[c].outbox

(* A client with a socket has the connection of the process, a call has a   *)
(* script, one that reads has the socket, and it is the newest call.        *)
Linked ==
  /\ sock => cur # 0
  /\ call.pc # "idle" => script /\ call.id = calls /\ calls # 0
  /\ call.pc = "read" => sock

(* A connection that was not opened yet is as new, and one that the client  *)
(* never used is empty.                                                     *)
Unopened ==
  \A c \in Conns : c > opened => /\ In(c) = <<>> /\ Out(c) = <<>> /\ conns[c].server = "up"
                                 /\ ~conns[c].used /\ ~conns[c].spoilt
Unused ==
  \A c \in Conns : ~conns[c].used => /\ In(c) = <<>> /\ Out(c) = <<>>
                                     /\ conns[c].server # "astray"

(* A message waits on one connection only, at one place, and was not        *)
(* served ...                                                               *)
WaitsOnce ==
  \A c, d \in Conns : \A i \in DOMAIN In(c), j \in DOMAIN In(d) :
    In(c)[i].id # ConnEx /\ In(c)[i].id = In(d)[j].id => c = d /\ i = j
WaitsUnserved ==
  \A c \in Conns : \A i \in DOMAIN In(c) :
    In(c)[i].id # ConnEx => In(c)[i].id <= calls /\ served[In(c)[i].id] = 0

(* ... and the message that an answer belongs to was, once.                 *)
AnswersOnce ==
  \A c \in Conns : \A i, j \in DOMAIN Out(c) :
    Out(c)[i].id \in Calls /\ Out(c)[i].id = Out(c)[j].id => i = j
AnswersServed ==
  \A c \in Conns : \A i \in DOMAIN Out(c) :
    Out(c)[i].id \in Calls => served[Out(c)[i].id] = 1

(* A call that was not made yet, or that still has to write its message,    *)
(* is nowhere.                                                              *)
Fresh ==
  \A k \in Calls :
    k > calls \/ (call.pc = "write" /\ k = call.id) =>
      served[k] = 0 /\ \A c \in Conns : \A i \in DOMAIN In(c) : In(c)[i].id # k

(* While a call reads, its message or its answer is the newest on its       *)
(* connection, unless the connection is spoilt.                             *)
OwnIsLast ==
  call.pc = "read" /\ ~conns[cur].spoilt =>
    \/ /\ In(cur) # <<>>
       /\ In(cur)[Len(In(cur))] = [id |-> call.id, silent |-> FALSE]
    \/ /\ In(cur) = <<>> /\ Out(cur) # <<>>
       /\ Out(cur)[Len(Out(cur))].id = call.id

(* The rest of an answer is only on a spoilt connection, and so is a server *)
(* that is astray.                                                          *)
TailsSpoilt ==
  \A c \in Conns : /\ \A i \in DOMAIN Out(c) : Out(c)[i].left # "all" => conns[c].spoilt
                   /\ conns[c].server = "astray" => conns[c].spoilt

Clean == script /\ safe => sock

Messaging == Unopened /\ WaitsOnce /\ WaitsUnserved /\ AnswersOnce /\ AnswersServed /\ Fresh
IInv == TypeOK /\ Linked /\ Clean /\ Unused /\ Messaging /\ OwnIsLast /\ TailsSpoilt
        /\ SafeMeansClean /\ OwnOnceOrNothing

-----------------------------------------------------------------------------
(* Sequences, and the types of the connections. *)

Servers == {"up", "astray", "down"}
ConnRecord(I, O) == [inbox : I, outbox : O, server : Servers, used : BOOLEAN, spoilt : BOOLEAN]
ConnType == ConnRecord(Seq(Messages), Seq(Answers))

LEMMA LenEmpty ==
  ASSUME NEW E, NEW q \in Seq(E)
  PROVE  q = <<>> <=> Len(q) = 0
BY EmptySeq

LEMMA SeqFacts ==
  ASSUME NEW E, NEW q \in Seq(E)
  PROVE  /\ Len(q) \in Nat /\ DOMAIN q = 1 .. Len(q)
         /\ \A i \in DOMAIN q : q[i] \in E
         /\ q # <<>> => Len(q) \in DOMAIN q
<1>1. Len(q) \in Nat /\ DOMAIN q = 1 .. Len(q) /\ (q # <<>> => Len(q) # 0)
  BY LenProperties, EmptySeq
<1> QED BY <1>1, ElementOfSeq

LEMMA TailFacts ==
  ASSUME NEW E, NEW q \in Seq(E), q # <<>>
  PROVE  /\ 1 \in DOMAIN q /\ Head(q) = q[1] /\ Head(q) \in E /\ Tail(q) \in Seq(E)
         /\ Len(Tail(q)) = Len(q) - 1 /\ DOMAIN Tail(q) = 1 .. Len(q) - 1
         /\ \A i \in DOMAIN Tail(q) : i + 1 \in DOMAIN q /\ Tail(q)[i] = q[i + 1]
         /\ Len(q) = 1 => Tail(q) = <<>>
         /\ Len(q) # 1 => Tail(q) # <<>> /\ Tail(q)[Len(Tail(q))] = q[Len(q)]
<1>1. Len(q) \in Nat \ {0} /\ DOMAIN q = 1 .. Len(q)
  BY EmptySeq, LenProperties
<1>2. Tail(q) \in Seq(E) /\ Len(Tail(q)) = Len(q) - 1 /\ Head(q) \in E
  BY HeadTailProperties
<1>3. DOMAIN Tail(q) = 1 .. Len(Tail(q))
  BY <1>2, LenProperties
<1>4. \A i \in 1 .. Len(Tail(q)) : Tail(q)[i] = q[i + 1]
  BY HeadTailProperties
<1>5. Len(q) = 1 => Tail(q) = <<>>
  <2>1. PICK u \in Seq(E) : u = Tail(q)
    BY <1>2
  <2> QED BY <1>2, <2>1, LenEmpty
<1>6. Len(q) # 1 => Tail(q) # <<>> /\ Tail(q)[Len(Tail(q))] = q[Len(q)]
  <2> SUFFICES ASSUME Len(q) # 1 PROVE Tail(q) # <<>> /\ Tail(q)[Len(Tail(q))] = q[Len(q)]
    OBVIOUS
  <2>1. Len(Tail(q)) \in 1 .. Len(Tail(q)) /\ Len(Tail(q)) + 1 = Len(q)
    BY <1>1, <1>2
  <2>2. Tail(q) # <<>>
    <3>1. PICK u \in Seq(E) : u = Tail(q)
      BY <1>2
    <3>2. Len(u) \in Nat /\ Len(u) # 0
      BY <1>1, <1>2, <2>1, <3>1
    <3> QED BY <3>1, <3>2, LenEmpty
  <2> QED BY <1>4, <2>1, <2>2
<1> QED BY <1>1, <1>2, <1>3, <1>4, <1>5, <1>6

LEMMA AppendFacts ==
  ASSUME NEW E, NEW q \in Seq(E), NEW e \in E
  PROVE  /\ Append(q, e) \in Seq(E) /\ Append(q, e) # <<>> /\ Len(Append(q, e)) = Len(q) + 1
         /\ DOMAIN Append(q, e) = DOMAIN q \cup {Len(q) + 1}
         /\ \A i \in DOMAIN q : i # Len(q) + 1 /\ Append(q, e)[i] = q[i]
         /\ Append(q, e)[Len(q) + 1] = e
<1>1. Len(q) \in Nat /\ DOMAIN q = 1 .. Len(q)
  BY LenProperties
<1>2. Append(q, e) \in Seq(E) /\ Append(q, e) # <<>> /\ Len(Append(q, e)) = Len(q) + 1
  BY AppendProperties
<1>3. DOMAIN Append(q, e) = 1 .. Len(Append(q, e))
  BY <1>2, LenProperties
<1>4. 1 .. Len(q) + 1 = (1 .. Len(q)) \cup {Len(q) + 1}
  BY <1>1
<1>5. \A i \in 1 .. Len(q) : i # Len(q) + 1 /\ Append(q, e)[i] = q[i]
  BY <1>1, AppendProperties
<1>6. Append(q, e)[Len(q) + 1] = e
  BY AppendProperties
<1> QED BY <1>1, <1>2, <1>3, <1>4, <1>5, <1>6

LEMMA ConnFacts ==
  ASSUME TypeOK, NEW c \in Conns
  PROVE  /\ conns \in [Conns -> ConnType] /\ conns[c] \in ConnType
         /\ In(c) \in Seq(Messages) /\ Out(c) \in Seq(Answers)
         /\ Len(In(c)) \in Nat /\ DOMAIN In(c) = 1 .. Len(In(c))
         /\ \A i \in DOMAIN In(c) : In(c)[i] \in Messages
         /\ Len(Out(c)) \in Nat /\ DOMAIN Out(c) = 1 .. Len(Out(c))
         /\ \A i \in DOMAIN Out(c) : Out(c)[i] \in Answers
         /\ conns[c].server \in Servers /\ conns[c].used \in BOOLEAN /\ conns[c].spoilt \in BOOLEAN
<1>1. conns \in [Conns -> ConnType]
  BY DEF TypeOK, ConnType, ConnRecord, Servers
<1>2. conns[c] \in ConnType
  BY <1>1
<1>3. /\ In(c) \in Seq(Messages) /\ Out(c) \in Seq(Answers)
      /\ conns[c].server \in Servers /\ conns[c].used \in BOOLEAN /\ conns[c].spoilt \in BOOLEAN
  BY <1>2 DEF ConnType, ConnRecord, In, Out
<1>4. /\ Len(In(c)) \in Nat /\ DOMAIN In(c) = 1 .. Len(In(c))
      /\ \A i \in DOMAIN In(c) : In(c)[i] \in Messages
  BY <1>3, SeqFacts
<1>5. /\ Len(Out(c)) \in Nat /\ DOMAIN Out(c) = 1 .. Len(Out(c))
      /\ \A i \in DOMAIN Out(c) : Out(c)[i] \in Answers
  BY <1>3, SeqFacts
<1> QED BY <1>1, <1>2, <1>3, <1>4, <1>5

-----------------------------------------------------------------------------
(* What the actions do to the connections. *)

(* The connections g are the connections f but for what connection c has;  *)
(* one that was used stays so.                                              *)
Puts(f, g, c, i, o, u, t) ==
  /\ f[c].used => g[c].used
  /\ g[c].inbox = i /\ g[c].outbox = o /\ g[c].server = u /\ g[c].spoilt = t
  /\ \A d \in Conns : d # c => g[d] = f[d]

PutsInbox(f, g, c, x, b) == g = [f EXCEPT ![c].inbox = x, ![c].used = b]
PutsUsed(f, g, c, b) == g = [f EXCEPT ![c].used = b]
PutsOutbox(f, g, c, x) == g = [f EXCEPT ![c].outbox = x]
PutsServer(f, g, c, x) == g = [f EXCEPT ![c].server = x]
PutsServed(f, g, c, x, y, u, t) ==
  g = [f EXCEPT ![c].inbox = x, ![c].outbox = y, ![c].server = u, ![c].spoilt = t]
PutsSpoilt(f, g, c, x, y) == g = [f EXCEPT ![c].outbox = x, ![c].spoilt = y]

LEMMA PutInbox ==
  ASSUME NEW I, NEW O, NEW f \in [Conns -> ConnRecord(I, O)], NEW g, NEW c \in Conns,
         NEW x \in I, NEW b \in BOOLEAN, PutsInbox(f, g, c, x, b), f[c].used => b
  PROVE  /\ g \in [Conns -> ConnRecord(I, O)] /\ g[c].used = b
         /\ Puts(f, g, c, x, f[c].outbox, f[c].server, f[c].spoilt)
BY DEF ConnRecord, Puts, PutsInbox

LEMMA PutUsed ==
  ASSUME NEW I, NEW O, NEW f \in [Conns -> ConnRecord(I, O)], NEW g, NEW c \in Conns,
         NEW b \in BOOLEAN, PutsUsed(f, g, c, b), f[c].used => b
  PROVE  /\ g \in [Conns -> ConnRecord(I, O)]
         /\ Puts(f, g, c, f[c].inbox, f[c].outbox, f[c].server, f[c].spoilt)
BY DEF ConnRecord, Puts, PutsUsed

LEMMA PutOutbox ==
  ASSUME NEW I, NEW O, NEW f \in [Conns -> ConnRecord(I, O)], NEW g, NEW c \in Conns,
         NEW x \in O, PutsOutbox(f, g, c, x)
  PROVE  /\ g \in [Conns -> ConnRecord(I, O)]
         /\ Puts(f, g, c, f[c].inbox, x, f[c].server, f[c].spoilt)
BY DEF ConnRecord, Puts, PutsOutbox

LEMMA PutServer ==
  ASSUME NEW I, NEW O, NEW f \in [Conns -> ConnRecord(I, O)], NEW g, NEW c \in Conns,
         NEW x \in Servers, PutsServer(f, g, c, x)
  PROVE  /\ g \in [Conns -> ConnRecord(I, O)]
         /\ Puts(f, g, c, f[c].inbox, f[c].outbox, x, f[c].spoilt)
BY DEF ConnRecord, Puts, PutsServer

LEMMA PutServed ==
  ASSUME NEW I, NEW O, NEW f \in [Conns -> ConnRecord(I, O)], NEW g, NEW c \in Conns,
         NEW x \in I, NEW y \in O, NEW u \in Servers, NEW t \in BOOLEAN,
         PutsServed(f, g, c, x, y, u, t)
  PROVE  /\ g \in [Conns -> ConnRecord(I, O)]
         /\ Puts(f, g, c, x, y, u, t)
BY DEF ConnRecord, Puts, PutsServed

LEMMA PutSpoilt ==
  ASSUME NEW I, NEW O, NEW f \in [Conns -> ConnRecord(I, O)], NEW g, NEW c \in Conns,
         NEW x \in O, NEW y \in BOOLEAN, PutsSpoilt(f, g, c, x, y)
  PROVE  /\ g \in [Conns -> ConnRecord(I, O)]
         /\ Puts(f, g, c, f[c].inbox, x, f[c].server, y)
BY DEF ConnRecord, Puts, PutsSpoilt

(* Connection c gets these components, the others stay. *)
Becomes(c, i, o, u, t) ==
  conns' \in [Conns -> ConnType] /\ Puts(conns, conns', c, i, o, u, t)

(* A server that goes astray spoils the connection. *)
Strays(c, m, u, t) ==
  \/ u = conns[c].server /\ t = conns[c].spoilt
  \/ u = "astray" /\ t = TRUE /\ ~m.silent /\ Tail(In(c)) # <<>>

Served(c) ==
  LET m == Head(In(c)) IN
  \E u \in Servers, t \in BOOLEAN :
    /\ Strays(c, m, u, t)
    /\ Becomes(c, Tail(In(c)),
               IF m.silent THEN Out(c) ELSE Append(Out(c), [id |-> m.id, left |-> "all"]), u, t)
Sent(c, m) == Becomes(c, Append(In(c), m), Out(c), conns[c].server, conns[c].spoilt)
Broken(c) == Becomes(c, In(c), Out(c), "down", conns[c].spoilt)

(* The answers o are what is left of the answers q, by their ids. *)
EndOf(o, q) ==
  \E z \in 0 .. Len(q) : /\ Len(o) = Len(q) - z
                         /\ \A i \in 1 .. Len(o) : o[i].id = q[i + z].id
ReadUpTo(c, o, t) ==
  /\ Becomes(c, In(c), o, conns[c].server, t)
  /\ o \in Seq(Answers) /\ EndOf(o, Out(c))
  /\ conns[c].spoilt => t

LEMMA LeftAll == \A k \in 0 .. MaxCalls : [id |-> k, left |-> "all"] \in Answers
<1>1. \A k \in 0 .. MaxCalls : k \in -1 .. MaxCalls
  BY RpcAssumption
<1>2. "all" \in DOMAIN Cuts
  BY DEF Cuts
<1> QED BY <1>1, <1>2 DEF Answers

LEMMA ServeEffect ==
  ASSUME TypeOK, NEW c \in Conns, Serve(c)
  PROVE  /\ Served(c) /\ In(c) # <<>>
         /\ Head(In(c)) = In(c)[1] /\ 1 \in DOMAIN In(c) /\ Head(In(c)) \in Messages
<1>1. In(c) # <<>>
  BY DEF Serve, In
<1>2. Tail(In(c)) \in Seq(Messages) /\ Head(In(c)) = In(c)[1] /\ 1 \in DOMAIN In(c)
      /\ Head(In(c)) \in Messages
  BY <1>1, ConnFacts, TailFacts
<1>3. PICK m \in Messages : m = Head(In(c))
  BY <1>2
<1>4. PICK o \in Seq(Answers) :
         o = IF m.silent THEN Out(c) ELSE Append(Out(c), [id |-> m.id, left |-> "all"])
  <2>1. [id |-> m.id, left |-> "all"] \in Answers
    BY LeftAll DEF Messages
  <2> QED BY <2>1, ConnFacts, AppendFacts
<1>5. PICK astray \in BOOLEAN :
        /\ astray => ~m.silent /\ Tail(In(c)) # <<>>
        /\ conns' = [conns EXCEPT ![c].inbox = Tail(@),
                                  ![c].outbox = IF m.silent THEN @
                                                ELSE Append(@, [id |-> m.id, left |-> "all"]),
                                  ![c].server = IF astray THEN "astray" ELSE @,
                                  ![c].spoilt = @ \/ astray]
  BY <1>3 DEF Serve, In
<1>6. PICK u \in Servers, t \in BOOLEAN :
        /\ u = IF astray THEN "astray" ELSE conns[c].server
        /\ t = (conns[c].spoilt \/ astray)
  BY ConnFacts DEF Servers
<1>7. PICK i \in Seq(Messages) : i = Tail(In(c))
  BY <1>2
<1>7a. PutsServed(conns, conns', c, i, o, u, t)
  BY <1>3, <1>4, <1>5, <1>6, <1>7, ConnFacts DEF In, Out, PutsServed
<1>7b. conns \in [Conns -> ConnRecord(Seq(Messages), Seq(Answers))]
  BY ConnFacts DEF ConnType
<1>7c. /\ conns' \in [Conns -> ConnRecord(Seq(Messages), Seq(Answers))]
       /\ Puts(conns, conns', c, i, o, u, t)
  BY <1>7a, <1>7b DEF PutsServed, Puts, ConnRecord
<1>8. Becomes(c, Tail(In(c)), o, u, t)
  BY <1>7, <1>7c DEF Becomes, ConnType
<1>9. Strays(c, m, u, t)
  BY <1>5, <1>6, ConnFacts DEF Strays
<1> QED BY <1>1, <1>2, <1>3, <1>4, <1>8, <1>9 DEF Served

LEMMA SendEffect ==
  ASSUME TypeOK, NEW c \in Conns, NEW m \in Messages,
         NEW b \in BOOLEAN,
         PutsInbox(conns, conns', c, Append(In(c), m), b), conns[c].used => b
  PROVE  Sent(c, m) /\ conns'[c].used = b
<1>1. PICK x \in Seq(Messages) : x = Append(In(c), m)
  BY ConnFacts, AppendFacts
<1>2. PutsInbox(conns, conns', c, x, b)
  BY <1>1
<1>3. conns \in [Conns -> ConnRecord(Seq(Messages), Seq(Answers))]
  BY ConnFacts DEF ConnType
<1>4. conns[c].used => b
  OBVIOUS
<1>5. /\ conns' \in [Conns -> ConnRecord(Seq(Messages), Seq(Answers))] /\ conns'[c].used = b
      /\ Puts(conns, conns', c, x, conns[c].outbox, conns[c].server, conns[c].spoilt)
  BY <1>2, <1>3, <1>4, PutInbox
<1> QED BY <1>1, <1>5 DEF Sent, Becomes, ConnType, Out

LEMMA BreakEffect ==
  ASSUME TypeOK, NEW c \in Conns, Break(c)
  PROVE  Broken(c)
<1>1. PutsServer(conns, conns', c, "down")
  BY DEF PutsServer, Break
<1>2. "down" \in Servers
  BY DEF Servers
<1> QED BY <1>1, <1>2, ConnFacts, PutServer DEF Broken, Becomes, ConnType, In, Out

(* What is read from the front, up to the middle of an answer. *)
LEMMA SubSeqFacts ==
  ASSUME NEW E, NEW q \in Seq(E), NEW k \in 1 .. Len(q) + 1
  PROVE  /\ SubSeq(q, k, Len(q)) \in Seq(E)
         /\ Len(SubSeq(q, k, Len(q))) = Len(q) - k + 1
         /\ \A i \in 1 .. Len(q) - k + 1 : i + (k - 1) \in 1 .. Len(q)
                                          /\ SubSeq(q, k, Len(q))[i] = q[i + (k - 1)]
<1>1. Len(q) \in Nat /\ DOMAIN q = 1 .. Len(q) /\ \A i \in DOMAIN q : q[i] \in E
  BY SeqFacts
<1>2. k \in Int /\ Len(q) \in Int /\ \A i \in k .. Len(q) : q[i] \in E
  BY <1>1
<1>3. /\ SubSeq(q, k, Len(q)) \in Seq(E)
      /\ Len(SubSeq(q, k, Len(q))) = IF k <= Len(q) THEN Len(q) - k + 1 ELSE 0
      /\ \A i \in 1 .. Len(q) - k + 1 : SubSeq(q, k, Len(q))[i] = q[k + i - 1]
  BY <1>2, SubSeqProperties
<1>4. \A i \in 1 .. Len(q) - k + 1 : k + i - 1 = i + (k - 1) /\ i + (k - 1) \in 1 .. Len(q)
  BY <1>1
<1> QED BY <1>1, <1>3, <1>4

LEMMA RemainsFacts ==
  ASSUME NEW q \in Seq(Answers), NEW o \in Remains(q)
  PROVE  o \in Seq(Answers) /\ EndOf(o, q)
<1>0. Len(q) \in Nat /\ DOMAIN q = 1 .. Len(q) /\ \A i \in DOMAIN q : q[i] \in Answers
  BY SeqFacts
<1>1. CASE o = <<>>
  <2>1. o \in Seq(Answers) /\ Len(o) = 0
    BY <1>1, EmptySeq
  <2>2. Len(q) \in 0 .. Len(q) /\ Len(o) = Len(q) - Len(q) /\ 1 .. Len(o) = {}
    BY <1>0, <2>1
  <2> QED BY <2>1, <2>2 DEF EndOf
<1>2. ASSUME NEW k \in 1 .. Len(q), NEW l \in Cuts[q[k].left],
             o = [SubSeq(q, k, Len(q)) EXCEPT ![1].left = l]
      PROVE  o \in Seq(Answers) /\ EndOf(o, q)
  <2>1. k \in 1 .. Len(q) + 1 /\ Len(q) - k + 1 \in Nat /\ 1 \in 1 .. Len(q) - k + 1
    BY <1>0
  <2>2. PICK r \in Seq(Answers) : r = SubSeq(q, k, Len(q))
    BY <2>1, SubSeqFacts
  <2>3. /\ Len(r) = Len(q) - k + 1
        /\ \A i \in 1 .. Len(r) : i + (k - 1) \in 1 .. Len(q) /\ r[i] = q[i + (k - 1)]
    BY <2>1, <2>2, SubSeqFacts
  <2>4. 1 \in 1 .. Len(r) /\ DOMAIN r = 1 .. Len(r) /\ r[1] \in Answers
    BY <2>1, <2>2, <2>3, SeqFacts
  <2>5. l \in DOMAIN Cuts
    <3>1. q[k].left \in DOMAIN Cuts
      BY <1>0 DEF Answers
    <3> QED BY <3>1 DEF Cuts
  <2>6. PICK a \in Answers : a = [id |-> r[1].id, left |-> l]
    BY <2>4, <2>5 DEF Answers
  <2>7. o = [r EXCEPT ![1] = a]
    <3>1. [r[1] EXCEPT !.left = l] = a
      BY <2>4, <2>6 DEF Answers
    <3>2. o = [r EXCEPT ![1] = [r[1] EXCEPT !.left = l]]
      BY <1>2, <2>2, <2>4
    <3> QED BY <3>1, <3>2
  <2>8. /\ o \in Seq(Answers) /\ Len(o) = Len(r)
        /\ \A j \in 1 .. Len(r) : o[j] = IF j = 1 THEN a ELSE r[j]
    BY <2>4, <2>6, <2>7, ExceptSeq
  <2>9. \A i \in 1 .. Len(o) : o[i].id = q[i + (k - 1)].id
    BY <2>3, <2>6, <2>8
  <2>10. k - 1 \in 0 .. Len(q) /\ Len(o) = Len(q) - (k - 1)
    BY <1>0, <2>3, <2>8
  <2> QED BY <2>8, <2>9, <2>10 DEF EndOf
<1> QED BY <1>1, <1>2 DEF Remains

LEMMA TailEnds ==
  ASSUME NEW q \in Seq(Answers), q # <<>>
  PROVE  Tail(q) \in Seq(Answers) /\ EndOf(Tail(q), q)
<1>1. Len(q) \in Nat /\ Len(q) # 0
  BY SeqFacts, LenEmpty
<1>2. /\ Tail(q) \in Seq(Answers) /\ Len(Tail(q)) = Len(q) - 1
      /\ \A i \in 1 .. Len(q) - 1 : Tail(q)[i] = q[i + 1]
  BY TailFacts
<1>3. 1 \in 0 .. Len(q)
  BY <1>1
<1> QED BY <1>2, <1>3 DEF EndOf

LEMMA ReadEffect ==
  ASSUME TypeOK, NEW c \in Conns, NEW o \in Seq(Answers), EndOf(o, Out(c)),
         NEW t \in BOOLEAN, conns[c].spoilt => t,
         \/ PutsOutbox(conns, conns', c, o) /\ t = conns[c].spoilt
         \/ PutsSpoilt(conns, conns', c, o, t)
  PROVE  ReadUpTo(c, o, t)
<1>1. conns \in [Conns -> ConnRecord(Seq(Messages), Seq(Answers))]
  BY ConnFacts DEF ConnType
<1>2. /\ conns' \in [Conns -> ConnRecord(Seq(Messages), Seq(Answers))]
      /\ Puts(conns, conns', c, conns[c].inbox, o, conns[c].server, t)
  BY <1>1, PutOutbox, PutSpoilt
<1> QED BY <1>2 DEF ReadUpTo, Becomes, ConnType, In

-----------------------------------------------------------------------------
(* What is on the connections: each message once. *)

LEMMA BecomesFacts ==
  ASSUME NEW c \in Conns, NEW i, NEW o, NEW u, NEW t, Becomes(c, i, o, u, t)
  PROVE  /\ conns' \in [Conns -> ConnType]
         /\ In(c)' = i /\ Out(c)' = o /\ conns'[c].server = u /\ conns'[c].spoilt = t
         /\ conns[c].used => conns'[c].used
         /\ \A d \in Conns : d # c => In(d)' = In(d) /\ Out(d)' = Out(d) /\ conns'[d] = conns[d]
BY DEF Becomes, Puts, In, Out

(* What is left on connection c once m is served. *)
ServedBoxes(c, m) ==
  /\ conns' \in [Conns -> ConnType]
  /\ m = In(c)[1] /\ 1 \in DOMAIN In(c) /\ In(c) # <<>>
  /\ In(c)' = Tail(In(c))
  /\ Out(c)' = IF m.silent THEN Out(c) ELSE Append(Out(c), [id |-> m.id, left |-> "all"])
  /\ (conns[c].used => conns'[c].used)
  /\ Strays(c, m, conns'[c].server, conns'[c].spoilt)
  /\ \A d \in Conns : d # c => In(d)' = In(d) /\ Out(d)' = Out(d) /\ conns'[d] = conns[d]
  /\ \A i \in DOMAIN In(c)' : /\ i \in Nat \ {0} /\ i + 1 \in DOMAIN In(c)
                              /\ In(c)'[i] = In(c)[i + 1]

(* An answer there was there before, or is the one just given. *)
Answered(c, m) ==
  \A d \in Conns : \A i \in DOMAIN Out(d)' :
    \/ i \in DOMAIN Out(d) /\ Out(d)'[i] = Out(d)[i]
    \/ /\ d = c /\ i \notin DOMAIN Out(d) /\ i = Len(Out(c)) + 1
       /\ ~m.silent /\ Out(d)'[i] = [id |-> m.id, left |-> "all"]

LEMMA ServeFacts ==
  ASSUME TypeOK, NEW c \in Conns, Serve(c)
  PROVE  \E m \in Messages :
           /\ m = Head(In(c)) /\ ServedBoxes(c, m) /\ Answered(c, m)
           /\ ~m.silent => /\ Out(c)' # <<>>
                           /\ Out(c)'[Len(Out(c)')] = [id |-> m.id, left |-> "all"]
<1>1. Served(c) /\ In(c) # <<>>
  BY ServeEffect
<1>2. PICK m \in Messages : m = Head(In(c)) /\ m = In(c)[1] /\ 1 \in DOMAIN In(c)
  BY ServeEffect
<1>4. /\ In(c)' = Tail(In(c)) /\ conns' \in [Conns -> ConnType]
      /\ Out(c)' = IF m.silent THEN Out(c) ELSE Append(Out(c), [id |-> m.id, left |-> "all"])
      /\ Strays(c, m, conns'[c].server, conns'[c].spoilt) /\ (conns[c].used => conns'[c].used)
      /\ \A d \in Conns : d # c => In(d)' = In(d) /\ Out(d)' = Out(d) /\ conns'[d] = conns[d]
  <2>1. PICK q : q = Tail(In(c))
    OBVIOUS
  <2>2. PICK o : o = IF m.silent THEN Out(c) ELSE Append(Out(c), [id |-> m.id, left |-> "all"])
    OBVIOUS
  <2>3. PICK u \in Servers, t \in BOOLEAN : Becomes(c, q, o, u, t) /\ Strays(c, m, u, t)
    BY <1>1, <1>2, <2>1, <2>2 DEF Served
  <2>4. /\ In(c)' = q /\ Out(c)' = o /\ conns' \in [Conns -> ConnType]
        /\ conns'[c].server = u /\ conns'[c].spoilt = t /\ (conns[c].used => conns'[c].used)
        /\ \A d \in Conns : d # c => In(d)' = In(d) /\ Out(d)' = Out(d) /\ conns'[d] = conns[d]
    BY <2>3, BecomesFacts
  <2> QED BY <2>1, <2>2, <2>3, <2>4
<1>5. \A i \in DOMAIN In(c)' : /\ i \in Nat \ {0} /\ i + 1 \in DOMAIN In(c)
                               /\ In(c)'[i] = In(c)[i + 1]
  <2>1. PICK q \in Seq(Messages) : q = In(c)
    BY ConnFacts
  <2>2. /\ DOMAIN Tail(q) = 1 .. Len(q) - 1
        /\ \A i \in DOMAIN Tail(q) : i + 1 \in DOMAIN q /\ Tail(q)[i] = q[i + 1]
    BY <1>1, <2>1, TailFacts
  <2> QED BY <1>4, <2>1, <2>2
<1>6. PICK q \in Seq(Answers), a \in Answers : q = Out(c) /\ a = [id |-> m.id, left |-> "all"]
  <2>1. [id |-> m.id, left |-> "all"] \in Answers
    BY LeftAll DEF Messages
  <2> QED BY <2>1, ConnFacts
<1>7. /\ DOMAIN Append(q, a) = DOMAIN q \cup {Len(q) + 1}
      /\ Append(q, a) # <<>> /\ Len(Append(q, a)) = Len(q) + 1
      /\ \A j \in DOMAIN q : j # Len(q) + 1 /\ Append(q, a)[j] = q[j]
      /\ Append(q, a)[Len(q) + 1] = a
  BY AppendFacts
<1>8. ~m.silent => Out(c)' = Append(q, a)
  BY <1>4, <1>6
<1>9. Answered(c, m)
  <2> SUFFICES ASSUME NEW d \in Conns, NEW i \in DOMAIN Out(d)'
               PROVE  \/ i \in DOMAIN Out(d) /\ Out(d)'[i] = Out(d)[i]
                      \/ /\ d = c /\ i \notin DOMAIN Out(d) /\ i = Len(Out(c)) + 1
                         /\ ~m.silent /\ Out(d)'[i] = [id |-> m.id, left |-> "all"]
    BY DEF Answered
  <2>1. CASE d # c \/ m.silent
    BY <1>4, <2>1
  <2>2. CASE d = c /\ ~m.silent
    <3>1. Out(d)' = Append(q, a) /\ q = Out(d)
      BY <1>6, <1>8, <2>2
    <3> QED BY <2>2, <1>6, <1>7, <3>1
  <2> QED BY <2>1, <2>2
<1>10. ~m.silent => /\ Out(c)' # <<>>
                    /\ Out(c)'[Len(Out(c)')] = [id |-> m.id, left |-> "all"]
  BY <1>6, <1>7, <1>8
<1>11. ServedBoxes(c, m)
  BY <1>1, <1>2, <1>4, <1>5 DEF ServedBoxes
<1> QED BY <1>2, <1>9, <1>10, <1>11

LEMMA MessagingServe ==
  ASSUME TypeOK, Messaging, AtMostOnce, NEW c \in Conns, Serve(c)
  PROVE  Messaging' /\ AtMostOnce'
<1> USE DEF Messaging
<1>2. PICK m \in Messages : m = Head(In(c)) /\ ServedBoxes(c, m) /\ Answered(c, m)
  BY ServeFacts
<1>1. UNCHANGED <<opened, calls, call, result>> /\ m = In(c)[1] /\ 1 \in DOMAIN In(c) /\ In(c) # <<>>
  BY <1>2 DEF Serve, ServedBoxes
<1>3. /\ served' = [i \in Calls |-> served[i] + IF i = m.id THEN 1 ELSE 0]
      /\ m.id \in 0 .. MaxCalls
      /\ m.id # ConnEx => m.id \in Calls
      /\ MaxCalls \in Nat
  BY <1>2, RpcAssumption DEF Serve, In, Messages, Calls, ConnEx
<1>3a. /\ \A k \in Calls : k # m.id => served'[k] = served[k]
       /\ m.id # ConnEx => served'[m.id] = served[m.id] + 1
  <2>1. ASSUME NEW k \in Calls PROVE served[k] \in Nat
    BY DEF TypeOK
  <2>2. ASSUME NEW k \in Calls, k # m.id PROVE served'[k] = served[k]
    <3>1. served'[k] = served[k] + 0
      BY <1>3, <2>2
    <3> QED BY <2>1, <3>1
  <2>3. ASSUME m.id # ConnEx PROVE served'[m.id] = served[m.id] + 1
    <3>1. PICK k \in Calls : k = m.id
      BY <1>3, <2>3
    <3> QED BY <1>3, <3>1
  <2> QED BY <2>2, <2>3
<1>4. \A d \in Conns : d # c => In(d)' = In(d) /\ Out(d)' = Out(d) /\ conns'[d] = conns[d]
  BY <1>2 DEF ServedBoxes
<1>5. \A i \in DOMAIN In(c)' : /\ i \in Nat \ {0} /\ i + 1 \in DOMAIN In(c)
                               /\ In(c)'[i] = In(c)[i + 1]
  BY <1>2 DEF ServedBoxes
<1>6. ASSUME NEW d \in Conns, NEW i \in DOMAIN In(d)'
      PROVE  \E k \in DOMAIN In(d) : /\ In(d)'[i] = In(d)[k]
                                     /\ k = (IF d = c THEN i + 1 ELSE i)
                                     /\ ~(d = c /\ k = 1)
  <2>1. CASE d = c
    BY <1>5, <2>1
  <2>2. CASE d # c
    BY <1>4, <2>2
  <2> QED BY <2>1, <2>2
<1>7. WaitsOnce'
  <2> SUFFICES ASSUME NEW d \in Conns, NEW e \in Conns, NEW i \in DOMAIN In(d)', NEW j \in DOMAIN In(e)',
                      In(d)'[i].id # ConnEx, In(d)'[i].id = In(e)'[j].id
               PROVE  d = e /\ i = j
    BY DEF WaitsOnce
  <2>1. PICK k \in DOMAIN In(d) : In(d)'[i] = In(d)[k] /\ k = IF d = c THEN i + 1 ELSE i
    BY <1>6
  <2>2. PICK l \in DOMAIN In(e) : In(e)'[j] = In(e)[l] /\ l = IF e = c THEN j + 1 ELSE j
    BY <1>6
  <2>3. d = e /\ k = l
    BY <2>1, <2>2 DEF WaitsOnce
  <2>4. CASE d = c
    <3>1. i \in Nat /\ j \in Nat
      BY <1>5, <2>3, <2>4
    <3> QED BY <2>1, <2>2, <2>3, <2>4, <3>1
  <2>5. CASE d # c
    BY <2>1, <2>2, <2>3, <2>5
  <2> QED BY <2>4, <2>5
<1>8. WaitsUnserved'
  <2> SUFFICES ASSUME NEW d \in Conns, NEW i \in DOMAIN In(d)', In(d)'[i].id # ConnEx
               PROVE  In(d)'[i].id <= calls' /\ served'[In(d)'[i].id] = 0
    BY DEF WaitsUnserved
  <2>1. PICK k \in DOMAIN In(d) : In(d)'[i] = In(d)[k] /\ ~(d = c /\ k = 1)
    BY <1>6
  <2>2. In(d)[k].id <= calls /\ served[In(d)[k].id] = 0
    BY <2>1 DEF WaitsUnserved
  <2>3. In(d)[k].id # m.id
    BY <1>1, <2>1 DEF WaitsOnce
  <2>4. In(d)[k].id \in Calls
    <3>1. In(d)[k] \in Messages
      BY ConnFacts
    <3> QED BY <1>3, <2>1, <3>1 DEF Messages, Calls, ConnEx
  <2> QED BY <1>1, <1>3a, <2>1, <2>2, <2>3, <2>4
<1>9. Fresh'
  <2> SUFFICES ASSUME NEW k \in Calls, k > calls \/ (call.pc = "write" /\ k = call.id)
               PROVE  /\ served'[k] = 0
                      /\ \A d \in Conns : \A i \in DOMAIN In(d)' : In(d)'[i].id # k
    BY <1>1 DEF Fresh
  <2>1. served[k] = 0 /\ \A d \in Conns : \A i \in DOMAIN In(d) : In(d)[i].id # k
    BY DEF Fresh
  <2>2. served'[k] = 0
    BY <1>1, <1>3a, <2>1
  <2>3. ASSUME NEW d \in Conns, NEW i \in DOMAIN In(d)' PROVE In(d)'[i].id # k
    BY <1>6, <2>1
  <2> QED BY <2>2, <2>3
<1>10. Unopened'
  <2>1. ~(c > opened)
    BY <1>1 DEF Unopened
  <2> QED BY <1>1, <1>4, <2>1 DEF Unopened
<1>11. m.id # ConnEx => served[m.id] = 0
  BY <1>1 DEF WaitsUnserved
<1>12. ASSUME NEW d \in Conns, NEW i \in DOMAIN Out(d), Out(d)[i].id \in Calls
       PROVE  Out(d)[i].id # m.id /\ served[Out(d)[i].id] = 1
  <2>1. served[Out(d)[i].id] = 1
    BY <1>12 DEF AnswersServed
  <2>2. Out(d)[i].id # m.id
    BY <1>11, <1>12, <2>1 DEF Calls, ConnEx
  <2> QED BY <2>1, <2>2
<1>13. AnswersOnce' /\ AnswersServed'
  <2>1. ASSUME NEW d \in Conns, NEW i \in DOMAIN Out(d)'
        PROVE  \/ i \in DOMAIN Out(d) /\ Out(d)'[i] = Out(d)[i]
               \/ d = c /\ i \notin DOMAIN Out(d) /\ i = Len(Out(c)) + 1 /\ Out(d)'[i].id = m.id
    BY <1>2 DEF Answered
  <2>2. AnswersOnce'
    <3> SUFFICES ASSUME NEW d \in Conns, NEW i \in DOMAIN Out(d)', NEW j \in DOMAIN Out(d)',
                        Out(d)'[i].id \in Calls, Out(d)'[i].id = Out(d)'[j].id
                 PROVE  i = j
      BY DEF AnswersOnce
    <3>1. CASE i \in DOMAIN Out(d) /\ j \in DOMAIN Out(d)
      BY <2>1, <3>1 DEF AnswersOnce
    <3>2. CASE i \notin DOMAIN Out(d) /\ j \notin DOMAIN Out(d)
      BY <2>1, <3>2
    <3>3. CASE i \in DOMAIN Out(d) /\ j \notin DOMAIN Out(d)
      BY <2>1, <3>3, <1>12
    <3>4. CASE i \notin DOMAIN Out(d) /\ j \in DOMAIN Out(d)
      BY <2>1, <3>4, <1>12
    <3> QED BY <3>1, <3>2, <3>3, <3>4
  <2>3. AnswersServed'
    <3> SUFFICES ASSUME NEW d \in Conns, NEW i \in DOMAIN Out(d)', Out(d)'[i].id \in Calls
                 PROVE  served'[Out(d)'[i].id] = 1
      BY DEF AnswersServed
    <3>1. CASE i \in DOMAIN Out(d) /\ Out(d)'[i] = Out(d)[i]
      BY <3>1, <1>12, <1>3a
    <3>2. CASE Out(d)'[i].id = m.id
      <4>1. m.id # ConnEx
        BY <3>2 DEF Calls, ConnEx
      <4> QED BY <3>2, <4>1, <1>3a, <1>11
    <3> QED BY <2>1, <3>1, <3>2
  <2> QED BY <2>2, <2>3
<1>14. AtMostOnce'
  <2> SUFFICES ASSUME NEW k \in Calls
               PROVE  served'[k] <= 1 /\ (result'[k] = "own" => served'[k] = 1)
    BY DEF AtMostOnce
  <2>1. served[k] <= 1 /\ (result[k] = "own" => served[k] = 1)
    BY DEF AtMostOnce
  <2>2. CASE k = m.id
    <3>1. m.id # ConnEx
      BY <2>2 DEF Calls, ConnEx
    <3> QED BY <1>1, <1>3a, <1>11, <2>1, <2>2, <3>1
  <2>3. CASE k # m.id
    BY <1>1, <1>3a, <2>1, <2>3
  <2> QED BY <2>2, <2>3
<1> QED BY <1>7, <1>8, <1>9, <1>10, <1>13, <1>14

(* No call gets a new answer on the connections: answers are read or left. *)
Shrinks(d) ==
  \E z \in Nat : \A i \in DOMAIN Out(d)' :
    /\ i \in Nat
    /\ Out(d)'[i].id \in Calls => i + z \in DOMAIN Out(d) /\ Out(d)'[i].id = Out(d)[i + z].id
StaysFresh ==
  \A k \in Calls : k > calls' \/ (call'.pc = "write" /\ k = call'.id) =>
                    k > calls \/ (call.pc = "write" /\ k = call.id)

(* Messages are missed, and the others move up. *)
MovesUp(d) ==
  \E z \in Nat : \A i \in DOMAIN In(d)' :
    i \in Nat /\ i + z \in DOMAIN In(d) /\ In(d)'[i] = In(d)[i + z]

LEMMA MessagingLess ==
  ASSUME TypeOK, Messaging, UNCHANGED served, calls' \in Nat, calls' >= calls,
         opened' \in Nat, opened' >= opened, StaysFresh,
         \A d \in Conns : MovesUp(d) /\ Shrinks(d),
         \A d \in Conns : d > opened' => /\ In(d)' = In(d) /\ Out(d)' = Out(d)
                                         /\ conns'[d].server = conns[d].server
                                         /\ conns'[d].used = conns[d].used
                                         /\ conns'[d].spoilt = conns[d].spoilt
  PROVE  Messaging'
<1> USE DEF Messaging
<1>0. Conns \subseteq Nat /\ calls \in Nat /\ opened \in Nat
  BY RpcAssumption DEF Conns, TypeOK
<1>1. WaitsOnce'
  <2> SUFFICES ASSUME NEW d \in Conns, NEW e \in Conns, NEW i \in DOMAIN In(d)', NEW j \in DOMAIN In(e)',
                      In(d)'[i].id # ConnEx, In(d)'[i].id = In(e)'[j].id
               PROVE  d = e /\ i = j
    BY DEF WaitsOnce
  <2>1. PICK z \in Nat : \A k \in DOMAIN In(d)' :
          k \in Nat /\ k + z \in DOMAIN In(d) /\ In(d)'[k] = In(d)[k + z]
    BY DEF MovesUp
  <2>2. PICK k \in DOMAIN In(e) : In(e)'[j] = In(e)[k]
    BY DEF MovesUp
  <2>3. d = e /\ i + z = k
    BY <2>1, <2>2 DEF WaitsOnce
  <2>4. j + z \in DOMAIN In(d) /\ In(e)'[j] = In(d)[j + z] /\ i \in Nat /\ j \in Nat
    BY <2>1, <2>3
  <2>5. i + z = j + z
    BY <2>1, <2>4 DEF WaitsOnce
  <2> QED BY <2>3, <2>4, <2>5
<1>2. WaitsUnserved'
  <2> SUFFICES ASSUME NEW d \in Conns, NEW i \in DOMAIN In(d)', In(d)'[i].id # ConnEx
               PROVE  In(d)'[i].id <= calls' /\ served[In(d)'[i].id] = 0
    BY DEF WaitsUnserved
  <2>0. PICK k \in DOMAIN In(d) : In(d)'[i] = In(d)[k]
    BY DEF MovesUp
  <2>1. In(d)[k].id <= calls /\ served[In(d)[k].id] = 0
    BY <2>0 DEF WaitsUnserved
  <2>2. In(d)[k].id \in Nat
    BY ConnFacts, RpcAssumption DEF Messages
  <2> QED BY <1>0, <2>0, <2>1, <2>2
<1>3. Fresh'
  <2> SUFFICES ASSUME NEW k \in Calls, k > calls' \/ (call'.pc = "write" /\ k = call'.id)
               PROVE  /\ served'[k] = 0
                      /\ \A d \in Conns : \A i \in DOMAIN In(d)' : In(d)'[i].id # k
    BY DEF Fresh
  <2>1. served[k] = 0 /\ \A d \in Conns : \A i \in DOMAIN In(d) : In(d)[i].id # k
    BY DEF Fresh, StaysFresh
  <2>2. ASSUME NEW d \in Conns, NEW i \in DOMAIN In(d)' PROVE In(d)'[i].id # k
    <3>1. PICK j \in DOMAIN In(d) : In(d)'[i] = In(d)[j]
      BY DEF MovesUp
    <3> QED BY <2>1, <3>1
  <2> QED BY <2>1, <2>2
<1>4. Unopened'
  <2> SUFFICES ASSUME NEW c \in Conns, c > opened'
               PROVE  /\ In(c)' = <<>> /\ Out(c)' = <<>> /\ conns'[c].server = "up"
                      /\ ~conns'[c].used /\ ~conns'[c].spoilt
    BY DEF Unopened
  <2>1. c > opened
    BY <1>0
  <2> QED BY <2>1 DEF Unopened
<1>5. AnswersOnce'
  <2> SUFFICES ASSUME NEW d \in Conns, NEW i \in DOMAIN Out(d)', NEW j \in DOMAIN Out(d)',
                      Out(d)'[i].id \in Calls, Out(d)'[i].id = Out(d)'[j].id
               PROVE  i = j
    BY DEF AnswersOnce
  <2>1. PICK z \in Nat : \A k \in DOMAIN Out(d)' :
          /\ k \in Nat
          /\ Out(d)'[k].id \in Calls =>
               k + z \in DOMAIN Out(d) /\ Out(d)'[k].id = Out(d)[k + z].id
    BY DEF Shrinks
  <2>2. i + z = j + z
    BY <2>1 DEF AnswersOnce
  <2>3. i \in Nat /\ j \in Nat
    BY <2>1
  <2> QED BY <2>2, <2>3
<1>6. AnswersServed'
  <2> SUFFICES ASSUME NEW d \in Conns, NEW i \in DOMAIN Out(d)', Out(d)'[i].id \in Calls
               PROVE  served'[Out(d)'[i].id] = 1
    BY DEF AnswersServed
  <2>1. PICK k \in DOMAIN Out(d) : Out(d)'[i].id = Out(d)[k].id
    BY DEF Shrinks
  <2> QED BY <2>1 DEF AnswersServed
<1> QED BY <1>1, <1>2, <1>3, <1>4, <1>5, <1>6

LEMMA MessagingKeep ==
  ASSUME TypeOK, Messaging, UNCHANGED served, calls' \in Nat, calls' >= calls,
         opened' \in Nat, opened' >= opened, StaysFresh,
         \A d \in Conns : In(d)' = In(d) /\ Shrinks(d),
         \A d \in Conns : d > opened' => /\ Out(d)' = Out(d)
                                         /\ conns'[d].server = conns[d].server
                                         /\ conns'[d].used = conns[d].used
                                         /\ conns'[d].spoilt = conns[d].spoilt
  PROVE  Messaging'
<1>1. ASSUME NEW d \in Conns PROVE MovesUp(d)
  <2>1. In(d)' = In(d) /\ \A i \in DOMAIN In(d) : i \in Nat /\ i + 0 = i
    BY ConnFacts
  <2> QED BY <2>1 DEF MovesUp
<1> QED BY <1>1, MessagingLess

LEMMA MessagingSend ==
  ASSUME TypeOK, Messaging, NEW c \in Conns, NEW m \in Messages, Sent(c, m),
         UNCHANGED <<served, calls>>, opened' \in Nat, opened' >= opened, c <= opened',
         StaysFresh,
         m.id # ConnEx => /\ call.pc = "write" /\ m.id = call.id /\ m.id \in Calls
                          /\ m.id <= calls /\ call'.pc # "write"
  PROVE  Messaging'
<1> USE DEF Messaging
<1>0. Conns \subseteq Nat /\ calls \in Nat /\ opened \in Nat
  BY RpcAssumption DEF Conns, TypeOK
<1>1. PICK q \in Seq(Messages) : q = In(c)
  BY ConnFacts
<1>2. /\ DOMAIN Append(q, m) = DOMAIN q \cup {Len(q) + 1}
      /\ \A i \in DOMAIN q : i # Len(q) + 1 /\ Append(q, m)[i] = q[i]
      /\ Append(q, m)[Len(q) + 1] = m
  BY AppendFacts
<1>3. /\ In(c)' = Append(q, m)
      /\ \A d \in Conns : d # c => In(d)' = In(d) /\ conns'[d] = conns[d]
      /\ \A d \in Conns : Out(d)' = Out(d)
  BY <1>1 DEF Sent, Becomes, Puts, In, Out
<1>4. ASSUME NEW d \in Conns, NEW i \in DOMAIN In(d)'
      PROVE  \/ i \in DOMAIN In(d) /\ In(d)'[i] = In(d)[i]
             \/ d = c /\ i \notin DOMAIN In(d) /\ i = Len(q) + 1 /\ In(d)'[i] = m
  <2>1. CASE d = c
    BY <1>1, <1>2, <1>3, <2>1
  <2>2. CASE d # c
    BY <1>3, <2>2
  <2> QED BY <2>1, <2>2
<1>5. m.id # ConnEx => /\ served[m.id] = 0
                       /\ \A d \in Conns : \A i \in DOMAIN In(d) : In(d)[i].id # m.id
  BY DEF Fresh
<1>6. WaitsOnce'
  <2> SUFFICES ASSUME NEW d \in Conns, NEW e \in Conns, NEW i \in DOMAIN In(d)', NEW j \in DOMAIN In(e)',
                      In(d)'[i].id # ConnEx, In(d)'[i].id = In(e)'[j].id
               PROVE  d = e /\ i = j
    BY DEF WaitsOnce
  <2>1. CASE i \in DOMAIN In(d) /\ In(d)'[i] = In(d)[i] /\ j \in DOMAIN In(e) /\ In(e)'[j] = In(e)[j]
    BY <2>1 DEF WaitsOnce
  <2>2. CASE d = c /\ i = Len(q) + 1 /\ e = c /\ j = Len(q) + 1
    BY <2>2
  <2>3. CASE In(d)'[i] = m /\ j \in DOMAIN In(e) /\ In(e)'[j] = In(e)[j]
    BY <2>3, <1>5
  <2>4. CASE i \in DOMAIN In(d) /\ In(d)'[i] = In(d)[i] /\ In(e)'[j] = m
    BY <2>4, <1>5
  <2> QED BY <1>4, <2>1, <2>2, <2>3, <2>4
<1>7. WaitsUnserved'
  <2> SUFFICES ASSUME NEW d \in Conns, NEW i \in DOMAIN In(d)', In(d)'[i].id # ConnEx
               PROVE  In(d)'[i].id <= calls /\ served[In(d)'[i].id] = 0
    BY DEF WaitsUnserved
  <2>1. CASE i \in DOMAIN In(d) /\ In(d)'[i] = In(d)[i]
    BY <2>1 DEF WaitsUnserved
  <2>2. CASE In(d)'[i] = m
    BY <2>2, <1>5
  <2> QED BY <1>4, <2>1, <2>2
<1>8. Fresh'
  <2> SUFFICES ASSUME NEW k \in Calls, k > calls' \/ (call'.pc = "write" /\ k = call'.id)
               PROVE  /\ served[k] = 0
                      /\ \A d \in Conns : \A i \in DOMAIN In(d)' : In(d)'[i].id # k
    BY DEF Fresh
  <2>1. served[k] = 0 /\ \A d \in Conns : \A i \in DOMAIN In(d) : In(d)[i].id # k
    BY DEF Fresh, StaysFresh
  <2>2. m.id # k
    <3>1. CASE m.id = ConnEx
      BY <3>1 DEF Calls, ConnEx
    <3>2. CASE m.id # ConnEx
      <4>1. k > calls /\ m.id <= calls /\ m.id \in Calls
        BY <3>2
      <4> QED BY <1>0, <4>1 DEF Calls
    <3> QED BY <3>1, <3>2
  <2> QED BY <1>4, <2>1, <2>2
<1>9. Unopened'
  <2> SUFFICES ASSUME NEW d \in Conns, d > opened'
               PROVE  /\ In(d)' = <<>> /\ Out(d)' = <<>> /\ conns'[d].server = "up"
                      /\ ~conns'[d].used /\ ~conns'[d].spoilt
    BY DEF Unopened
  <2>1. d > opened /\ d # c
    BY <1>0
  <2> QED BY <1>3, <2>1 DEF Unopened
<1>10. AnswersOnce' /\ AnswersServed'
  BY <1>3 DEF AnswersOnce, AnswersServed
<1> QED BY <1>6, <1>7, <1>8, <1>9, <1>10

-----------------------------------------------------------------------------
(* Connecting, and returning. *)

Hello == [id |-> ConnEx, silent |-> FALSE]

(* A connection is used, or nothing comes onto it. *)
UsedOrSame(d) ==
  \/ conns'[d].used
  \/ /\ ~conns[d].used /\ In(d)' = In(d) /\ Out(d)' = Out(d)
     /\ conns'[d].server \in {conns[d].server, "down"}

LEMMA UnusedKeep ==
  ASSUME Unused, \A d \in Conns : UsedOrSame(d)
  PROVE  Unused'
BY DEF Unused, UsedOrSame

(* All that Open leaves, whatever the outcome. *)
Opened ==
  /\ conns' \in [Conns -> ConnType]
  /\ opened' \in 0 .. MaxConns /\ opened' >= opened /\ cur' \in 0 .. opened'
  /\ sock' \in BOOLEAN /\ safe' \in BOOLEAN
  /\ sock' => cur' # 0
  /\ safe' => sock' /\ \E c \in Conns : c = cur' /\ In(c)' = <<>> /\ Out(c)' = <<>>
  /\ \A d \in Conns : /\ Out(d)' = Out(d) /\ conns'[d].server = conns[d].server
                      /\ conns'[d].spoilt = conns[d].spoilt
                      /\ d > opened' => conns'[d] = conns[d]
                      /\ conns'[d].used \/ (~conns[d].used /\ In(d)' = In(d))
                         \/ conns'[d] = conns[d]
  /\ \/ \A d \in Conns : In(d)' = In(d)
     \/ \E c \in Conns : c = opened' /\ Sent(c, Hello)

LEMMA OpenEffect ==
  ASSUME TypeOK, Unopened, NEW how \in Outcomes, Open(how)
  PROVE  Opened
<1>0. /\ opened \in Nat /\ opened <= MaxConns /\ MaxConns \in Nat /\ conns \in [Conns -> ConnType]
      /\ \A d \in Conns : d \in Nat
  <2>1. 1 \in Conns
    BY RpcAssumption DEF Conns
  <2>2. conns \in [Conns -> ConnType]
    BY <2>1, ConnFacts
  <2>3. opened \in Nat /\ opened <= MaxConns /\ MaxConns \in Nat
    BY RpcAssumption DEF TypeOK
  <2>4. \A d \in Conns : d \in Nat
    BY RpcAssumption DEF Conns
  <2> QED BY <2>2, <2>3, <2>4
<1>1. CASE how = "refused"
  <2>1. cur' = 0 /\ sock' = FALSE /\ safe' = FALSE /\ UNCHANGED <<conns, opened>>
    BY <1>1 DEF Open
  <2>2. \A d \in Conns : In(d)' = In(d) /\ Out(d)' = Out(d) /\ conns'[d] = conns[d]
    BY <2>1 DEF In, Out
  <2>3. conns' \in [Conns -> ConnType] /\ opened' \in 0 .. MaxConns /\ opened' >= opened
        /\ cur' \in 0 .. opened'
    BY <1>0, <2>1
  <2> QED BY <2>1, <2>2, <2>3 DEF Opened
<1>2. CASE how # "refused"
  <2>1. PICK c \in Conns : c = opened + 1
    BY <1>0, <1>2 DEF Open, Conns
  <2>2. /\ opened' = c /\ cur' = c /\ sock' = TRUE
        /\ safe' = (how = "initialised")
    BY <1>2, <2>1 DEF Open
  <2>3. In(c) = <<>> /\ Out(c) = <<>> /\ ~conns[c].used /\ c <= MaxConns /\ c > opened
    BY <1>0, <2>1 DEF Unopened, Conns
  <2>4. PICK x : x = IF how = "lingering" THEN <<Hello>> ELSE <<>>
    OBVIOUS
  <2>4a. PICK b \in BOOLEAN : b = (how # "plain")
    OBVIOUS
  <2>5. PutsInbox(conns, conns', c, x, b)
    BY <1>2, <2>1, <2>4, <2>4a DEF Open, PutsInbox, Hello
  <2>6. Hello \in Messages
    BY RpcAssumption DEF Hello, Messages, ConnEx
  <2>7. <<Hello>> = Append(In(c), Hello)
    <3>1. \A y : <<y>> = Append(<<>>, y)
      OBVIOUS
    <3> QED BY <2>3, <3>1
  <2>8. /\ conns' \in [Conns -> ConnType] /\ conns'[c].used = b
        /\ In(c)' = x /\ Out(c)' = Out(c) /\ conns'[c].server = conns[c].server
        /\ conns'[c].spoilt = conns[c].spoilt
        /\ \A d \in Conns : d # c => conns'[d] = conns[d]
    <3>1. x \in Seq(Messages)
      <4>1. <<>> \in Seq(Messages) /\ <<Hello>> \in Seq(Messages)
        BY <2>6, <2>7, ConnFacts, AppendFacts, EmptySeq
      <4> QED BY <2>4, <4>1
    <3>2. /\ conns' \in [Conns -> ConnType] /\ conns'[c].used = b
          /\ Puts(conns, conns', c, x, conns[c].outbox, conns[c].server, conns[c].spoilt)
      BY <1>0, <2>3, <2>5, <3>1 DEF ConnType, ConnRecord, PutsInbox, Puts
    <3> QED BY <3>2 DEF Puts, In, Out
  <2>9. \A d \in Conns : d # c => In(d)' = In(d) /\ Out(d)' = Out(d)
    BY <2>8 DEF In, Out
  <2>10. /\ opened' \in 0 .. MaxConns /\ opened' >= opened /\ cur' \in 0 .. opened' /\ cur' # 0
         /\ \A d \in Conns : d > opened' => d # c
    BY <1>0, <2>1, <2>2, <2>3
  <2>11. CASE how = "lingering"
    <3>1. Sent(c, Hello)
      <4>1. x = Append(In(c), Hello)
        BY <2>4, <2>7, <2>11
      <4>2. conns[c].used => b
        BY <2>3
      <4> QED BY <2>5, <2>6, <4>1, <4>2, SendEffect
    <3>2. safe' = FALSE /\ conns'[c].used
      BY <2>2, <2>4a, <2>8, <2>11
    <3> QED BY <2>1, <2>2, <2>8, <2>9, <2>10, <3>1, <3>2 DEF Opened
  <2>12. CASE how # "lingering"
    <3>1. In(c)' = In(c) /\ In(c)' = <<>> /\ Out(c)' = <<>>
      BY <2>3, <2>4, <2>8, <2>12
    <3>2. \A d \in Conns : In(d)' = In(d)
      BY <2>9, <3>1
    <3> QED BY <2>1, <2>2, <2>3, <2>8, <2>9, <2>10, <3>1, <3>2 DEF Opened
  <2> QED BY <2>11, <2>12
<1> QED BY <1>1, <1>2

LEMMA OpenUnused ==
  ASSUME Unused, Opened
  PROVE  Unused'
<1>1. \A d \in Conns : UsedOrSame(d)
  <2> SUFFICES ASSUME NEW d \in Conns, ~conns'[d].used PROVE UsedOrSame(d)
    BY DEF UsedOrSame
  <2>1. Out(d)' = Out(d) /\ conns'[d].server = conns[d].server
    BY DEF Opened
  <2>2. ~conns[d].used /\ In(d)' = In(d)
    BY DEF Opened, In
  <2> QED BY <2>1, <2>2 DEF UsedOrSame
<1> QED BY <1>1, UnusedKeep

LEMMA OpenMessaging ==
  ASSUME TypeOK, Messaging, Opened, UNCHANGED <<served, calls>>, StaysFresh
  PROVE  Messaging'
<1>1. calls' \in Nat /\ calls' >= calls /\ opened' \in Nat /\ opened' >= opened
  BY RpcAssumption DEF TypeOK, Opened
<1>2. CASE \A d \in Conns : In(d)' = In(d)
  <2>1. ASSUME NEW d \in Conns PROVE Shrinks(d)
    <3>1. Out(d)' = Out(d) /\ \A i \in DOMAIN Out(d) : i \in Nat /\ i + 0 = i
      BY ConnFacts DEF Opened
    <3> QED BY <3>1 DEF Shrinks
  <2> QED BY <1>1, <1>2, <2>1, MessagingKeep DEF Opened
<1>3. ASSUME NEW c \in Conns, c = opened', Sent(c, Hello)
      PROVE  Messaging'
  <2>1. Hello \in Messages /\ Hello.id = ConnEx
    BY RpcAssumption DEF Hello, Messages, ConnEx
  <2> QED BY <1>1, <1>3, <2>1, MessagingSend
<1> QED BY <1>2, <1>3 DEF Opened

LEMMA OpenTails ==
  ASSUME TailsSpoilt, Opened PROVE TailsSpoilt'
BY DEF TailsSpoilt, Opened

LEMMA OpenClean ==
  ASSUME TypeOK, Opened, call'.pc # "read"
  PROVE  Clean' /\ SafeMeansClean'
<1>1. Clean'
  BY DEF Clean, Opened
<1>2. SafeMeansClean'
  <2> SUFFICES ASSUME script', safe'
               PROVE  cur' # 0 /\ (Lingering(cur)' => conns'[cur'].spoilt)
    BY DEF SafeMeansClean
  <2>1. PICK c \in Conns : c = cur' /\ In(c)' = <<>> /\ Out(c)' = <<>>
    BY DEF Opened
  <2>2. conns'[cur'].outbox = <<>> /\ conns'[cur'].inbox = <<>>
    BY <2>1 DEF In, Out
  <2>3. DOMAIN conns'[cur'].inbox = {}
    BY <2>2
  <2>4. ~Lingering(cur)'
    BY <2>2, <2>3 DEF Lingering
  <2> QED BY <2>4 DEF Opened
<1> QED BY <1>1, <1>2

(* A connection stays torn. *)
StaysSpoilt == \A c \in Conns : conns[c].spoilt => conns'[c].spoilt

LEMMA Returns ==
  ASSUME TypeOK, OwnOnceOrNothing, NEW k \in Calls, NEW r \in {"own", "false", "skipped", "other"},
         k = call.id, Return(r), UNCHANGED served, StaysSpoilt,
         r = "own" => served[k] = 1,
         r = "other" => \E c \in Conns : conns[c].spoilt
  PROVE  /\ OwnOnceOrNothing'
         /\ result' \in [Calls -> {"none", "own", "false", "skipped", "other"}]
         /\ call' = NoCall
<1>1. /\ result'[k] = r /\ \A j \in Calls : j # k => result'[j] = result[j]
      /\ result' \in [Calls -> {"none", "own", "false", "skipped", "other"}]
  BY DEF TypeOK, Return
<1>2. OwnOrNothing'
  <2> SUFFICES ASSUME NEW i \in Calls, result'[i] = "other" PROVE \E c \in Conns : conns'[c].spoilt
    BY DEF OwnOrNothing
  <2>1. \E c \in Conns : conns[c].spoilt
    BY <1>1 DEF OwnOnceOrNothing, OwnOrNothing
  <2> QED BY <2>1 DEF StaysSpoilt
<1>3. AtMostOnce'
  BY <1>1 DEF OwnOnceOrNothing, AtMostOnce
<1> QED BY <1>1, <1>2, <1>3 DEF Return, OwnOnceOrNothing

LEMMA NothingReturned ==
  ASSUME OwnOrNothing, UNCHANGED result, StaysSpoilt
  PROVE  OwnOrNothing'
BY DEF OwnOrNothing, StaysSpoilt

LEMMA InitIInv == Init => IInv
<1> SUFFICES ASSUME Init PROVE IInv
  OBVIOUS
<1>0. /\ conns = [c \in Conns |-> [inbox |-> <<>>, outbox |-> <<>>, server |-> "up",
                                    used |-> FALSE, spoilt |-> FALSE]]
      /\ opened = 0 /\ cur = 0 /\ script = FALSE /\ sock = FALSE /\ safe = FALSE
      /\ call = NoCall /\ calls = 0
      /\ result = [i \in Calls |-> "none"] /\ served = [i \in Calls |-> 0]
  BY DEF Init
<1>1. TypeOK
  <2>1. <<>> \in Seq(Messages) /\ <<>> \in Seq(Answers)
    BY EmptySeq
  <2>2. conns \in [Conns -> [inbox : Seq(Messages), outbox : Seq(Answers),
                             server : {"up", "astray", "down"}, used : BOOLEAN, spoilt : BOOLEAN]]
    BY <1>0, <2>1
  <2>3. call \in [pc : {"idle", "write", "read"}, id : 0 .. MaxCalls, skip : BOOLEAN,
                  retries_left : 0 .. Retries]
    BY <1>0, RpcAssumption DEF NoCall
  <2>4. opened \in 0 .. MaxConns /\ cur \in 0 .. opened /\ calls \in 0 .. MaxCalls
    BY <1>0, RpcAssumption
  <2>5. result \in [Calls -> {"none", "own", "false", "skipped", "other"}] /\ served \in [Calls -> Nat]
    BY <1>0
  <2> QED BY <1>0, <2>2, <2>3, <2>4, <2>5 DEF TypeOK
<1>2. \A c \in Conns : /\ In(c) = <<>> /\ Out(c) = <<>> /\ conns[c].server = "up"
                       /\ ~conns[c].used /\ ~conns[c].spoilt
  BY <1>0 DEF In, Out
<1>3. \A c \in Conns : DOMAIN In(c) = {} /\ DOMAIN Out(c) = {}
  BY <1>2
<1>4. Messaging
  BY <1>0, <1>2, <1>3 DEF Messaging, Unopened, WaitsOnce, WaitsUnserved, AnswersOnce, AnswersServed, Fresh
<1>5. call.pc = "idle"
  BY <1>0 DEF NoCall
<1>6. Linked /\ Clean /\ Unused /\ OwnIsLast /\ TailsSpoilt /\ SafeMeansClean
  BY <1>0, <1>2, <1>3, <1>5 DEF Linked, Clean, Unused, OwnIsLast, TailsSpoilt, SafeMeansClean
<1>7. OwnOnceOrNothing
  BY <1>0 DEF OwnOnceOrNothing, OwnOrNothing, AtMostOnce
<1> QED BY <1>1, <1>4, <1>6, <1>7 DEF IInv

-----------------------------------------------------------------------------
(* The steps. *)

CallType == [pc : {"idle", "write", "read"}, id : 0 .. MaxCalls, skip : BOOLEAN,
             retries_left : 0 .. Retries]
Results == {"none", "own", "false", "skipped", "other"}

(* The connection of a client with a socket. *)
LEMMA CurFacts ==
  ASSUME IInv, sock
  PROVE  /\ cur \in Conns /\ cur <= opened
         /\ call.pc # "idle" => call.id \in Calls /\ call.id <= calls
<1>1. cur \in 0 .. opened /\ opened \in 0 .. MaxConns /\ cur # 0 /\ MaxConns \in Nat
      /\ calls \in 0 .. MaxCalls /\ MaxCalls \in Nat
  BY RpcAssumption DEF IInv, TypeOK, Linked
<1>2. cur \in Conns /\ cur <= opened
  BY <1>1 DEF Conns
<1> QED BY <1>1, <1>2 DEF IInv, Linked, Calls

LEMMA CallFacts ==
  ASSUME IInv, call.pc # "idle"
  PROVE  call.id \in Calls /\ call.id <= calls /\ call.id = calls /\ script /\ call.id # ConnEx
BY RpcAssumption DEF IInv, TypeOK, Linked, Calls, ConnEx

LEMMA ServeStep ==
  ASSUME IInv, NEW c \in Conns, Serve(c)
  PROVE  IInv'
<1> USE DEF IInv
<1>1. PICK m \in Messages :
        /\ m = Head(In(c)) /\ ServedBoxes(c, m) /\ Answered(c, m)
        /\ ~m.silent => /\ Out(c)' # <<>>
                        /\ Out(c)'[Len(Out(c)')] = [id |-> m.id, left |-> "all"]
  BY ServeFacts
<1>2. UNCHANGED <<opened, cur, script, sock, safe, call, calls, result>>
  BY DEF Serve
<1>3. /\ m = In(c)[1] /\ 1 \in DOMAIN In(c) /\ In(c) # <<>> /\ In(c)' = Tail(In(c))
      /\ m.silent => Out(c)' = Out(c)
      /\ (conns[c].used => conns'[c].used)
      /\ Strays(c, m, conns'[c].server, conns'[c].spoilt)
      /\ \A d \in Conns : d # c => In(d)' = In(d) /\ Out(d)' = Out(d) /\ conns'[d] = conns[d]
  BY <1>1 DEF ServedBoxes
<1>4. TypeOK'
  <2>1. conns' \in [Conns -> ConnType]
    BY <1>1 DEF ServedBoxes
  <2>2. served' \in [Calls -> Nat]
    <3>1. \A i \in Calls : /\ served[i] \in Nat
                          /\ served[i] + (IF i = m.id THEN 1 ELSE 0) \in Nat
      BY DEF TypeOK
    <3>2. served' = [i \in Calls |-> served[i] + IF i = m.id THEN 1 ELSE 0]
      BY <1>1 DEF Serve, In
    <3> QED BY <3>1, <3>2
  <2> QED BY <1>2, <2>1, <2>2 DEF TypeOK, ConnType, ConnRecord, Servers
<1>5. Messaging' /\ AtMostOnce'
  BY MessagingServe DEF OwnOnceOrNothing
<1>5a. StaysSpoilt
  <2>1. conns[c].spoilt => conns'[c].spoilt
    BY <1>3 DEF Strays
  <2> QED BY <1>3, <2>1 DEF StaysSpoilt
<1>6. OwnOrNothing'
  BY <1>2, <1>5a, NothingReturned DEF OwnOnceOrNothing
<1>7. Linked' /\ Clean' /\ Unused'
  <2>1. conns'[c].used
    BY <1>3 DEF Unused
  <2>2. \A d \in Conns : UsedOrSame(d)
    BY <1>3, <2>1 DEF UsedOrSame
  <2> QED BY <1>2, <2>2, UnusedKeep DEF Linked, Clean
<1>8. TailsSpoilt'
  <2>1. ASSUME NEW d \in Conns, NEW i \in DOMAIN Out(d)', Out(d)'[i].left # "all"
        PROVE  conns'[d].spoilt
    <3>1. i \in DOMAIN Out(d) /\ Out(d)'[i] = Out(d)[i]
      BY <1>1, <2>1 DEF Answered
    <3>2. conns[d].spoilt
      BY <2>1, <3>1 DEF TailsSpoilt
    <3> QED BY <1>5a, <3>2 DEF StaysSpoilt
  <2>2. ASSUME NEW d \in Conns, conns'[d].server = "astray" PROVE conns'[d].spoilt
    <3>1. CASE d = c
      BY <1>3, <2>2, <3>1 DEF Strays, TailsSpoilt
    <3>2. CASE d # c
      BY <1>3, <2>2, <3>2 DEF TailsSpoilt
    <3> QED BY <3>1, <3>2
  <2> QED BY <2>1, <2>2 DEF TailsSpoilt
<1>9. OwnIsLast'
  <2> SUFFICES ASSUME call.pc = "read", ~conns'[cur].spoilt
               PROVE  OwnIsLast'
    BY <1>2 DEF OwnIsLast
  <2>1. cur \in Conns /\ ~conns[cur].spoilt
    BY <1>5a, CurFacts DEF Linked, StaysSpoilt
  <2>2. CASE cur # c
    <3>1. In(cur)' = In(cur) /\ Out(cur)' = Out(cur) /\ conns'[cur] = conns[cur]
      BY <1>2, <1>3, <2>1, <2>2 DEF In, Out
    <3> QED BY <1>2, <2>1, <3>1 DEF OwnIsLast
  <2>3. CASE cur = c
    <3>1. In(c)[Len(In(c))] = [id |-> call.id, silent |-> FALSE]
      BY <1>3, <2>1, <2>3 DEF OwnIsLast
    <3>2. PICK q \in Seq(Messages) : q = In(c) /\ q # <<>>
      BY <1>3, ConnFacts
    <3>3. /\ Len(q) = 1 => Tail(q) = <<>>
          /\ Len(q) # 1 => Tail(q) # <<>> /\ Tail(q)[Len(Tail(q))] = q[Len(q)]
      BY <3>2, TailFacts
    <3>4. CASE Len(q) = 1
      <4>1. m = [id |-> call.id, silent |-> FALSE]
        BY <1>3, <3>1, <3>2, <3>4
      <4>2. In(c)' = <<>> /\ Out(c)' # <<>> /\ Out(c)'[Len(Out(c)')].id = call.id
        BY <1>1, <1>3, <3>2, <3>3, <3>4, <4>1
      <4> QED BY <1>2, <2>3, <4>2 DEF OwnIsLast, In, Out
    <3>5. CASE Len(q) # 1
      <4>1. In(c)' # <<>> /\ In(c)'[Len(In(c)')] = [id |-> call.id, silent |-> FALSE]
        BY <1>3, <3>1, <3>2, <3>3, <3>5
      <4> QED BY <1>2, <2>3, <4>1 DEF OwnIsLast, In, Out
    <3> QED BY <3>4, <3>5
  <2> QED BY <2>2, <2>3
<1>10. SafeMeansClean'
  <2> SUFFICES ASSUME script, safe, call.pc # "read"
               PROVE  cur # 0 /\ (Lingering(cur)' => conns'[cur].spoilt)
    BY <1>2 DEF SafeMeansClean, Lingering
  <2>1. cur \in Conns /\ cur # 0 /\ (Lingering(cur) => conns[cur].spoilt)
        /\ (conns[cur].spoilt => conns'[cur].spoilt)
    BY <1>5a, CurFacts DEF Clean, SafeMeansClean, StaysSpoilt
  <2>2. CASE cur # c
    <3>1. conns'[cur] = conns[cur]
      BY <1>3, <2>1, <2>2
    <3> QED BY <1>2, <2>1, <3>1 DEF Lingering
  <2>3. CASE cur = c
    <3> SUFFICES ASSUME Lingering(cur)' PROVE Lingering(cur)
      BY <1>3, <2>1, <2>3
    <3>1. CASE Out(c)' # <<>>
      <4>1. CASE m.silent
        BY <1>3, <2>3, <3>1, <4>1 DEF Lingering, Out
      <4>2. CASE ~m.silent
        BY <1>3, <2>3, <4>2 DEF Lingering, In
      <4> QED BY <4>1, <4>2
    <3>2. ASSUME NEW i \in DOMAIN In(c)', ~In(c)'[i].silent
          PROVE  Lingering(cur)
      <4>1. i + 1 \in DOMAIN In(c) /\ In(c)'[i] = In(c)[i + 1]
        BY <1>1 DEF ServedBoxes
      <4> QED BY <2>3, <3>2, <4>1 DEF Lingering, In
    <3> QED BY <1>2, <2>3, <3>1, <3>2 DEF Lingering, In, Out
  <2> QED BY <2>2, <2>3
<1> QED BY <1>4, <1>5, <1>6, <1>7, <1>8, <1>9, <1>10 DEF OwnOnceOrNothing

(* An answer to nobody. *)
LEMMA StrayEffect ==
  ASSUME TypeOK, NEW c \in Conns, StrayAnswer(c)
  PROVE  \E a \in Answers :
           /\ a.id = Nobody /\ conns[c].server = "astray"
           /\ Becomes(c, In(c), Append(Out(c), a), conns[c].server, conns[c].spoilt)
<1>1. PICK a \in Answers : a = [id |-> Nobody, left |-> "rest"]
  <2>1. Nobody \in -1 .. MaxCalls
    BY RpcAssumption DEF Nobody
  <2>2. "rest" \in DOMAIN Cuts
    BY DEF Cuts
  <2> QED BY <2>1, <2>2 DEF Answers
<1>2. PICK o \in Seq(Answers) : o = Append(Out(c), a)
  BY ConnFacts, AppendFacts
<1>3. PutsOutbox(conns, conns', c, o)
  BY <1>1, <1>2 DEF StrayAnswer, PutsOutbox, Out
<1>4. conns \in [Conns -> ConnRecord(Seq(Messages), Seq(Answers))]
  BY ConnFacts DEF ConnType
<1>5. /\ conns' \in [Conns -> ConnRecord(Seq(Messages), Seq(Answers))]
      /\ Puts(conns, conns', c, conns[c].inbox, o, conns[c].server, conns[c].spoilt)
  BY <1>3, <1>4, PutOutbox
<1>6. Becomes(c, In(c), Append(Out(c), a), conns[c].server, conns[c].spoilt)
  BY <1>2, <1>5 DEF Becomes, ConnType, In
<1> QED BY <1>1, <1>6 DEF StrayAnswer

LEMMA StrayStep ==
  ASSUME IInv, NEW c \in Conns, StrayAnswer(c)
  PROVE  IInv'
<1> USE DEF IInv
<1>1. /\ c = cur /\ conns[c].server = "astray"
      /\ UNCHANGED <<opened, cur, script, sock, safe, call, calls, result, served>>
  BY DEF StrayAnswer
<1>2. PICK a \in Answers :
        /\ a.id = Nobody
        /\ Becomes(c, In(c), Append(Out(c), a), conns[c].server, conns[c].spoilt)
  BY StrayEffect
<1>3. PICK q \in Seq(Answers) : q = Out(c)
  BY ConnFacts
<1>4. PICK o : o = Append(q, a)
  OBVIOUS
<1>5. /\ conns' \in [Conns -> ConnType]
      /\ In(c)' = In(c) /\ Out(c)' = o /\ conns'[c].server = conns[c].server
      /\ conns'[c].spoilt = conns[c].spoilt /\ (conns[c].used => conns'[c].used)
      /\ \A d \in Conns : d # c => In(d)' = In(d) /\ Out(d)' = Out(d) /\ conns'[d] = conns[d]
  BY <1>2, <1>3, <1>4, BecomesFacts
<1>6. conns[c].used /\ conns[c].spoilt
  BY <1>1 DEF Unused, TailsSpoilt
<1>7. /\ DOMAIN o = DOMAIN q \cup {Len(q) + 1} /\ Len(q) \in Nat
      /\ \A i \in DOMAIN q : i \in Nat /\ o[i] = q[i]
      /\ o[Len(q) + 1] = a /\ a.id \notin Calls
  BY <1>2, <1>4, AppendFacts, SeqFacts DEF Nobody, Calls
<1>8. TypeOK'
  BY <1>1, <1>5 DEF TypeOK, ConnType, ConnRecord, Servers
<1>9. Messaging'
  <2>1. ASSUME NEW d \in Conns PROVE In(d)' = In(d) /\ Shrinks(d)
    <3>1. CASE d = c
      <4>1. \A i \in DOMAIN Out(d)' :
              /\ i \in Nat
              /\ Out(d)'[i].id \in Calls => i + 0 \in DOMAIN Out(d) /\ Out(d)'[i].id = Out(d)[i + 0].id
        BY <1>3, <1>5, <1>7, <3>1
      <4> QED BY <1>5, <3>1, <4>1 DEF Shrinks
    <3>2. CASE d # c
      <4>1. Out(d)' = Out(d) /\ \A i \in DOMAIN Out(d) : i \in Nat /\ i + 0 = i
        BY <1>5, <3>2, ConnFacts
      <4> QED BY <1>5, <3>2, <4>1 DEF Shrinks
    <3> QED BY <3>1, <3>2
  <2>2. calls' \in Nat /\ calls' >= calls /\ opened' \in Nat /\ opened' >= opened
        /\ \A d \in Conns : d > opened' => d # c
    BY <1>1, RpcAssumption DEF TypeOK
  <2>3. StaysFresh
    BY <1>1 DEF StaysFresh
  <2> QED BY <1>1, <1>5, <2>1, <2>2, <2>3, MessagingKeep
<1>10. Linked' /\ Clean' /\ Unused'
  <2>1. \A d \in Conns : UsedOrSame(d)
    BY <1>5, <1>6, ConnFacts DEF UsedOrSame
  <2> QED BY <1>1, <2>1, UnusedKeep DEF Linked, Clean
<1>11. TailsSpoilt'
  <2>1. conns'[c].spoilt
    BY <1>5, <1>6
  <2> QED BY <1>5, <2>1 DEF TailsSpoilt
<1>12. StaysSpoilt
  BY <1>5 DEF StaysSpoilt
<1>13. OwnOnceOrNothing'
  BY <1>1, <1>12, NothingReturned DEF OwnOnceOrNothing, AtMostOnce
<1>14. OwnIsLast'
  <2>1. conns'[cur].spoilt
    BY <1>1, <1>5, <1>6
  <2> QED BY <1>1, <2>1 DEF OwnIsLast
<1>15. SafeMeansClean'
  <2>1. conns'[cur].spoilt
    BY <1>1, <1>5, <1>6
  <2> QED BY <1>1, <2>1 DEF SafeMeansClean
<1> QED BY <1>8, <1>9, <1>10, <1>11, <1>13, <1>14, <1>15

(* A message that is never served. *)
LEMMA MissEffect ==
  ASSUME TypeOK, NEW c \in Conns, Miss(c)
  PROVE  /\ In(c) # <<>> /\ conns[c].server = "astray"
         /\ Becomes(c, Tail(In(c)), Out(c), conns[c].server, conns[c].spoilt)
<1>1. In(c) # <<>> /\ conns[c].server = "astray" /\ conns' = [conns EXCEPT ![c].inbox = Tail(@)]
  BY DEF Miss, In
<1>2. PICK i \in Seq(Messages) : i = Tail(In(c))
  BY <1>1, ConnFacts, TailFacts
<1>3. PICK b \in BOOLEAN : b = conns[c].used
  BY ConnFacts
<1>4. conns \in [Conns -> ConnRecord(Seq(Messages), Seq(Answers))]
  BY ConnFacts DEF ConnType
<1>5. PutsInbox(conns, conns', c, i, b)
  BY <1>1, <1>2, <1>3, <1>4 DEF PutsInbox, In, ConnRecord
<1>6. /\ conns' \in [Conns -> ConnRecord(Seq(Messages), Seq(Answers))] /\ conns'[c].used = b
      /\ Puts(conns, conns', c, i, conns[c].outbox, conns[c].server, conns[c].spoilt)
  <2>1. conns[c].used => b
    BY <1>3
  <2> QED BY <1>4, <1>5, <2>1, PutInbox
<1>7. Becomes(c, Tail(In(c)), Out(c), conns[c].server, conns[c].spoilt)
  BY <1>2, <1>6 DEF Becomes, ConnType, Out
<1> QED BY <1>1, <1>7

LEMMA MissStep ==
  ASSUME IInv, NEW c \in Conns, Miss(c)
  PROVE  IInv'
<1> USE DEF IInv
<1>1. UNCHANGED <<opened, cur, script, sock, safe, call, calls, result, served>>
  BY DEF Miss
<1>2. PICK q \in Seq(Messages) : q = In(c) /\ q # <<>>
  BY ConnFacts, MissEffect
<1>3. PICK i : i = Tail(q)
  OBVIOUS
<1>4. /\ conns' \in [Conns -> ConnType]
      /\ In(c)' = i /\ Out(c)' = Out(c) /\ conns'[c].server = conns[c].server
      /\ conns'[c].spoilt = conns[c].spoilt /\ (conns[c].used => conns'[c].used)
      /\ \A d \in Conns : d # c => In(d)' = In(d) /\ Out(d)' = Out(d) /\ conns'[d] = conns[d]
  <2>1. Becomes(c, i, Out(c), conns[c].server, conns[c].spoilt)
    BY <1>2, <1>3, MissEffect
  <2> QED BY <2>1, BecomesFacts
<1>5. conns[c].used /\ conns[c].spoilt /\ conns[c].server = "astray"
  BY MissEffect DEF Unused, TailsSpoilt
<1>6. \A j \in DOMAIN i : j \in Nat /\ j + 1 \in DOMAIN q /\ i[j] = q[j + 1]
  BY <1>2, <1>3, TailFacts, SeqFacts
<1>7. TypeOK'
  BY <1>1, <1>4 DEF TypeOK, ConnType, ConnRecord, Servers
<1>8. \A d \in Conns : Out(d)' = Out(d) /\ conns'[d].spoilt = conns[d].spoilt
                       /\ conns'[d].server = conns[d].server
  BY <1>4
<1>9. Messaging'
  <2>1. ASSUME NEW d \in Conns PROVE MovesUp(d) /\ Shrinks(d)
    <3>1. Out(d)' = Out(d) /\ \A j \in DOMAIN Out(d) : j \in Nat /\ j + 0 = j
      BY <1>8, ConnFacts
    <3>2. Shrinks(d)
      BY <3>1 DEF Shrinks
    <3>3. CASE d = c
      BY <1>2, <1>4, <1>6, <3>2, <3>3 DEF MovesUp
    <3>4. CASE d # c
      <4>1. In(d)' = In(d) /\ \A j \in DOMAIN In(d) : j \in Nat /\ j + 0 = j
        BY <1>4, <3>4, ConnFacts
      <4> QED BY <3>2, <4>1 DEF MovesUp
    <3> QED BY <3>3, <3>4
  <2>2. calls' \in Nat /\ calls' >= calls /\ opened' \in Nat /\ opened' >= opened
    BY <1>1, RpcAssumption DEF TypeOK
  <2>3. \A d \in Conns : d > opened' => d # c
    BY <1>1, <1>5 DEF Unopened, Messaging
  <2>4. StaysFresh
    BY <1>1 DEF StaysFresh
  <2> QED BY <1>1, <1>4, <2>1, <2>2, <2>3, <2>4, MessagingLess
<1>10. Linked' /\ Clean' /\ Unused'
  <2>1. \A d \in Conns : UsedOrSame(d)
    BY <1>4, <1>5, ConnFacts DEF UsedOrSame
  <2> QED BY <1>1, <2>1, UnusedKeep DEF Linked, Clean
<1>11. TailsSpoilt'
  BY <1>8 DEF TailsSpoilt
<1>12. OwnOnceOrNothing'
  BY <1>1, <1>8, NothingReturned DEF OwnOnceOrNothing, AtMostOnce, StaysSpoilt
<1>13. OwnIsLast'
  <2> SUFFICES ASSUME call.pc = "read" PROVE OwnIsLast'
    BY <1>1 DEF OwnIsLast
  <2>1. cur \in Conns
    BY CurFacts DEF Linked
  <2>2. CASE cur = c
    BY <1>1, <1>4, <1>5, <2>2 DEF OwnIsLast
  <2>3. CASE cur # c
    <3>1. In(cur)' = In(cur) /\ Out(cur)' = Out(cur) /\ conns'[cur] = conns[cur]
      BY <1>1, <1>4, <2>1, <2>3 DEF In, Out
    <3> QED BY <1>1, <3>1 DEF OwnIsLast
  <2> QED BY <2>2, <2>3
<1>14. SafeMeansClean'
  <2> SUFFICES ASSUME script, safe, call.pc # "read"
               PROVE  cur # 0 /\ (Lingering(cur)' => conns'[cur].spoilt)
    BY <1>1 DEF SafeMeansClean, Lingering
  <2>1. cur \in Conns /\ cur # 0 /\ (Lingering(cur) => conns[cur].spoilt)
    BY CurFacts DEF Clean, SafeMeansClean
  <2>2. CASE cur = c
    BY <1>4, <1>5, <2>1, <2>2
  <2>3. CASE cur # c
    <3>1. conns'[cur] = conns[cur]
      BY <1>4, <2>1, <2>3
    <3> QED BY <1>1, <2>1, <3>1 DEF Lingering
  <2> QED BY <2>2, <2>3
<1> QED BY <1>7, <1>9, <1>10, <1>11, <1>12, <1>13, <1>14

(* A connection is opened, or the attempt fails. *)
LEMMA OpenStep ==
  ASSUME IInv, Opened, UNCHANGED <<calls, served>>, script' \in BOOLEAN, call' \in CallType,
         call'.pc # "read",
         call'.pc # "idle" => script' /\ call.pc = "write" /\ call'.id = call.id,
         result' \in [Calls -> Results], OwnOnceOrNothing'
  PROVE  IInv'
<1> USE DEF IInv
<1>1. TypeOK'
  BY DEF TypeOK, Opened, ConnType, ConnRecord, Servers, CallType, Results
<1>2. Messaging'
  <2>1. StaysFresh
    BY DEF StaysFresh
  <2> QED BY <2>1, OpenMessaging
<1>3. Clean' /\ SafeMeansClean'
  BY OpenClean
<1>4. TailsSpoilt'
  BY OpenTails
<1>5. Linked'
  BY DEF Linked, Opened
<1>6. OwnIsLast' /\ Unused'
  BY OpenUnused DEF OwnIsLast
<1> QED BY <1>1, <1>2, <1>3, <1>4, <1>5, <1>6

(* Nothing comes onto the connections or leaves them. *)
SameBoxes ==
  /\ conns' \in [Conns -> ConnType]
  /\ \A d \in Conns : /\ In(d)' = In(d) /\ Out(d)' = Out(d)
                      /\ conns'[d].server = conns[d].server /\ conns'[d].spoilt = conns[d].spoilt
                      /\ d > opened => conns'[d] = conns[d]
                      /\ conns[d].used => conns'[d].used

LEMMA Unmoved ==
  ASSUME TypeOK, UNCHANGED conns
  PROVE  SameBoxes
<1>1. conns \in [Conns -> ConnType]
  BY DEF TypeOK, ConnType, ConnRecord, Servers
<1>2. \A d \in Conns : conns[d].used \in BOOLEAN
  BY ConnFacts
<1> QED BY <1>1, <1>2 DEF SameBoxes, In, Out

LEMMA QuietStep ==
  ASSUME IInv, SameBoxes, UNCHANGED <<opened, served>>, cur' \in {0, cur}, script' \in BOOLEAN,
         sock' \in BOOLEAN, safe' \in BOOLEAN, call' \in CallType, calls' \in 0 .. MaxCalls,
         calls' >= calls, call'.pc # "read", StaysFresh, Linked', Clean', SafeMeansClean',
         result' \in [Calls -> Results], OwnOnceOrNothing'
  PROVE  IInv'
<1> USE DEF IInv
<1>1. TypeOK'
  <2>1. cur' \in 0 .. opened'
    BY RpcAssumption DEF TypeOK
  <2> QED BY <2>1 DEF TypeOK, SameBoxes, ConnType, ConnRecord, Servers, CallType, Results
<1>2. Messaging'
  <2>1. \A d \in Conns : In(d)' = In(d) /\ Out(d)' = Out(d) /\ (d > opened => conns'[d] = conns[d])
    BY DEF SameBoxes
  <2>2. ASSUME NEW d \in Conns PROVE Shrinks(d)
    <3>1. Out(d)' = Out(d) /\ \A i \in DOMAIN Out(d) : i \in Nat /\ i + 0 = i
      BY <2>1, ConnFacts
    <3> QED BY <3>1 DEF Shrinks
  <2>3. calls' \in Nat /\ opened' \in Nat /\ opened' >= opened
    BY RpcAssumption DEF TypeOK
  <2> QED BY <2>1, <2>2, <2>3, MessagingKeep
<1>3. TailsSpoilt'
  BY DEF TailsSpoilt, SameBoxes
<1>4. OwnIsLast' /\ Unused'
  <2>1. \A d \in Conns : UsedOrSame(d)
    BY DEF SameBoxes, UsedOrSame
  <2> QED BY <2>1, UnusedKeep DEF OwnIsLast
<1> QED BY <1>1, <1>2, <1>3, <1>4

LEMMA BreakStep ==
  ASSUME IInv, NEW c \in Conns, Break(c)
  PROVE  IInv'
<1> USE DEF IInv
<1>1. /\ c = cur
      /\ UNCHANGED <<opened, cur, script, sock, safe, call, calls, result, served>>
  BY DEF Break
<1>2. /\ conns' \in [Conns -> ConnType]
      /\ In(c)' = In(c) /\ Out(c)' = Out(c) /\ conns'[c].spoilt = conns[c].spoilt
      /\ conns'[c].server = "down" /\ (conns[c].used => conns'[c].used)
      /\ \A d \in Conns : d # c => conns'[d] = conns[d]
  <2>1. Broken(c)
    BY BreakEffect
  <2> QED BY <2>1 DEF Broken, Becomes, Puts, In, Out
<1>3. \A d \in Conns : In(d)' = In(d) /\ Out(d)' = Out(d) /\ conns'[d].spoilt = conns[d].spoilt
  BY <1>2 DEF In, Out
<1>4. TypeOK'
  BY <1>1, <1>2 DEF TypeOK, ConnType, ConnRecord, Servers
<1>5. Messaging'
  <2>1. ASSUME NEW d \in Conns PROVE In(d)' = In(d) /\ Shrinks(d)
    <3>1. Out(d)' = Out(d) /\ \A i \in DOMAIN Out(d) : i \in Nat /\ i + 0 = i
      BY <1>3, ConnFacts
    <3> QED BY <1>3, <3>1 DEF Shrinks
  <2>2. calls' \in Nat /\ calls' >= calls /\ opened' \in Nat /\ opened' >= opened
        /\ cur <= opened /\ cur \in Nat /\ opened \in Nat
    BY <1>1, RpcAssumption DEF TypeOK
  <2>3. \A d \in Conns : d > opened' => /\ Out(d)' = Out(d)
                                         /\ conns'[d].server = conns[d].server
                                         /\ conns'[d].used = conns[d].used
                                         /\ conns'[d].spoilt = conns[d].spoilt
    BY <1>1, <1>2, <1>3, <2>2
  <2>4. StaysFresh
    BY <1>1 DEF StaysFresh
  <2> QED BY <1>1, <2>1, <2>2, <2>3, <2>4, MessagingKeep
<1>6. Linked' /\ Clean' /\ Unused'
  <2>1. \A d \in Conns : conns[d].used \in BOOLEAN
    BY ConnFacts
  <2>2. \A d \in Conns : UsedOrSame(d)
    BY <1>2, <1>3, <2>1 DEF UsedOrSame
  <2> QED BY <1>1, <2>2, UnusedKeep DEF Linked, Clean
<1>7. TailsSpoilt'
  <2>1. \A d \in Conns : conns'[d].server = "astray" => conns[d].server = "astray"
    BY <1>2
  <2> QED BY <1>3, <2>1 DEF TailsSpoilt
<1>8. conns'[cur].inbox = conns[cur].inbox /\ conns'[cur].outbox = conns[cur].outbox
  BY <1>1, <1>2 DEF In, Out
<1>9. OwnIsLast'
  <2>1. conns'[cur].spoilt = conns[cur].spoilt
    BY <1>1, <1>2
  <2> QED BY <1>1, <1>8, <2>1 DEF OwnIsLast, In, Out
<1>10. SafeMeansClean'
  BY <1>1, <1>2, <1>8 DEF SafeMeansClean, Lingering
<1>11. OwnOnceOrNothing'
  BY <1>1, <1>3, NothingReturned DEF OwnOnceOrNothing, AtMostOnce, StaysSpoilt
<1> QED BY <1>4, <1>5, <1>6, <1>7, <1>9, <1>10, <1>11

LEMMA NoCallType == NoCall \in CallType /\ NoCall.pc = "idle"
BY RpcAssumption DEF NoCall, CallType

LEMMA StartStep ==
  ASSUME IInv, Start
  PROVE  IInv'
<1>1. script' = TRUE /\ UNCHANGED <<call, calls, result, served>> /\ call.pc = "idle"
  BY DEF Start, IInv, Linked
<1>2. call' \in CallType /\ result' \in [Calls -> Results]
  BY <1>1 DEF IInv, TypeOK, CallType, Results
<1>3. CASE /\ Reusable /\ Reuse
           /\ \/ safe' = FALSE /\ UNCHANGED conns
              \/ /\ ~conns[cur].used /\ safe' \in BOOLEAN
                 /\ conns' = [conns EXCEPT ![cur].used = safe']
  <2>0. sock' = TRUE /\ cur # 0 /\ UNCHANGED <<cur, opened>> /\ safe' \in BOOLEAN
    BY <1>3 DEF Reusable, Reuse
  <2>1. PICK c \in Conns : c = cur /\ c <= opened
    <3>1. cur \in 0 .. opened /\ opened \in 0 .. MaxConns /\ MaxConns \in Nat
      BY RpcAssumption DEF IInv, TypeOK
    <3> QED BY <2>0, <3>1 DEF Conns
  <2>2. SameBoxes /\ (~conns[cur].used \/ safe' = FALSE)
    <3>1. CASE safe' = FALSE /\ UNCHANGED conns
      BY <3>1, Unmoved DEF IInv
    <3>2. CASE /\ ~conns[cur].used
               /\ conns' = [conns EXCEPT ![cur].used = safe']
      <4>1. PutsUsed(conns, conns', c, safe')
        BY <2>1, <3>2 DEF PutsUsed
      <4>2. conns \in [Conns -> ConnRecord(Seq(Messages), Seq(Answers))]
        BY ConnFacts DEF ConnType, IInv
      <4>3. PICK b \in BOOLEAN : b = safe'
        BY <2>0
      <4>4. /\ conns' \in [Conns -> ConnRecord(Seq(Messages), Seq(Answers))]
            /\ Puts(conns, conns', c, conns[c].inbox, conns[c].outbox, conns[c].server, conns[c].spoilt)
        BY <2>1, <3>2, <4>1, <4>2, <4>3, PutUsed
      <4>5. /\ conns' \in [Conns -> ConnType]
            /\ In(c)' = In(c) /\ Out(c)' = Out(c) /\ conns'[c].server = conns[c].server
            /\ conns'[c].spoilt = conns[c].spoilt
            /\ \A d \in Conns : d # c => conns'[d] = conns[d]
        BY <4>4 DEF Puts, ConnType, In, Out
      <4>6. \A d \in Conns : d > opened => d # c
        BY <2>1, RpcAssumption DEF IInv, TypeOK, Conns
      <4>7. \A d \in Conns : d # c => In(d)' = In(d) /\ Out(d)' = Out(d)
        BY <4>5 DEF In, Out
      <4>8. \A d \in Conns : conns[d].used \in BOOLEAN
        BY ConnFacts DEF IInv
      <4> QED BY <2>1, <3>2, <4>5, <4>6, <4>7, <4>8 DEF SameBoxes
    <3> QED BY <1>3, <3>1, <3>2
  <2>3. StaysFresh
    BY <1>1 DEF StaysFresh
  <2>4. OwnOnceOrNothing'
    <3>1. StaysSpoilt
      BY <2>2 DEF SameBoxes, StaysSpoilt
    <3> QED BY <1>1, <3>1, NothingReturned DEF IInv, OwnOnceOrNothing, AtMostOnce
  <2>5. SafeMeansClean'
    <3> SUFFICES ASSUME safe' PROVE ~Lingering(cur)'
      BY <2>0 DEF SafeMeansClean
    <3>1. In(c) = <<>> /\ Out(c) = <<>>
      BY <2>1, <2>2 DEF IInv, Unused
    <3>2. In(c)' = <<>> /\ Out(c)' = <<>> /\ DOMAIN In(c)' = {}
      BY <2>2, <3>1 DEF SameBoxes
    <3> QED BY <2>0, <2>1, <3>2 DEF Lingering, In, Out
  <2>6. Linked' /\ Clean'
    BY <1>1, <2>0 DEF Linked, Clean
  <2>7. calls' \in 0 .. MaxCalls /\ calls' >= calls
    BY <1>1, RpcAssumption DEF IInv, TypeOK
  <2> QED BY <1>1, <1>2, <2>0, <2>2, <2>3, <2>4, <2>5, <2>6, <2>7, QuietStep
<1>4. ASSUME NEW how \in Outcomes, Open(how) PROVE IInv'
  <2>1. Opened
    BY <1>4, OpenEffect DEF IInv, Messaging
  <2>2. OwnOnceOrNothing'
    BY <1>1, <2>1, NothingReturned DEF IInv, OwnOnceOrNothing, AtMostOnce, StaysSpoilt, Opened
  <2> QED BY <1>1, <1>2, <2>1, <2>2, OpenStep
<1> QED BY <1>3, <1>4 DEF Start

LEMMA EndStep ==
  ASSUME IInv, NEW p \in BOOLEAN, End(p)
  PROVE  IInv'
<1>1. /\ script' = FALSE /\ sock' = FALSE /\ call' = NoCall /\ cur' \in {0, cur}
      /\ UNCHANGED <<conns, opened, safe, calls, result, served>> /\ SameBoxes
  BY Unmoved DEF End, Stop, IInv
<1>2. StaysFresh
  BY <1>1, NoCallType DEF StaysFresh
<1>3. OwnOnceOrNothing'
  BY <1>1 DEF IInv, OwnOnceOrNothing, OwnOrNothing, AtMostOnce
<1>4. Linked' /\ Clean' /\ SafeMeansClean'
  BY <1>1, NoCallType DEF Linked, Clean, SafeMeansClean
<1>5. calls' \in 0 .. MaxCalls /\ calls' >= calls /\ safe' \in BOOLEAN /\ result' \in [Calls -> Results]
  BY <1>1, RpcAssumption DEF IInv, TypeOK, Results
<1> QED BY <1>1, <1>2, <1>3, <1>4, <1>5, NoCallType, QuietStep

(* Some of what there is is read: all of it, or the connection is spoilt. *)
LEMMA ReadStep ==
  ASSUME IInv, NEW c \in Conns, c <= opened, NEW o, NEW t \in BOOLEAN, ReadUpTo(c, o, t),
         Out(c) # <<>>, t \/ o = <<>>,
         UNCHANGED <<opened, cur, calls, served>>, script' \in BOOLEAN, sock' \in BOOLEAN,
         safe' \in BOOLEAN, call' \in CallType, call'.pc # "read", StaysFresh,
         result' \in [Calls -> Results], Linked', Clean', SafeMeansClean', OwnOnceOrNothing'
  PROVE  IInv'
<1> USE DEF IInv
<1>1. /\ conns' \in [Conns -> ConnType]
      /\ In(c)' = In(c) /\ Out(c)' = o /\ conns'[c].server = conns[c].server
      /\ conns'[c].spoilt = t /\ (conns[c].spoilt => t) /\ (conns[c].used => conns'[c].used)
      /\ \A d \in Conns : d # c => In(d)' = In(d) /\ Out(d)' = Out(d) /\ conns'[d] = conns[d]
  BY BecomesFacts DEF ReadUpTo
<1>2. PICK q \in Seq(Answers) : q = Out(c)
  BY ConnFacts
<1>3. /\ o \in Seq(Answers) /\ DOMAIN o = 1 .. Len(o) /\ Len(o) \in Nat
      /\ Len(q) \in Nat /\ DOMAIN q = 1 .. Len(q)
  BY SeqFacts DEF ReadUpTo
<1>4. PICK z \in 0 .. Len(q) : /\ Len(o) = Len(q) - z
                              /\ \A i \in 1 .. Len(o) : o[i].id = q[i + z].id
  BY <1>2 DEF ReadUpTo, EndOf
<1>5. TypeOK'
  BY <1>1 DEF TypeOK, ConnType, ConnRecord, Servers, CallType, Results
<1>6. Messaging'
  <2>1. ASSUME NEW d \in Conns PROVE In(d)' = In(d) /\ Shrinks(d)
    <3>1. CASE d = c
      <4>1. \A i \in 1 .. Len(o) : i \in Nat /\ i + z \in 1 .. Len(q) /\ o[i].id = q[i + z].id
        BY <1>3, <1>4
      <4>2. \A i \in DOMAIN Out(d)' :
              i \in Nat /\ i + z \in DOMAIN Out(d) /\ Out(d)'[i].id = Out(d)[i + z].id
        BY <1>1, <1>2, <1>3, <3>1, <4>1
      <4>3. z \in Nat
        BY <1>3
      <4> QED BY <1>1, <3>1, <4>2, <4>3 DEF Shrinks
    <3>2. CASE d # c
      <4>1. Out(d)' = Out(d) /\ \A i \in DOMAIN Out(d) : i \in Nat /\ i + 0 = i
        BY <1>1, <3>2, ConnFacts
      <4> QED BY <1>1, <3>2, <4>1 DEF Shrinks
    <3> QED BY <3>1, <3>2
  <2>2. calls' \in Nat /\ calls' >= calls /\ opened' \in Nat /\ opened' >= opened
        /\ \A d \in Conns : d > opened' => d # c
    BY RpcAssumption DEF TypeOK, Conns
  <2> QED BY <1>1, <2>1, <2>2, MessagingKeep
<1>7. Unused'
  <2>1. conns[c].used
    BY DEF Unused
  <2>2. \A d \in Conns : UsedOrSame(d)
    <3>1. \A d \in Conns : conns[d].used \in BOOLEAN
      BY ConnFacts
    <3> QED BY <1>1, <2>1, <3>1 DEF UsedOrSame
  <2> QED BY <2>2, UnusedKeep
<1>8. TailsSpoilt'
  <2>1. \A i \in DOMAIN Out(c)' : t
    <3>1. o = <<>> => DOMAIN o = {}
      OBVIOUS
    <3> QED BY <1>1, <3>1
  <2>2. conns'[c].server = "astray" => t
    BY <1>1 DEF TailsSpoilt
  <2> QED BY <1>1, <2>1, <2>2 DEF TailsSpoilt
<1>9. OwnIsLast'
  BY DEF OwnIsLast
<1> QED BY <1>5, <1>6, <1>7, <1>8, <1>9

LEMMA ReadSpoils ==
  ASSUME NEW c \in Conns, NEW o, NEW t \in BOOLEAN, ReadUpTo(c, o, t)
  PROVE  StaysSpoilt /\ conns'[c].spoilt = t
<1>1. /\ conns'[c].spoilt = t /\ (conns[c].spoilt => t)
      /\ \A d \in Conns : d # c => conns'[d] = conns[d]
  BY BecomesFacts DEF ReadUpTo
<1> QED BY <1>1 DEF StaysSpoilt

(* An answer is left half read. *)
LEMMA CutEffect ==
  ASSUME TypeOK, NEW c \in Conns, NEW o \in Remains(Out(c)),
         PutsSpoilt(conns, conns', c, o, TRUE)
  PROVE  ReadUpTo(c, o, TRUE)
<1>1. PICK q \in Seq(Answers) : q = Out(c)
  BY ConnFacts
<1>2. o \in Seq(Answers) /\ EndOf(o, Out(c))
  BY <1>1, RemainsFacts
<1> QED BY <1>2, ReadEffect

LEMMA DieStep ==
  ASSUME IInv, NEW reading \in BOOLEAN, Die(reading)
  PROVE  IInv'
<1>1. /\ script' = FALSE /\ sock' = FALSE /\ call' = NoCall
      /\ UNCHANGED <<cur, opened, safe, calls, result, served>>
  BY DEF Die, Stop
<1>2. StaysFresh
  BY <1>1, NoCallType DEF StaysFresh
<1>3. Linked' /\ Clean' /\ SafeMeansClean'
  BY <1>1, NoCallType DEF Linked, Clean, SafeMeansClean
<1>4. calls' \in 0 .. MaxCalls /\ calls' >= calls /\ safe' \in BOOLEAN
      /\ result' \in [Calls -> Results]
  BY <1>1, RpcAssumption DEF IInv, TypeOK, Results
<1>5. CASE ~reading
  <2>1. UNCHANGED conns /\ SameBoxes
    BY <1>5, Unmoved DEF Die, IInv
  <2>2. OwnOnceOrNothing'
    BY <1>1, <2>1 DEF IInv, OwnOnceOrNothing, OwnOrNothing, AtMostOnce
  <2> QED BY <1>1, <1>2, <1>3, <1>4, <2>1, <2>2, NoCallType, QuietStep
<1>6. CASE reading
  <2>1. PICK c \in Conns : c = cur /\ c <= opened
    BY <1>6, CurFacts DEF Die, IInv, Linked
  <2>2. Out(c) # <<>> /\ \E o \in Remains(Out(c)) : PutsSpoilt(conns, conns', c, o, TRUE)
    BY <1>6, <2>1 DEF Die, Out, PutsSpoilt
  <2>3. PICK o : ReadUpTo(c, o, TRUE)
    BY <2>2, CutEffect DEF IInv
  <2>4. OwnOnceOrNothing'
    BY <1>1, <2>3, ReadSpoils, NothingReturned DEF IInv, OwnOnceOrNothing, AtMostOnce
  <2> QED BY <1>1, <1>2, <1>3, <1>4, <2>1, <2>2, <2>3, <2>4, NoCallType, ReadStep
<1> QED BY <1>5, <1>6

LEMMA HalfReadStep ==
  ASSUME IInv, HalfRead
  PROVE  IInv'
<1>1. /\ sock /\ call.pc # "read"
      /\ UNCHANGED <<opened, cur, script, sock, safe, call, calls, result, served>>
  BY DEF HalfRead
<1>2. PICK c \in Conns : c = cur /\ c <= opened
  BY <1>1, CurFacts
<1>3. Out(c) # <<>> /\ \E o \in Remains(Out(c)) : PutsSpoilt(conns, conns', c, o, TRUE)
  <2>1. Out(c) = <<[id |-> ConnEx, left |-> "all"]>>
    BY <1>2 DEF HalfRead, Out
  <2>2. <<[id |-> ConnEx, left |-> "all"]>> # <<>>
    OBVIOUS
  <2>3. \E o \in Remains(Out(c)) : PutsSpoilt(conns, conns', c, o, TRUE)
    BY <1>2 DEF HalfRead, Out, PutsSpoilt
  <2> QED BY <2>1, <2>2, <2>3
<1>4. PICK o : ReadUpTo(c, o, TRUE)
  BY <1>3, CutEffect DEF IInv
<1>5. OwnOnceOrNothing'
  BY <1>1, <1>4, ReadSpoils, NothingReturned DEF IInv, OwnOnceOrNothing, AtMostOnce
<1>6. Linked' /\ Clean' /\ StaysFresh
  BY <1>1 DEF IInv, Linked, Clean, StaysFresh
<1>7. SafeMeansClean'
  <2>1. conns'[cur].spoilt
    BY <1>2, <1>4, ReadSpoils
  <2> QED BY <1>1, <1>2, <2>1 DEF SafeMeansClean, IInv, Linked
<1>8. /\ script' \in BOOLEAN /\ sock' \in BOOLEAN /\ safe' \in BOOLEAN /\ call' \in CallType
      /\ result' \in [Calls -> Results]
  BY <1>1 DEF IInv, TypeOK, CallType, Results
<1> QED BY <1>1, <1>2, <1>3, <1>4, <1>5, <1>6, <1>7, <1>8, ReadStep

LEMMA CallStart ==
  ASSUME IInv, NEW skip \in BOOLEAN, Call(skip)
  PROVE  IInv'
<1>1. /\ script /\ call.pc = "idle" /\ calls' = calls + 1
      /\ UNCHANGED <<conns, opened, cur, script, sock, safe, served>>
  BY DEF Call
<1>2. calls' \in 0 .. MaxCalls /\ calls' \in Calls /\ calls' > calls /\ calls \in Nat /\ calls' # 0
  BY <1>1, RpcAssumption DEF IInv, TypeOK, Call, Calls
<1>2a. script' \in BOOLEAN /\ sock' \in BOOLEAN /\ safe' \in BOOLEAN /\ cur' \in {0, cur} /\ calls' >= calls
  BY <1>1, <1>2 DEF IInv, TypeOK
<1>2b. SameBoxes
  BY <1>1, Unmoved DEF IInv
<1>3. CASE sock
  <2>1. call' = [pc |-> "write", id |-> calls', skip |-> skip /\ safe, retries_left |-> Retries]
        /\ UNCHANGED result
    BY <1>3 DEF Call
  <2>2. call' \in CallType /\ call'.pc = "write" /\ call'.id = calls'
    BY <1>2, <2>1, RpcAssumption DEF CallType, IInv, TypeOK
  <2>3. StaysFresh
    BY <1>2, <2>2, RpcAssumption DEF StaysFresh, Calls
  <2>4. OwnOnceOrNothing' /\ result' \in [Calls -> Results]
    BY <1>1, <2>1 DEF IInv, OwnOnceOrNothing, OwnOrNothing, AtMostOnce, TypeOK, Results
  <2>5. Linked' /\ Clean' /\ SafeMeansClean'
    BY <1>1, <1>2, <2>2 DEF IInv, Linked, Clean, SafeMeansClean, Lingering
  <2> QED BY <1>1, <1>2, <1>2a, <1>2b, <2>2, <2>3, <2>4, <2>5, QuietStep
<1>4. CASE ~sock
  <2>1. UNCHANGED call /\ result' = [result EXCEPT ![calls'] = "false"]
    BY <1>4 DEF Call
  <2>2. call' \in CallType /\ call'.pc = "idle"
    BY <1>1, <2>1 DEF CallType, IInv, TypeOK
  <2>3. StaysFresh
    BY <1>2, <2>2, RpcAssumption DEF StaysFresh, Calls
  <2>4. result' \in [Calls -> Results] /\ \A i \in Calls : result'[i] = result[i] \/ result'[i] = "false"
    BY <1>2, <2>1 DEF IInv, TypeOK, Results
  <2>5. OwnOnceOrNothing'
    BY <1>1, <2>4 DEF IInv, OwnOnceOrNothing, OwnOrNothing, AtMostOnce
  <2>6. Linked' /\ Clean' /\ SafeMeansClean'
    BY <1>1, <2>1 DEF IInv, Linked, Clean, SafeMeansClean, Lingering
  <2> QED BY <1>1, <1>2, <1>2a, <1>2b, <2>2, <2>3, <2>4, <2>5, <2>6, QuietStep
<1> QED BY <1>3, <1>4

LEMMA WriteStep ==
  ASSUME IInv, Write
  PROVE  IInv'
<1>1. /\ call.pc = "write" /\ sock
      /\ UNCHANGED <<opened, cur, script, sock, safe, calls, served>>
  BY DEF Write
<1>2. PICK c \in Conns : c = cur /\ c <= opened
  BY <1>1, CurFacts
<1>3. call.id \in Calls /\ call.id <= calls /\ call.id = calls /\ script /\ call.id # ConnEx
  BY <1>1, CallFacts
<1>4. PICK m \in Messages : m = [id |-> call.id, silent |-> call.skip]
  BY DEF IInv, TypeOK, Messages
<1>5. PutsInbox(conns, conns', c, Append(In(c), m), TRUE)
  BY <1>2, <1>4 DEF Write, PutsInbox, In
<1>6. Sent(c, m) /\ conns'[c].used = TRUE
  BY <1>5, SendEffect DEF IInv
<1>7. /\ conns' \in [Conns -> ConnType]
      /\ In(c)' = Append(In(c), m) /\ conns'[c].spoilt = conns[c].spoilt
      /\ conns'[c].server = conns[c].server
      /\ \A d \in Conns : d # c => conns'[d] = conns[d]
      /\ \A d \in Conns : Out(d)' = Out(d)
  BY <1>6 DEF Sent, Becomes, Puts, In, Out
<1>8. StaysSpoilt
  <2>1. ASSUME NEW d \in Conns, conns[d].spoilt PROVE conns'[d].spoilt
    <3>1. CASE d = c
      BY <1>7, <2>1, <3>1
    <3>2. CASE d # c
      BY <1>7, <2>1, <3>2
    <3> QED BY <3>1, <3>2
  <2> QED BY <2>1 DEF StaysSpoilt
<1>9. PICK q \in Seq(Messages) : q = In(c)
  BY ConnFacts DEF IInv
<1>10. /\ Append(q, m) # <<>> /\ Len(Append(q, m)) = Len(q) + 1
       /\ DOMAIN Append(q, m) = DOMAIN q \cup {Len(q) + 1}
       /\ \A i \in DOMAIN q : Append(q, m)[i] = q[i]
       /\ Append(q, m)[Len(q) + 1] = m
  BY AppendFacts
<1>11. TailsSpoilt' /\ Unused'
  <2>1. \A d \in Conns : conns'[d].server = conns[d].server
    BY <1>7
  <2>2. TailsSpoilt'
    BY <1>7, <1>8, <2>1 DEF IInv, TailsSpoilt, StaysSpoilt
  <2>3. \A d \in Conns : d # c => In(d)' = In(d)
    BY <1>7 DEF In
  <2>4. \A d \in Conns : conns[d].used \in BOOLEAN
    BY ConnFacts DEF IInv
  <2>5. \A d \in Conns : UsedOrSame(d)
    BY <1>6, <1>7, <2>3, <2>4 DEF UsedOrSame
  <2> QED BY <2>2, <2>5, UnusedKeep DEF IInv
<1>12. ASSUME call'.pc # "write", call' \in CallType, result' \in [Calls -> Results]
       PROVE  TypeOK' /\ Messaging'
  <2>1. TypeOK'
    BY <1>1, <1>7, <1>12 DEF IInv, TypeOK, ConnType, ConnRecord, Servers, CallType, Results
  <2>2. StaysFresh
    BY <1>1, <1>12 DEF StaysFresh
  <2>3. /\ TypeOK /\ Messaging /\ opened' \in Nat /\ opened' >= opened /\ c <= opened'
        /\ m.id = call.id
    <3>1. opened \in Nat
      BY RpcAssumption DEF IInv, TypeOK
    <3>2. m.id = call.id
      BY <1>4
    <3>3. TypeOK /\ Messaging
      BY DEF IInv
    <3> QED BY <1>1, <1>2, <3>1, <3>2, <3>3
  <2>4. Messaging'
    BY <1>1, <1>3, <1>6, <1>12, <2>2, <2>3, MessagingSend
  <2> QED BY <2>1, <2>4
<1>13. CASE call.skip
  <2>1. Return("skipped")
    BY <1>13 DEF Write
  <2>2. OwnOnceOrNothing' /\ result' \in [Calls -> Results] /\ call' = NoCall
    BY <1>1, <1>3, <1>8, <2>1, Returns DEF IInv, Results
  <2>3. TypeOK' /\ Messaging'
    BY <1>12, <2>2, NoCallType
  <2>4. Linked' /\ Clean' /\ OwnIsLast'
    BY <1>1, <2>2, NoCallType DEF IInv, Linked, Clean, OwnIsLast
  <2>5. SafeMeansClean'
    <3> SUFFICES ASSUME safe, Lingering(cur)' PROVE conns'[cur].spoilt
      BY <1>1, CurFacts DEF SafeMeansClean, IInv, Linked
    <3>1. Lingering(c) => conns[c].spoilt
      BY <1>1, <1>2, <1>3 DEF IInv, SafeMeansClean
    <3>2. CASE Out(c)' # <<>>
      BY <1>2, <1>7, <1>8, <3>1, <3>2 DEF Lingering, Out, StaysSpoilt
    <3>3. ASSUME NEW i \in DOMAIN In(c)', ~In(c)'[i].silent PROVE Lingering(c)
      <4>1. m.silent
        BY <1>4, <1>13
      <4>2. i \in DOMAIN q /\ In(c)'[i] = q[i]
        BY <1>7, <1>9, <1>10, <3>3, <4>1
      <4> QED BY <1>9, <3>3, <4>2 DEF Lingering, In
    <3> QED BY <1>1, <1>2, <1>8, <3>1, <3>2, <3>3 DEF Lingering, In, Out, StaysSpoilt
  <2> QED BY <1>11, <2>2, <2>3, <2>4, <2>5 DEF IInv
<1>14. CASE ~call.skip
  <2>1. call' = [call EXCEPT !.pc = "read"] /\ UNCHANGED result
    BY <1>14 DEF Write
  <2>2. call' \in CallType /\ call'.pc = "read" /\ call'.id = call.id
    BY <2>1 DEF IInv, TypeOK, CallType
  <2>3. TypeOK' /\ Messaging'
    BY <1>12, <2>1, <2>2 DEF IInv, TypeOK, Results
  <2>4. Linked' /\ Clean' /\ SafeMeansClean'
    BY <1>1, <2>2 DEF IInv, Linked, Clean, SafeMeansClean
  <2>5. OwnIsLast'
    <3>1. m = [id |-> call'.id, silent |-> FALSE]
      BY <1>4, <1>14, <2>2 DEF IInv, TypeOK
    <3>2. In(c)' # <<>> /\ In(c)'[Len(In(c)')] = m
      BY <1>7, <1>9, <1>10
    <3> QED BY <1>1, <1>2, <3>1, <3>2 DEF OwnIsLast, In
  <2>6. OwnOnceOrNothing'
    BY <1>1, <1>8, <2>1, NothingReturned DEF IInv, OwnOnceOrNothing, AtMostOnce
  <2> QED BY <1>11, <2>3, <2>4, <2>5, <2>6 DEF IInv
<1> QED BY <1>13, <1>14

LEMMA WriteFailsStep ==
  ASSUME IInv, WriteFails
  PROVE  IInv'
<1>1. /\ call.pc = "write" /\ UNCHANGED <<script, calls, served>>
      /\ \E how \in Outcomes : Open(how)
  BY DEF WriteFails
<1>2. Opened /\ script' \in BOOLEAN
  BY <1>1, OpenEffect DEF IInv, Messaging, TypeOK
<1>3. StaysSpoilt
  BY <1>2 DEF StaysSpoilt, Opened
<1>4. call.id \in Calls /\ script
  BY <1>1, CallFacts
<1>5. CASE Return("false")
  <2>1. OwnOnceOrNothing' /\ result' \in [Calls -> Results] /\ call' = NoCall
    BY <1>1, <1>3, <1>4, <1>5, Returns DEF IInv, Results
  <2> QED BY <1>1, <1>2, <2>1, NoCallType, OpenStep
<1>6. CASE call.retries_left # 0 /\ call' = [call EXCEPT !.retries_left = @ - 1] /\ UNCHANGED result
  <2>1. call' \in CallType /\ call'.pc = call.pc /\ call'.id = call.id
    <3>1. PICK k \in CallType : k = call
      BY DEF IInv, TypeOK, CallType
    <3>2. PICK n \in 0 .. Retries : n = k.retries_left - 1
      BY <1>6, <3>1, RpcAssumption DEF CallType
    <3>3. call' = [k EXCEPT !.retries_left = n]
      BY <1>6, <3>1, <3>2
    <3>4. [k EXCEPT !.retries_left = n] \in CallType
      BY DEF CallType
    <3> QED BY <3>1, <3>3, <3>4 DEF CallType
  <2>2. OwnOnceOrNothing' /\ result' \in [Calls -> Results]
    BY <1>1, <1>3, <1>6, NothingReturned DEF IInv, OwnOnceOrNothing, AtMostOnce, TypeOK, Results
  <2> QED BY <1>1, <1>2, <1>4, <2>1, <2>2, OpenStep
<1> QED BY <1>5, <1>6 DEF WriteFails

LEMMA TailIsSpoilt ==
  ASSUME IInv, call.pc = "read", conns[cur].outbox # <<>>, NextAnswer.left # "all"
  PROVE  cur \in Conns /\ conns[cur].spoilt
<1>1. PICK c \in Conns : c = cur
  BY CurFacts DEF IInv, Linked
<1>2. PICK q \in Seq(Answers) : q = Out(c) /\ q # <<>>
  BY <1>1, ConnFacts DEF IInv, Out
<1>3. 1 \in DOMAIN q /\ Head(q) = q[1]
  BY <1>2, TailFacts
<1>4. 1 \in DOMAIN Out(c) /\ Out(c)[1].left # "all"
  BY <1>1, <1>2, <1>3 DEF NextAnswer, Out
<1> QED BY <1>1, <1>4 DEF IInv, TailsSpoilt

LEMMA ReadFailsStep ==
  ASSUME IInv, ReadFails \/ \E more \in BOOLEAN : ReadTail(more) /\ more
  PROVE  IInv'
<1>1. /\ call.pc = "read" /\ UNCHANGED <<script, calls, served>>
      /\ \E how \in Outcomes : Open(how)
  BY DEF ReadFails, ReadTail
<1>2. Opened /\ script' \in BOOLEAN
  BY <1>1, OpenEffect DEF IInv, Messaging, TypeOK
<1>3. StaysSpoilt
  BY <1>2 DEF StaysSpoilt, Opened
<1>4. call.id \in Calls
  BY <1>1, CallFacts
<1>5. \/ Return("false")
      \/ Return("other") /\ conns[cur].outbox # <<>> /\ NextAnswer.left # "all"
  BY DEF ReadFails, ReadTail
<1>6. Return("other") /\ conns[cur].outbox # <<>> /\ NextAnswer.left # "all"
        => \E c \in Conns : conns[c].spoilt
  BY <1>1, TailIsSpoilt
<1>7. OwnOnceOrNothing' /\ result' \in [Calls -> Results] /\ call' = NoCall
  BY <1>1, <1>3, <1>4, <1>5, <1>6, Returns DEF IInv, Results
<1> QED BY <1>1, <1>2, <1>7, NoCallType, OpenStep

(* A call has its own answer: it was the last. *)
LEMMA ReadAnswerStep ==
  ASSUME IInv, ReadAnswer
  PROVE  IInv'
<1>1. /\ call.pc = "read" /\ safe' = TRUE /\ Return("own")
      /\ UNCHANGED <<opened, cur, script, sock, calls, served>>
  BY DEF ReadAnswer
<1>2. PICK c \in Conns : c = cur /\ c <= opened
  BY <1>1, CurFacts DEF IInv, Linked
<1>3. call.id \in Calls /\ call.id <= calls /\ script /\ sock /\ cur # 0
  BY <1>1, CallFacts DEF IInv, Linked
<1>4. PICK q \in Seq(Answers) : q = Out(c)
  BY ConnFacts DEF IInv
<1>5. PICK k \in 1 .. Len(q) :
        /\ q[k] = [id |-> call.id, left |-> "all"]
        /\ conns' = [conns EXCEPT ![cur].outbox = SubSeq(@, k + 1, Len(@))]
  BY <1>2, <1>4 DEF ReadAnswer, Out
<1>6. Len(q) \in Nat /\ DOMAIN q = 1 .. Len(q) /\ k \in DOMAIN q /\ Len(q) \in DOMAIN q
  BY SeqFacts
<1>7. served[call.id] = 1
  BY <1>3, <1>4, <1>5, <1>6 DEF IInv, Messaging, AnswersServed
<1>8. ASSUME ~conns[c].spoilt PROVE In(c) = <<>> /\ Out(c)[Len(Out(c))].id = call.id
  <2> SUFFICES ASSUME In(c) # <<>>, In(c)[Len(In(c))] = [id |-> call.id, silent |-> FALSE]
               PROVE  FALSE
    BY <1>1, <1>2, <1>8 DEF IInv, OwnIsLast
  <2>1. In(c) \in Seq(Messages)
    BY ConnFacts DEF IInv
  <2>2. Len(In(c)) \in DOMAIN In(c)
    BY <2>1, SeqFacts
  <2>3. call.id # ConnEx
    BY <1>3 DEF Calls, ConnEx
  <2>4. served[call.id] = 0
    BY <2>2, <2>3 DEF IInv, Messaging, WaitsUnserved
  <2> QED BY <1>7, <2>4
<1>9. ~conns[c].spoilt => k = Len(q)
  BY <1>3, <1>4, <1>5, <1>6, <1>8 DEF IInv, Messaging, AnswersOnce
<1>10. ~conns[c].spoilt => SubSeq(q, k + 1, Len(q)) = <<>>
  BY <1>6, <1>9, SubSeqEmpty
<1>11. PICK o : o = SubSeq(q, k + 1, Len(q))
  OBVIOUS
<1>11a. o \in Seq(Answers) /\ EndOf(o, q)
  <2>1. PICK j \in 1 .. Len(q) + 1 : j = k + 1
    BY <1>6
  <2>2. /\ o \in Seq(Answers) /\ Len(o) = Len(q) - j + 1
        /\ \A i \in 1 .. Len(q) - j + 1 : o[i] = q[i + (j - 1)]
    BY <1>11, <2>1, SubSeqFacts
  <2>3. k \in 0 .. Len(q) /\ Len(q) - j + 1 = Len(q) - k /\ j - 1 = k
    BY <1>6, <2>1
  <2> QED BY <2>2, <2>3 DEF EndOf
<1>12. PutsOutbox(conns, conns', c, o)
  BY <1>2, <1>4, <1>5, <1>11 DEF PutsOutbox, Out
<1>13. PICK t \in BOOLEAN : t = conns[c].spoilt
  BY ConnFacts DEF IInv
<1>14. ReadUpTo(c, o, t)
  BY <1>4, <1>11a, <1>12, <1>13, ReadEffect DEF IInv
<1>15. OwnOnceOrNothing' /\ result' \in [Calls -> Results] /\ call' = NoCall
  BY <1>1, <1>3, <1>7, <1>14, ReadSpoils, Returns DEF IInv, Results
<1>16. SafeMeansClean'
  <2>1. CASE conns[c].spoilt
    <3>1. conns'[c].spoilt
      BY <1>14, <2>1, ReadSpoils DEF StaysSpoilt
    <3> QED BY <1>1, <1>2, <1>3, <3>1 DEF SafeMeansClean
  <2>2. CASE ~conns[c].spoilt
    <3>1. In(c)' = <<>> /\ Out(c)' = <<>>
      BY <1>8, <1>10, <1>11, <1>14, <2>2, BecomesFacts DEF ReadUpTo
    <3>2. DOMAIN In(c)' = {}
      BY <3>1
    <3> QED BY <1>1, <1>2, <1>3, <3>1, <3>2 DEF SafeMeansClean, Lingering, In, Out
  <2> QED BY <2>1, <2>2
<1>17. Linked' /\ Clean' /\ StaysFresh /\ script' \in BOOLEAN /\ sock' \in BOOLEAN /\ safe' \in BOOLEAN
  BY <1>1, <1>3, <1>15, NoCallType DEF Linked, Clean, StaysFresh
<1>18. Out(c) # <<>>
  BY <1>4, <1>6
<1>19. t \/ o = <<>>
  BY <1>10, <1>11, <1>13
<1> QED BY <1>1, <1>2, <1>11a, <1>14, <1>15, <1>16, <1>17, <1>18, <1>19, NoCallType, ReadStep

(* A call takes the end of an answer for its own. *)
LEMMA ReadTailStep ==
  ASSUME IInv, ReadTail(FALSE)
  PROVE  IInv'
<1>1. /\ call.pc = "read" /\ safe' = TRUE /\ Return("other") /\ NextAnswer.left # "all"
      /\ conns[cur].outbox # <<>>
      /\ UNCHANGED <<opened, cur, script, sock, calls, served>>
  BY DEF ReadTail
<1>2. PICK c \in Conns : c = cur /\ c <= opened
  BY <1>1, CurFacts DEF IInv, Linked
<1>3. call.id \in Calls /\ script /\ sock /\ cur # 0
  BY <1>1, CallFacts DEF IInv, Linked
<1>4. conns[c].spoilt
  BY <1>1, <1>2, TailIsSpoilt
<1>5. PICK q \in Seq(Answers) : q = Out(c) /\ q # <<>>
  BY <1>1, <1>2, ConnFacts DEF IInv, Out
<1>6. PICK o : /\ o = Tail(q) \/ o \in Remains(q)
               /\ conns' = [conns EXCEPT ![cur].outbox = o]
  BY <1>2, <1>5 DEF ReadTail, Out
<1>7. o \in Seq(Answers) /\ EndOf(o, Out(c))
  BY <1>5, <1>6, TailEnds, RemainsFacts
<1>8. PutsOutbox(conns, conns', c, o)
  BY <1>2, <1>6 DEF PutsOutbox
<1>9. PICK t \in BOOLEAN : t = conns[c].spoilt
  BY ConnFacts DEF IInv
<1>10. ReadUpTo(c, o, t)
  BY <1>7, <1>8, <1>9, ReadEffect DEF IInv
<1>11. OwnOnceOrNothing' /\ result' \in [Calls -> Results] /\ call' = NoCall
  BY <1>1, <1>3, <1>4, <1>10, ReadSpoils, Returns DEF IInv, Results
<1>12. SafeMeansClean'
  BY <1>1, <1>2, <1>3, <1>4, <1>9, <1>10, ReadSpoils DEF SafeMeansClean
<1>13. Linked' /\ Clean' /\ StaysFresh /\ script' \in BOOLEAN /\ sock' \in BOOLEAN /\ safe' \in BOOLEAN
  BY <1>1, <1>3, <1>11, NoCallType DEF Linked, Clean, StaysFresh
<1> QED BY <1>1, <1>2, <1>4, <1>5, <1>9, <1>10, <1>11, <1>12, <1>13, NoCallType, ReadStep

LEMMA NextIInv ==
  ASSUME IInv, [Next]_vars
  PROVE  IInv'
<1>1. CASE ReadAnswer \/ HalfRead
  BY <1>1, ReadAnswerStep, HalfReadStep
<1>2. ASSUME NEW more \in BOOLEAN, ReadTail(more), ~more PROVE IInv'
  <2>1. ReadTail(FALSE)
    BY <1>2
  <2> QED BY <2>1, ReadTailStep
<1>3. CASE UNCHANGED vars
  <2>1. /\ TypeOK' /\ Linked' /\ Clean'
        /\ UNCHANGED <<conns, opened, cur, script, sock, safe, call, calls, result, served>>
    BY <1>3 DEF vars, IInv, TypeOK, Linked, Clean
  <2>2. Unopened' /\ WaitsOnce' /\ WaitsUnserved'
    BY <2>1 DEF IInv, Messaging, Unopened, WaitsOnce, WaitsUnserved, In, Out
  <2>3. AnswersOnce' /\ AnswersServed' /\ Fresh' /\ TailsSpoilt'
    BY <2>1 DEF IInv, Messaging, AnswersOnce, AnswersServed, Fresh, TailsSpoilt, In, Out
  <2>4. OwnIsLast' /\ SafeMeansClean' /\ Unused'
    BY <2>1 DEF IInv, OwnIsLast, SafeMeansClean, Lingering, Unused, In, Out
  <2>5. OwnOnceOrNothing'
    BY <2>1 DEF IInv, OwnOnceOrNothing, OwnOrNothing, AtMostOnce
  <2> QED BY <2>1, <2>2, <2>3, <2>4, <2>5 DEF IInv, Messaging
<1>4. ASSUME NEW c \in Conns, Serve(c) \/ StrayAnswer(c) \/ Miss(c) \/ Break(c) PROVE IInv'
  BY <1>4, ServeStep, StrayStep, MissStep, BreakStep
<1>5. ASSUME NEW b \in BOOLEAN, End(b) \/ Die(b) \/ Call(b) PROVE IInv'
  BY <1>5, EndStep, DieStep, CallStart
<1>6. CASE Start \/ Write \/ WriteFails \/ ReadFails
  BY <1>6, StartStep, WriteStep, WriteFailsStep, ReadFailsStep
<1>7. ASSUME NEW more \in BOOLEAN, ReadTail(more), more PROVE IInv'
  BY <1>7, ReadFailsStep
<1> QED BY <1>1, <1>2, <1>3, <1>4, <1>5, <1>6, <1>7 DEF Next, CallStep

LEMMA SpecIInv == Spec => []IInv
<1>1. Init => IInv
  BY InitIInv
<1>2. IInv /\ [Next]_vars => IInv'
  BY NextIInv
<1> QED BY <1>1, <1>2, PTL DEF Spec

-----------------------------------------------------------------------------
(* Every variable of the client keeps its type; in particular retries_left  *)
(* of sendData never goes below 0.                                          *)
THEOREM ClientTypeCorrect == Spec => []TypeOK
<1>1. IInv => TypeOK
  BY DEF IInv
<1> QED BY <1>1, SpecIInv, PTL

(* conn_props['safe'] is only set where the connection holds no answer, and *)
(* no message that will have one, of an older call or script: __skipsendback*)
(* is only granted on a clean connection - but for one on which an answer   *)
(* was left half read or the server went astray.                            *)
THEOREM SafeIsAlwaysClean == Spec => []SafeMeansClean
<1>1. IInv => SafeMeansClean
  BY DEF IInv
<1> QED BY <1>1, SpecIInv, PTL

(* Through resending, reconnecting and giving up, sendData returns the      *)
(* answer of its own call or none as long as no connection was spoilt, and  *)
(* no call is ever served twice.                                            *)
THEOREM AlwaysOwnOnceOrNothing == Spec => []OwnOnceOrNothing
<1>1. IInv => OwnOnceOrNothing
  BY DEF IInv
<1> QED BY <1>1, SpecIInv, PTL

-----------------------------------------------------------------------------
(* Each connection is a Session: its answers are seen by their ids. *)

AnswerIds(q) == [i \in DOMAIN q |-> q[i].id]

LEMMA AnswerIdsFacts ==
  ASSUME NEW q \in Seq(Answers)
  PROVE  /\ AnswerIds(q) \in Seq(-1 .. MaxCalls) /\ Len(AnswerIds(q)) = Len(q)
         /\ DOMAIN AnswerIds(q) = 1 .. Len(q)
         /\ \A i \in 1 .. Len(q) : AnswerIds(q)[i] = q[i].id
<1>1. /\ Len(q) \in Nat /\ DOMAIN q = 1 .. Len(q)
      /\ \A i \in DOMAIN q : q[i] \in Answers
  BY SeqFacts
<1>2. \A i \in DOMAIN q : q[i].id \in -1 .. MaxCalls
  BY <1>1 DEF Answers
<1>3. AnswerIds(q) \in [1 .. Len(q) -> -1 .. MaxCalls]
  BY <1>1, <1>2 DEF AnswerIds
<1>4. AnswerIds(q) \in Seq(-1 .. MaxCalls)
  BY <1>1, <1>3, IsASeq DEF AnswerIds
<1>5. Len(AnswerIds(q)) = Len(q)
  BY <1>1, <1>3, <1>4, LenProperties
<1> QED BY <1>1, <1>3, <1>4, <1>5 DEF AnswerIds

LEMMA AnswerIdsAppend ==
  ASSUME NEW q \in Seq(Answers), NEW a \in Answers
  PROVE  AnswerIds(Append(q, a)) = Append(AnswerIds(q), a.id)
<1>1. PICK r \in Seq(Answers) : r = Append(q, a)
  BY AppendFacts
<1>2. Len(q) \in Nat /\ DOMAIN q = 1 .. Len(q) /\ a.id \in -1 .. MaxCalls
  BY SeqFacts DEF Answers
<1>3. Len(r) = Len(q) + 1 /\ r[Len(q) + 1] = a /\ \A i \in 1 .. Len(q) : r[i] = q[i]
  BY <1>1, <1>2, AppendFacts
<1>4. PICK s \in Seq(-1 .. MaxCalls) : s = AnswerIds(q)
  BY AnswerIdsFacts
<1>5. Len(s) = Len(q) /\ \A i \in 1 .. Len(q) : s[i] = q[i].id
  BY <1>4, AnswerIdsFacts
<1>6. PICK u \in Seq(-1 .. MaxCalls) : u = Append(s, a.id)
  BY <1>2, AppendFacts
<1>7. Len(u) = Len(s) + 1 /\ u[Len(s) + 1] = a.id /\ \A i \in 1 .. Len(s) : u[i] = s[i]
  BY <1>2, <1>5, <1>6, AppendFacts, LenProperties
<1>8. PICK v \in Seq(-1 .. MaxCalls) : v = AnswerIds(r)
  BY AnswerIdsFacts
<1>9. Len(v) = Len(r) /\ \A i \in 1 .. Len(r) : v[i] = r[i].id
  BY <1>8, AnswerIdsFacts
<1>10. ASSUME NEW i \in 1 .. Len(v) PROVE v[i] = u[i]
  <2>1. CASE i = Len(q) + 1
    BY <1>3, <1>5, <1>7, <1>9, <2>1
  <2>2. CASE i \in 1 .. Len(q)
    BY <1>2, <1>3, <1>5, <1>7, <1>9, <2>2
  <2> QED BY <1>2, <1>3, <1>9, <2>1, <2>2
<1>11. Len(v) = Len(u)
  BY <1>3, <1>5, <1>7, <1>9
<1> QED BY <1>1, <1>4, <1>6, <1>8, <1>10, <1>11, SeqEqual

LEMMA AnswerIdsEnd ==
  ASSUME NEW q \in Seq(Answers), NEW o \in Seq(Answers), EndOf(o, q)
  PROVE  \/ AnswerIds(o) = AnswerIds(q)
         \/ /\ AnswerIds(q) # <<>>
            /\ \E k \in 1 .. Len(AnswerIds(q)) :
                 AnswerIds(o) = SubSeq(AnswerIds(q), k + 1, Len(AnswerIds(q)))
<1>1. PICK z \in 0 .. Len(q) : /\ Len(o) = Len(q) - z
                              /\ \A i \in 1 .. Len(o) : o[i].id = q[i + z].id
  BY DEF EndOf
<1>2. Len(q) \in Nat /\ Len(o) \in Nat
  BY SeqFacts
<1>3. PICK s \in Seq(-1 .. MaxCalls) : s = AnswerIds(q)
  BY AnswerIdsFacts
<1>4. PICK u \in Seq(-1 .. MaxCalls) : u = AnswerIds(o)
  BY AnswerIdsFacts
<1>5. Len(s) = Len(q) /\ \A i \in 1 .. Len(q) : s[i] = q[i].id
  BY <1>3, AnswerIdsFacts
<1>6. Len(u) = Len(o) /\ \A i \in 1 .. Len(o) : u[i] = o[i].id
  BY <1>4, AnswerIdsFacts
<1>7. \A i \in 1 .. Len(o) : i + z \in 1 .. Len(q) /\ u[i] = s[i + z]
  BY <1>1, <1>2, <1>5, <1>6
<1>8. CASE z = 0
  <2>1. Len(u) = Len(s) /\ \A i \in 1 .. Len(u) : u[i] = s[i]
    BY <1>1, <1>2, <1>5, <1>6, <1>7, <1>8
  <2> QED BY <1>3, <1>4, <2>1, SeqEqual
<1>9. CASE z # 0
  <2>1. z \in 1 .. Len(s) /\ z + 1 \in 1 .. Len(s) + 1
    BY <1>2, <1>5, <1>9
  <2>2. PICK v \in Seq(-1 .. MaxCalls) : v = SubSeq(s, z + 1, Len(s))
    BY <2>1, SubSeqFacts
  <2>3. /\ Len(v) = Len(s) - (z + 1) + 1
        /\ \A i \in 1 .. Len(s) - (z + 1) + 1 : v[i] = s[i + ((z + 1) - 1)]
    BY <2>1, <2>2, SubSeqFacts
  <2>4. Len(u) = Len(v)
    BY <1>1, <1>2, <1>5, <1>6, <2>3
  <2>5. \A i \in 1 .. Len(u) : u[i] = v[i]
    <3>1. Len(s) - (z + 1) + 1 = Len(o)
      BY <1>1, <1>2, <1>5
    <3>2. \A i \in 1 .. Len(o) : i + ((z + 1) - 1) = i + z
      OBVIOUS
    <3> QED BY <1>6, <1>7, <2>3, <3>1, <3>2
  <2>6. u = v
    BY <2>4, <2>5, SeqEqual
  <2>7. s # <<>>
    BY <1>2, <1>5, <2>1, LenEmpty
  <2> QED BY <1>3, <1>4, <2>1, <2>2, <2>6, <2>7
<1> QED BY <1>8, <1>9

(* The Session of a connection by In and Out. *)
LEMMA SessionVars ==
  ASSUME NEW c \in Conns
  PROVE  /\ (UNCHANGED S(c)!vars) <=> /\ In(c)' = In(c)
                                     /\ AnswerIds(Out(c))' = AnswerIds(Out(c))
                                     /\ conns'[c].server = conns[c].server
         /\ S(c)!Send <=> /\ \E m \in Messages : In(c)' = Append(In(c), m)
                          /\ AnswerIds(Out(c))' = AnswerIds(Out(c))
                          /\ conns'[c].server = conns[c].server
         /\ S(c)!Serve <=> /\ conns[c].server # "down" /\ In(c) # <<>> /\ In(c)' = Tail(In(c))
                           /\ IF Head(In(c)).silent
                              THEN /\ AnswerIds(Out(c))' = AnswerIds(Out(c))
                                   /\ conns'[c].server = conns[c].server
                              ELSE /\ AnswerIds(Out(c))' = Append(AnswerIds(Out(c)), Head(In(c)).id)
                                   /\ \/ conns'[c].server = conns[c].server
                                      \/ Tail(In(c)) # <<>> /\ conns'[c].server = "astray"
         /\ S(c)!Stray <=> /\ conns[c].server = "astray"
                           /\ \E i \in (0 .. MaxCalls) \cup {Nobody} :
                                AnswerIds(Out(c))' = Append(AnswerIds(Out(c)), i)
                           /\ In(c)' = In(c) /\ conns'[c].server = conns[c].server
         /\ S(c)!Miss <=> /\ conns[c].server = "astray" /\ In(c) # <<>> /\ In(c)' = Tail(In(c))
                          /\ AnswerIds(Out(c))' = AnswerIds(Out(c))
                          /\ conns'[c].server = conns[c].server
         /\ S(c)!Receive <=> /\ AnswerIds(Out(c)) # <<>>
                             /\ \E k \in 1 .. Len(AnswerIds(Out(c))) :
                                  AnswerIds(Out(c))' =
                                    SubSeq(AnswerIds(Out(c)), k + 1, Len(AnswerIds(Out(c))))
                             /\ In(c)' = In(c) /\ conns'[c].server = conns[c].server
         /\ S(c)!Break <=> /\ conns[c].server # "down" /\ conns'[c].server = "down"
                           /\ In(c)' = In(c) /\ AnswerIds(Out(c))' = AnswerIds(Out(c))
<1>1. (UNCHANGED S(c)!vars) <=> /\ In(c)' = In(c)
                                /\ AnswerIds(Out(c))' = AnswerIds(Out(c))
                                /\ conns'[c].server = conns[c].server
  BY DEF In, Out, AnswerIds, S!vars
<1> QED BY <1>1, Zenon
     DEF In, Out, AnswerIds, S!Send, S!Message, S!Serve, S!Stray, S!Miss, S!Receive, S!Break, Messages

(* A step of the client, or of the server, is a step of one connection's    *)
(* Session, and the others stutter.                                         *)
SessionStep(c) == [S(c)!Next]_(S(c)!vars)

LEMMA OthersStutter ==
  ASSUME NEW c \in Conns, NEW d \in Conns, d # c,
         NEW i, NEW o, NEW u, NEW t, Becomes(c, i, o, u, t)
  PROVE  SessionStep(d)
<1>1. In(d)' = In(d) /\ AnswerIds(Out(d))' = AnswerIds(Out(d)) /\ conns'[d].server = conns[d].server
  BY DEF Becomes, Puts, In, Out
<1> QED BY <1>1, SessionVars DEF SessionStep

LEMMA ServeSession ==
  ASSUME TypeOK, NEW c \in Conns, NEW d \in Conns, Serve(c)
  PROVE  SessionStep(d)
<1>1. Served(c) /\ In(c) # <<>> /\ conns[c].server # "down" /\ Head(In(c)) \in Messages
  BY ServeEffect DEF Serve
<1>2. PICK m \in Messages : m = Head(In(c))
  BY <1>1
<1>3. PICK o : o = IF m.silent THEN Out(c) ELSE Append(Out(c), [id |-> m.id, left |-> "all"])
  OBVIOUS
<1>4. PICK u \in Servers, t \in BOOLEAN : Becomes(c, Tail(In(c)), o, u, t) /\ Strays(c, m, u, t)
  BY <1>1, <1>2, <1>3 DEF Served
<1>5. CASE d = c
  <2>1. In(d)' = Tail(In(d)) /\ Out(d)' = o /\ conns'[d].server = u
    BY <1>4, <1>5, BecomesFacts
  <2>2. [id |-> m.id, left |-> "all"] \in Answers /\ Out(c) \in Seq(Answers)
    BY ConnFacts, LeftAll DEF Messages
  <2>3. AnswerIds(o) = IF m.silent THEN AnswerIds(Out(c)) ELSE Append(AnswerIds(Out(c)), m.id)
    BY <1>3, <2>2, AnswerIdsAppend
  <2>4. AnswerIds(Out(d))' = AnswerIds(o)
    BY <2>1
  <2>5. \/ u = conns[d].server
        \/ u = "astray" /\ ~m.silent /\ Tail(In(d)) # <<>>
    BY <1>4, <1>5 DEF Strays
  <2>6. CASE m.silent
    <3>1. u = conns[d].server /\ AnswerIds(o) = AnswerIds(Out(c))
      BY <2>3, <2>5, <2>6
    <3>2. S(d)!Serve
      BY <1>1, <1>2, <1>5, <2>1, <2>4, <2>6, <3>1, SessionVars
    <3> QED BY <3>2 DEF SessionStep, S!Next
  <2>7. CASE ~m.silent
    <3>1. AnswerIds(o) = Append(AnswerIds(Out(c)), m.id)
      BY <2>3, <2>7
    <3>2. S(d)!Serve
      BY <1>1, <1>2, <1>5, <2>1, <2>4, <2>5, <2>7, <3>1, SessionVars
    <3> QED BY <3>2 DEF SessionStep, S!Next
  <2> QED BY <2>6, <2>7
<1>6. CASE d # c
  BY <1>4, <1>6, OthersStutter
<1> QED BY <1>5, <1>6

LEMMA SendSession ==
  ASSUME NEW c \in Conns, NEW d \in Conns, NEW m \in Messages, Sent(c, m)
  PROVE  SessionStep(d)
<1>1. Becomes(c, Append(In(c), m), Out(c), conns[c].server, conns[c].spoilt)
  BY DEF Sent
<1>2. CASE d = c
  <2>1. In(d)' = Append(In(d), m) /\ Out(d)' = Out(d) /\ conns'[d].server = conns[d].server
    BY <1>1, <1>2 DEF Becomes, Puts, In, Out
  <2> QED BY <2>1, SessionVars DEF SessionStep, S!Next
<1> QED BY <1>1, <1>2, OthersStutter

LEMMA StraySession ==
  ASSUME TypeOK, NEW c \in Conns, NEW d \in Conns, StrayAnswer(c)
  PROVE  SessionStep(d)
<1>1. PICK a \in Answers :
        /\ a.id = Nobody /\ conns[c].server = "astray"
        /\ Becomes(c, In(c), Append(Out(c), a), conns[c].server, conns[c].spoilt)
  BY StrayEffect
<1>2. CASE d = c
  <2>1. In(d)' = In(d) /\ Out(d)' = Append(Out(d), a) /\ conns'[d].server = conns[d].server
    BY <1>1, <1>2, BecomesFacts
  <2>2. AnswerIds(Append(Out(d), a)) = Append(AnswerIds(Out(d)), Nobody)
    BY <1>1, ConnFacts, AnswerIdsAppend
  <2>3. AnswerIds(Out(d))' = AnswerIds(Append(Out(d), a))
    BY <2>1
  <2>4. S(d)!Stray
    BY <1>1, <1>2, <2>1, <2>2, <2>3, SessionVars
  <2> QED BY <2>4 DEF SessionStep, S!Next
<1>3. CASE d # c
  BY <1>1, <1>3, OthersStutter
<1> QED BY <1>2, <1>3

LEMMA MissSession ==
  ASSUME TypeOK, NEW c \in Conns, NEW d \in Conns, Miss(c)
  PROVE  SessionStep(d)
<1>1. /\ In(c) # <<>> /\ conns[c].server = "astray"
      /\ Becomes(c, Tail(In(c)), Out(c), conns[c].server, conns[c].spoilt)
  BY MissEffect
<1>2. CASE d = c
  <2>1. In(d)' = Tail(In(d)) /\ Out(d)' = Out(d) /\ conns'[d].server = conns[d].server
    BY <1>1, <1>2, BecomesFacts
  <2>2. S(d)!Miss
    BY <1>1, <1>2, <2>1, SessionVars
  <2> QED BY <2>2 DEF SessionStep, S!Next
<1>3. CASE d # c
  BY <1>1, <1>3, OthersStutter
<1> QED BY <1>2, <1>3

LEMMA ReadSession ==
  ASSUME TypeOK, NEW c \in Conns, NEW o, NEW t \in BOOLEAN, ReadUpTo(c, o, t), NEW d \in Conns
  PROVE  SessionStep(d)
<1>1. /\ Becomes(c, In(c), o, conns[c].server, t)
      /\ o \in Seq(Answers) /\ EndOf(o, Out(c))
  BY DEF ReadUpTo
<1>2. CASE d = c
  <2>1. In(d)' = In(d) /\ Out(d)' = o /\ conns'[d].server = conns[d].server
    BY <1>1, <1>2, BecomesFacts
  <2>2. AnswerIds(Out(d))' = AnswerIds(o)
    BY <2>1
  <2>3. Out(d) \in Seq(Answers) /\ EndOf(o, Out(d))
    BY <1>1, <1>2, ConnFacts
  <2>4. CASE AnswerIds(o) = AnswerIds(Out(d))
    BY <2>1, <2>2, <2>4, SessionVars DEF SessionStep
  <2>5. CASE /\ AnswerIds(Out(d)) # <<>>
             /\ \E k \in 1 .. Len(AnswerIds(Out(d))) :
                  AnswerIds(o) = SubSeq(AnswerIds(Out(d)), k + 1, Len(AnswerIds(Out(d))))
    <3>1. S(d)!Receive
      BY <2>1, <2>2, <2>5, SessionVars
    <3> QED BY <3>1 DEF SessionStep, S!Next
  <2> QED BY <1>1, <2>3, <2>4, <2>5, AnswerIdsEnd
<1>3. CASE d # c
  BY <1>1, <1>3, OthersStutter
<1> QED BY <1>2, <1>3

LEMMA BreakSession ==
  ASSUME TypeOK, NEW c \in Conns, NEW d \in Conns, Break(c)
  PROVE  SessionStep(d)
<1>1. Becomes(c, In(c), Out(c), "down", conns[c].spoilt)
  BY BreakEffect DEF Broken
<1>2. CASE d = c
  <2>1. In(d)' = In(d) /\ Out(d)' = Out(d) /\ conns'[d].server = "down"
    BY <1>1, <1>2 DEF Becomes, Puts, In, Out
  <2>2. conns[d].server # "down"
    BY <1>2 DEF Break
  <2>3. AnswerIds(Out(d))' = AnswerIds(Out(d))
    BY <2>1
  <2>4. S(d)!Break
    BY <2>1, <2>2, <2>3, SessionVars
  <2> QED BY <2>4 DEF SessionStep, S!Next
<1> QED BY <1>1, <1>2, OthersStutter

LEMMA CutSession ==
  ASSUME TypeOK, NEW d \in Conns,
         cur # 0, \E o \in Remains(conns[cur].outbox) :
                    conns' = [conns EXCEPT ![cur].outbox = o, ![cur].spoilt = TRUE]
  PROVE  SessionStep(d)
<1>1. PICK c \in Conns : c = cur
  <2>1. cur \in 0 .. opened /\ opened \in 0 .. MaxConns /\ MaxConns \in Nat
    BY RpcAssumption DEF TypeOK
  <2> QED BY <2>1 DEF Conns
<1>2. \E o \in Remains(Out(c)) : PutsSpoilt(conns, conns', c, o, TRUE)
  BY <1>1 DEF Out, PutsSpoilt
<1> QED BY <1>2, CutEffect, ReadSession

LEMMA OpenSession ==
  ASSUME TypeOK, Unopened, NEW how \in Outcomes, Open(how), NEW d \in Conns
  PROVE  SessionStep(d)
<1>1. Opened
  BY OpenEffect
<1>2. ASSUME \A e \in Conns : In(e)' = In(e)
      PROVE  SessionStep(d)
  <2>1. In(d)' = In(d) /\ Out(d)' = Out(d) /\ conns'[d].server = conns[d].server
    BY <1>1, <1>2 DEF Opened
  <2>2. AnswerIds(Out(d))' = AnswerIds(Out(d))
    BY <2>1
  <2> QED BY <2>1, <2>2, SessionVars DEF SessionStep
<1>3. Hello \in Messages
  BY RpcAssumption DEF Hello, Messages, ConnEx
<1> QED BY <1>1, <1>2, <1>3, SendSession DEF Opened

LEMMA StutterSession ==
  ASSUME \/ UNCHANGED conns
         \/ TypeOK /\ cur \in Conns /\ safe' \in BOOLEAN /\ conns' = [conns EXCEPT ![cur].used = safe'],
         NEW d \in Conns
  PROVE  SessionStep(d)
<1>1. In(d)' = In(d) /\ AnswerIds(Out(d))' = AnswerIds(Out(d)) /\ conns'[d].server = conns[d].server
  <2>1. CASE UNCHANGED conns
    BY <2>1 DEF In, Out
  <2>2. CASE TypeOK /\ cur \in Conns /\ safe' \in BOOLEAN /\ conns' = [conns EXCEPT ![cur].used = safe']
    <3>1. /\ conns'[d].inbox = conns[d].inbox /\ conns'[d].outbox = conns[d].outbox
          /\ conns'[d].server = conns[d].server
      BY <2>2 DEF TypeOK
    <3> QED BY <3>1 DEF In, Out
  <2> QED BY <2>1, <2>2
<1> QED BY <1>1, SessionVars DEF SessionStep

LEMMA NextSession ==
  ASSUME IInv, [Next]_vars, NEW d \in Conns
  PROVE  SessionStep(d)
<1>1. TypeOK /\ Unopened
  BY DEF IInv, Messaging
<1>2. CASE ReadAnswer
  <2>1. PICK c \in Conns : c = cur
    BY <1>2, CurFacts DEF ReadAnswer, IInv, Linked
  <2>2. PICK q \in Seq(Answers) : q = Out(c)
    BY <1>1, ConnFacts
  <2>3. PICK k \in 1 .. Len(q) : conns' = [conns EXCEPT ![cur].outbox = SubSeq(@, k + 1, Len(@))]
    BY <1>2, <2>1, <2>2 DEF ReadAnswer, Out
  <2>4. k + 1 \in 1 .. Len(q) + 1 /\ Len(q) \in Nat /\ (k + 1) - 1 = k /\ k \in 0 .. Len(q)
        /\ Len(q) - (k + 1) + 1 = Len(q) - k
    BY SeqFacts
  <2>5. PICK o \in Seq(Answers) : o = SubSeq(q, k + 1, Len(q))
    BY <2>4, SubSeqFacts
  <2>6. Len(o) = Len(q) - k /\ \A i \in 1 .. Len(o) : o[i].id = q[i + k].id
    <3>1. PICK n \in 1 .. Len(q) + 1 : n = k + 1
      BY <2>4
    <3>2. /\ Len(o) = Len(q) - n + 1
          /\ \A i \in 1 .. Len(q) - n + 1 : o[i] = q[i + (n - 1)]
      BY <2>5, <3>1, SubSeqFacts
    <3> QED BY <2>4, <3>1, <3>2
  <2>7. EndOf(o, Out(c))
    BY <2>2, <2>4, <2>6 DEF EndOf
  <2>8. PutsOutbox(conns, conns', c, o)
    BY <1>1, <2>1, <2>2, <2>3, <2>5 DEF PutsOutbox, Out, TypeOK
  <2>9. PICK t \in BOOLEAN : t = conns[c].spoilt
    BY <1>1, ConnFacts
  <2> QED BY <1>1, <2>7, <2>8, <2>9, ReadEffect, ReadSession
<1>2a. CASE ReadTail(FALSE)
  <2>1. PICK c \in Conns : c = cur
    BY <1>2a, CurFacts DEF ReadTail, IInv, Linked
  <2>2. PICK q \in Seq(Answers) : q = Out(c) /\ q # <<>>
    BY <1>1, <1>2a, <2>1, ConnFacts DEF ReadTail, Out
  <2>3. PICK o : /\ o = Tail(q) \/ o \in Remains(q)
                 /\ conns' = [conns EXCEPT ![cur].outbox = o]
    BY <1>2a, <2>1, <2>2 DEF ReadTail, Out
  <2>4. o \in Seq(Answers) /\ EndOf(o, Out(c))
    BY <2>2, <2>3, TailEnds, RemainsFacts
  <2>5. PutsOutbox(conns, conns', c, o)
    BY <2>1, <2>3 DEF PutsOutbox
  <2>6. PICK t \in BOOLEAN : t = conns[c].spoilt
    BY <1>1, ConnFacts
  <2> QED BY <1>1, <2>4, <2>5, <2>6, ReadEffect, ReadSession
<1>3. CASE Write
  <2>1. PICK c \in Conns : c = cur
    BY <1>3, CurFacts DEF Write, IInv, Linked
  <2>2. PICK m \in Messages : m = [id |-> call.id, silent |-> call.skip]
    BY <1>1 DEF TypeOK, Messages
  <2>3. PutsInbox(conns, conns', c, Append(In(c), m), TRUE)
    BY <1>3, <2>1, <2>2 DEF Write, PutsInbox, In
  <2> QED BY <1>1, <2>3, SendEffect, SendSession
<1>4. ASSUME NEW how \in Outcomes, Open(how) PROVE SessionStep(d)
  BY <1>1, <1>4, OpenSession
<1>5. CASE Start
  <2>1. CASE Reusable /\ UNCHANGED conns
    BY <2>1, StutterSession
  <2>2. CASE Reusable /\ safe' \in BOOLEAN /\ conns' = [conns EXCEPT ![cur].used = safe']
    <3>1. cur \in 0 .. opened /\ opened \in 0 .. MaxConns /\ MaxConns \in Nat /\ cur # 0
      BY <1>1, <2>2, RpcAssumption DEF TypeOK, Reusable
    <3>2. cur \in Conns
      BY <3>1 DEF Conns
    <3> QED BY <1>1, <2>2, <3>2, StutterSession
  <2> QED BY <1>4, <1>5, <2>1, <2>2 DEF Start
<1>6. CASE WriteFails \/ ReadFails \/ \E more \in BOOLEAN : ReadTail(more) /\ more
  BY <1>4, <1>6 DEF WriteFails, ReadFails, ReadTail
<1>7. ASSUME NEW b \in BOOLEAN, End(b) \/ Call(b) PROVE SessionStep(d)
  BY <1>7, StutterSession DEF End, Call
<1>8. CASE UNCHANGED vars
  BY <1>8, StutterSession DEF vars
<1>9. ASSUME NEW c \in Conns, Serve(c) \/ StrayAnswer(c) \/ Miss(c) \/ Break(c) PROVE SessionStep(d)
  BY <1>1, <1>9, ServeSession, StraySession, MissSession, BreakSession
<1>10. ASSUME HalfRead \/ \E b \in BOOLEAN : Die(b) PROVE SessionStep(d)
  <2>1. CASE UNCHANGED conns
    BY <2>1, StutterSession
  <2>2. CASE ~UNCHANGED conns
    <3>1. sock \/ call.pc = "read"
      BY <1>10, <2>2 DEF HalfRead, Die
    <3>2. cur # 0
      BY <3>1 DEF IInv, Linked
    <3>3. \E o \in Remains(conns[cur].outbox) :
            conns' = [conns EXCEPT ![cur].outbox = o, ![cur].spoilt = TRUE]
      BY <1>10, <2>2 DEF HalfRead, Die
    <3> QED BY <1>1, <3>2, <3>3, CutSession
  <2> QED BY <2>1, <2>2
<1> QED BY <1>2, <1>2a, <1>3, <1>5, <1>6, <1>7, <1>8, <1>9, <1>10 DEF Next, CallStep

(* Whatever HSClient.php does with its connections - sends, reads, closes,  *)
(* gives up, dies over an answer - each of them goes through the steps of a *)
(* Session, which is what the server implements.                            *)
THEOREM ConnectionsAlwaysSessions == Spec => ConnectionsAreSessions
<1>1. Init => \A c \in Conns : S(c)!Init
  <2> SUFFICES ASSUME Init, NEW c \in Conns PROVE S(c)!Init
    OBVIOUS
  <2>1. conns[c] = [inbox |-> <<>>, outbox |-> <<>>, server |-> "up", used |-> FALSE, spoilt |-> FALSE]
    BY DEF Init
  <2>2. [i \in DOMAIN conns[c].outbox |-> conns[c].outbox[i].id] = <<>>
    BY <2>1
  <2> QED BY <2>1, <2>2 DEF S!Init
<1>2. IInv /\ [Next]_vars => [\A c \in Conns : [S(c)!Next]_(S(c)!vars)]_conns
  BY NextSession DEF SessionStep
<1> QED BY <1>1, <1>2, SpecIInv, PTL DEF Spec, ConnectionsAreSessions
=============================================================================
