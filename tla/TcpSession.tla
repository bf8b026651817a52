------------------------------ MODULE TcpSession ------------------------------
(***************************************************************************)
(* One TCP connection: serveSocket, getStreamBuffer and sendBack of        *)
(* handler_socket.go with the parameters of its requests (hs_params.go).   *)
(* The stream is cut into reads anywhere; a message lies in the            *)
(* connection's 32 KB (sharedmem), in slab memory or on the heap, and the  *)
(* answer's header, sometimes its body too, is built in sharedmem again.   *)
(*                                                                         *)
(* A cell stands for some bytes of a message: <<message, position>>.  A    *)
(* slice is where it lies, its offset there and the cells it shows;        *)
(* writing into shared memory changes what slices show that lie there.     *)
(* The register of connections is in ConnStats.                            *)
(***************************************************************************)
EXTENDS ConnEx, Sequences, FiniteSetsExt, SequencesExt

CONSTANTS
  HeaderLen,    \* cells of a message that hold its type and length (5 bytes)
  Shapes,       \* of messages: [len, kind], with a kind among those below
  AnswerLens,   \* lengths of responses
  AnswerHeader, \* cells of a response's header
  BufferCap,    \* the read buffer (16 KB)
  SharedCap,    \* sharedmem (32 KB)
  Configs,      \* sets of compressors the configuration may name
  Threshold,    \* size above which responses are compressed
  Clients,      \* "waits" for an answer before it sends on, or "pipelines"
  MaxMessages,  \* bound: messages sent over the connection
  MaxUnread     \* bound: answers unread when a server astray sends another

(* ask: answered; skip: __skipsendback; ex: the action conn-ex; zip: type B;*)
(* bad: parameters that cannot be read; alien: another type than B or b.    *)
ASSUME SessionAssumption ==
  /\ Shapes \subseteq [len : Nat, kind : {"ask", "skip", "ex", "zip", "bad", "alien"}]
  /\ Configs \subseteq Compressors /\ Threshold \in Nat
  /\ AnswerLens \subseteq Nat /\ AnswerHeader \in Nat
  /\ MaxMessages \in Nat /\ MaxUnread \in Nat
  /\ Clients \subseteq {"waits", "pipelines"}
  /\ HeaderLen \in Nat \ {0} /\ \A m \in Shapes : m.len >= HeaderLen
  /\ BufferCap \in Nat \ {0} /\ SharedCap \in Nat /\ SharedCap > HeaderLen + BufferCap

VARIABLES
  setup,        \* chosen once: the kind of client, distance, configuration
  pending,      \* messages sent and not yet served
  sent,         \* how many were sent
  wire,         \* their cells that the server has not read
  ending,       \* the client's side of the connection
  answers,      \* responses on their way to the client
  pc, why,      \* where serveSocket is, and why it left its loop
  data_stream, request, allocator, conn_ex

client_vars == <<setup, pending, sent, ending>>
vars == <<client_vars, wire, answers, pc, why, data_stream, request, allocator, conn_ex>>

Junk == <<0, 0>>                                  \* a piece of a response
Bytes(m) == [k \in 1 .. m.len |-> <<m.id, k>>]
Empty == [mem |-> "heap", off |-> 0, cells |-> <<>>]
NoRequest == [mem |-> "heap", id |-> 0]

Init ==
  /\ setup \in [client : Clients, distance : Distances,
                compressors : Configs]
  /\ pending = <<>> /\ sent = 0 /\ wire = <<>> /\ ending = "open" /\ answers = <<>>
  /\ pc = "top" /\ why = "none"
  /\ data_stream = Empty /\ request = NoRequest /\ allocator = FALSE
  /\ conn_ex = make_conn_ex(setup.distance, setup.compressors, Threshold)

Over == pc \in {"closed", "crashed"}

-----------------------------------------------------------------------------
(* The client and the network. *)

Settled == answers = <<>> /\ \A i \in DOMAIN pending : pending[i].kind = "skip"

Send(shape) ==
  /\ ending = "open" /\ ~Over
  /\ sent < MaxMessages
  /\ setup.client = "waits" => Settled
  /\ LET m == [id |-> sent + 1, len |-> shape.len, kind |-> shape.kind] IN
     /\ pending' = Append(pending, m)
     /\ wire' = wire \o Bytes(m)
  /\ sent' = sent + 1
  /\ UNCHANGED <<setup, ending, answers, pc, why, data_stream, request, allocator, conn_ex>>

Receive ==
  /\ answers # <<>>
  /\ answers' = Tail(answers)
  /\ UNCHANGED <<client_vars, wire, pc, why, data_stream, request, allocator, conn_ex>>

(* The client closes, perhaps in the middle of its last message, or the     *)
(* connection breaks.                                                       *)
Finish(how) ==
  /\ ending = "open" /\ ~Over
  /\ ending' = how
  /\ \/ how # "cut" /\ UNCHANGED wire
     \/ /\ how = "cut" /\ wire # <<>>
        /\ \E k \in 1 .. Last(wire)[2] - 1 :
             k <= Len(wire) /\ wire' = SubSeq(wire, 1, Len(wire) - k)
  /\ UNCHANGED <<setup, pending, sent, answers, pc, why, data_stream, request, allocator, conn_ex>>

-----------------------------------------------------------------------------
(* Reading: getStreamBuffer and the two loops of serveSocket. *)

(* append(data_stream, ...): beyond the capacity the slice moves to the heap.*)
Grown(s, cells, cap) ==
  IF s.off + Len(s.cells) + Len(cells) <= cap
  THEN [s EXCEPT !.cells = @ \o cells]
  ELSE [mem |-> "heap", off |-> 0, cells |-> s.cells \o cells]

MessageOf(cell) == pending[SelectInSeq(pending, LAMBDA m : m.id = cell[1])]
Size == MessageOf(Head(data_stream.cells)).len

CapOf(s, size) == IF s.mem = "shared" THEN SharedCap ELSE IF s.mem = "slab" THEN size ELSE 0

(* Mutant: a later Close overwrites the reason. *)
BreakOk(reason) == /\ pc' = "closed"
                   /\ why' = "closed ok"
                   /\ UNCHANGED <<request, conn_ex, answers>>

Break(reason) == /\ pc' = "closed"
                 /\ why' = reason
                 /\ UNCHANGED <<request, conn_ex, answers>>

(* Mutant: the new buffer starts without what was left of the last read.    *)
FrameFresh(cells) ==
  LET s    == data_stream.cells \o cells
      kind == IF s[1] = Junk THEN "alien" ELSE MessageOf(s[1]).kind
      size == MessageOf(s[1]).len
      mem  == IF size < SharedCap THEN "shared" ELSE "slab"
  IN
  \/ /\ Len(s) < HeaderLen
     /\ data_stream' = Grown(data_stream, cells, CapOf(data_stream, 0))
     /\ UNCHANGED <<pc, why, request, allocator, conn_ex, answers>>
  \/ /\ Len(s) >= HeaderLen
     /\ kind = "alien"
     /\ Break("header")
     /\ data_stream' = Empty
     /\ UNCHANGED allocator
  \/ /\ Len(s) >= HeaderLen
     /\ s[1] = Junk
     /\ pc' = "astray"
     /\ data_stream' = [Empty EXCEPT !.cells = [i \in DOMAIN s |-> Junk]]
     /\ allocator' \in BOOLEAN
     /\ UNCHANGED <<why, request, conn_ex, answers>>
  \/ /\ Len(s) >= HeaderLen
     /\ kind # "alien"
     /\ allocator' = (allocator \/ mem = "slab")
     /\ data_stream' = Grown([mem |-> mem, off |-> 0, cells |-> <<>>], cells,
                             IF mem = "shared" THEN SharedCap ELSE size)
     /\ pc' = "body"
     /\ UNCHANGED <<why, request, conn_ex, answers>>

(* The cells of data_stream and of the last read: too few for a length, or  *)
(* the beginning of a message, for which memory is chosen.  Bytes of an     *)
(* answer that stand there have another type, or they have the type of a    *)
(* message and any length: the server goes astray.                          *)
Frame(cells) ==
  LET s    == data_stream.cells \o cells
      kind == IF s[1] = Junk THEN "alien" ELSE MessageOf(s[1]).kind
      size == MessageOf(s[1]).len
      mem  == IF size < SharedCap THEN "shared" ELSE "slab"
  IN
  \/ /\ Len(s) < HeaderLen
     /\ data_stream' = Grown(data_stream, cells, CapOf(data_stream, 0))
     /\ UNCHANGED <<pc, why, request, allocator, conn_ex, answers>>
  \/ /\ Len(s) >= HeaderLen
     /\ kind = "alien"
     /\ Break("header")
     /\ data_stream' = Empty
     /\ UNCHANGED allocator
  \/ /\ Len(s) >= HeaderLen
     /\ s[1] = Junk
     /\ pc' = "astray"
     /\ data_stream' = [Empty EXCEPT !.cells = [i \in DOMAIN s |-> Junk]]
     /\ allocator' \in BOOLEAN
     /\ UNCHANGED <<why, request, conn_ex, answers>>
  \/ /\ Len(s) >= HeaderLen
     /\ kind # "alien"
     /\ allocator' = (allocator \/ mem = "slab")
     /\ data_stream' = Grown([mem |-> mem, off |-> 0, cells |-> data_stream.cells], cells,
                             IF mem = "shared" THEN SharedCap ELSE size)
     /\ pc' = "body"
     /\ UNCHANGED <<why, request, conn_ex, answers>>

Reads == {n \in 1 .. BufferCap : n <= Len(wire)}
Read(n) == wire' = SubSeq(wire, n + 1, Len(wire))

(* A round of the outer loop; it reads only when no length is at hand.      *)
ReadHead(n) ==
  /\ pc = "top" /\ Len(data_stream.cells) < HeaderLen
  /\ Read(n)
  /\ Frame(SubSeq(wire, 1, n))
  /\ UNCHANGED client_vars

(* Mutant: a length that was just read over waits for more. *)
NextHeadMore ==
  /\ pc = "top" /\ Len(data_stream.cells) > HeaderLen
  /\ Frame(<<>>)
  /\ UNCHANGED <<client_vars, wire>>

NextHead ==
  /\ pc = "top" /\ Len(data_stream.cells) >= HeaderLen
  /\ Frame(<<>>)
  /\ UNCHANGED <<client_vars, wire>>

ReadBody(n) ==
  /\ pc = "body" /\ Len(data_stream.cells) < Size
  /\ Read(n)
  /\ data_stream' = Grown(data_stream, SubSeq(wire, 1, n), CapOf(data_stream, Size))
  /\ UNCHANGED <<client_vars, answers, pc, why, request, allocator, conn_ex>>

(* The end of the stream, once everything was read, or an error at any time.*)
ReadEnds ==
  /\ \/ pc = "top" /\ Len(data_stream.cells) < HeaderLen
     \/ pc = "body" /\ Len(data_stream.cells) < Size
  /\ \/ ending \in {"fin", "cut"} /\ wire = <<>>
     \/ ending = "error"
  /\ Break(IF pc = "top" THEN "end" ELSE "end in message")
  /\ UNCHANGED <<client_vars, wire, data_stream, allocator>>

(* A whole message: it is cut off the stream, inflated if its type says so, *)
(* and its parameters, slices of it, are read.                              *)
TakeMessage ==
  /\ pc = "body" /\ Len(data_stream.cells) >= Size
  /\ LET m    == Head(pending)
         rest == SubSeq(data_stream.cells, Size + 1, Len(data_stream.cells))
     IN
     /\ data_stream' = IF rest = <<>> THEN Empty
                       ELSE [data_stream EXCEPT !.cells = rest, !.off = @ + Size]
     /\ IF m.kind = "bad" THEN Break("parameters")
        ELSE /\ pc' = "serve"
             /\ request' = [id |-> data_stream.cells[1][1],
                            mem |-> IF m.kind = "zip" THEN "heap" ELSE data_stream.mem]
             /\ UNCHANGED <<why, conn_ex, answers>>
  /\ UNCHANGED <<client_vars, wire, allocator>>

-----------------------------------------------------------------------------
(* Serving and answering. *)

(* What a slice shows after the first w cells of sharedmem were written.    *)
Overwritten(s, w) ==
  IF s.mem # "shared" THEN s
  ELSE [s EXCEPT !.cells = [i \in DOMAIN @ |-> IF s.off + i <= w THEN Junk ELSE @[i]]]

(* How far sharedmem may be written: the header is built there; the body,   *)
(* of any length once gzip compressed it, follows if both fit, unless it    *)
(* comes from the multipart compressor.                                     *)
Written(e, length) ==
  {AnswerHeader + (IF e.codec # "mp-flate" /\ AnswerHeader + l < SharedCap THEN l ELSE 0) :
     l \in IF e.codec = "gzip" THEN 1 .. SharedCap ELSE {length}}

(* The options of the connection after the request: changed by conn-ex only.*)
OptionsAfter(m) ==
  IF m.kind # "ex" THEN {conn_ex}
  ELSE {handle_conn_ex(conn_ex, setup.distance, setup.compressors, snappy, t) :
          snappy \in BOOLEAN, t \in {0, Threshold}}

(* The handler's response, as a slice: memory of its own, or the end of the *)
(* message (FastReturnBNocopy of GetParamBUnsafe); conn-ex returns nothing. *)
Responses(m) ==
  IF m.kind = "ex" THEN {Empty}
  ELSE {[mem |-> "own", off |-> 0, cells |-> [i \in 1 .. l |-> <<m.id, m.len>>]] :
          l \in AnswerLens}
       \cup {[mem |-> request.mem, off |-> m.len - l, cells |-> SubSeq(Bytes(m), m.len - l + 1, m.len)] :
               l \in {x \in AnswerLens : x + HeaderLen <= m.len}}

(* sendBack: the header is written before the body is read. *)
SendBack(r, options) ==
  \E e \in Encodings(options, setup.compressors, Len(r.cells)) :
    IF e = Crash
    THEN /\ pc' = "crashed"
         /\ UNCHANGED <<answers, data_stream>>
    ELSE /\ pc' = "top"
         /\ answers' = Append(answers, [to |-> request.id, encoding |-> e,
                                        source |-> r, body |-> Overwritten(r, AnswerHeader).cells])
         /\ \E w \in Written(e, Len(r.cells)) : data_stream' = Overwritten(data_stream, w)

(* Mutant: a message without answer leaves early, before Cleanup. *)
AnswerUncleaned ==
  /\ pc = "serve"
  /\ LET m == Head(pending) IN
     \E options \in OptionsAfter(m), r \in Responses(m) :
       /\ conn_ex' = options
       /\ IF m.kind # "skip" THEN SendBack(r, options)
          ELSE pc' = "top" /\ UNCHANGED <<answers, data_stream>>
  /\ pending' = IF pc' = "crashed" THEN pending ELSE Tail(pending)
  /\ request' = NoRequest
  /\ allocator' = (allocator /\ Head(pending).kind = "skip")
  /\ UNCHANGED <<setup, sent, wire, ending, why>>

(* Mutant: __skipsendback is looked up after the parameters are gone. *)
AnswerAlways ==
  /\ pc = "serve"
  /\ LET m == Head(pending) IN
     \E options \in OptionsAfter(m), r \in Responses(m) :
       /\ conn_ex' = options
       /\ SendBack(r, options)
  /\ pending' = IF pc' = "crashed" THEN pending ELSE Tail(pending)
  /\ request' = NoRequest
  /\ allocator' = FALSE
  /\ UNCHANGED <<setup, sent, wire, ending, why>>

(* The handler, sendBack and Cleanup. *)
Answer ==
  /\ pc = "serve"
  /\ LET m == Head(pending) IN
     \E options \in OptionsAfter(m), r \in Responses(m) :
       /\ conn_ex' = options
       /\ IF m.kind # "skip" THEN SendBack(r, options)
          ELSE pc' = "top" /\ UNCHANGED <<answers, data_stream>>
  /\ pending' = IF pc' = "crashed" THEN pending ELSE Tail(pending)
  /\ request' = NoRequest
  /\ allocator' = FALSE
  /\ UNCHANGED <<setup, sent, wire, ending, why>>

-----------------------------------------------------------------------------
(* Astray, the server reads bytes that are no message's beginning.  Their   *)
(* values are not modelled, so what it takes them for is open: it may wait  *)
(* for more, take slabs, serve what was never sent with whatever GUID it    *)
(* bears, and leave or panic for any reason.  What such an answer carries,  *)
(* and the options that a conn-ex served now would set, are not followed.   *)

StrayRead(n) ==
  /\ pc = "astray"
  /\ Read(n)
  /\ data_stream' = [data_stream EXCEPT !.cells = @ \o [i \in 1 .. n |-> Junk]]
  /\ allocator' \in {allocator, TRUE}
  /\ UNCHANGED <<client_vars, answers, pc, why, request, conn_ex>>

StrayServe ==
  /\ pc = "astray"
  /\ \E k \in HeaderLen .. Len(data_stream.cells) :
       data_stream' = [data_stream EXCEPT !.cells = SubSeq(@, k + 1, Len(@))]
  /\ allocator' \in BOOLEAN
  /\ \/ UNCHANGED answers
     \/ /\ Len(answers) < MaxUnread
        /\ \E guid \in 0 .. sent :
             answers' = Append(answers, [to |-> guid, encoding |-> Plain, source |-> Empty, body |-> <<>>])
  /\ UNCHANGED <<client_vars, wire, pc, why, request, conn_ex>>

StrayLeaves ==
  /\ pc = "astray"
  /\ \/ Break("astray")
     \/ pc' = "crashed" /\ UNCHANGED <<why, request, conn_ex, answers>>
  /\ UNCHANGED <<client_vars, wire, data_stream, allocator>>

-----------------------------------------------------------------------------
ServerStep == \/ \E n \in Reads : ReadHead(n) \/ ReadBody(n) \/ StrayRead(n)
              \/ NextHead \/ ReadEnds \/ TakeMessage \/ Answer
              \/ StrayServe \/ StrayLeaves

Next == \/ \E shape \in Shapes : Send(shape)
        \/ Receive
        \/ \E how \in {"fin", "cut", "error"} : Finish(how)
        \/ ServerStep

Spec == Init /\ [][Next]_vars

(* The goroutine of the connection runs; nothing makes the client go on.    *)
FairSpec == Spec /\ WF_vars(ServerStep)

-----------------------------------------------------------------------------
Slices == [mem : {"heap", "own", "shared", "slab"}, off : Nat,
           cells : Seq((0 .. MaxMessages) \X Nat)]

TypeOK ==
  /\ \A i \in DOMAIN pending : /\ pending[i].id \in 1 .. MaxMessages
                                /\ [len |-> pending[i].len, kind |-> pending[i].kind] \in Shapes
  /\ sent \in 0 .. MaxMessages
  /\ ending \in {"open", "fin", "cut", "error"}
  /\ pc \in {"top", "body", "serve", "astray", "closed", "crashed"}
  /\ why \in {"none", "end", "end in message", "header", "parameters", "astray"}
  /\ data_stream \in Slices
  /\ request \in [mem : {"heap", "shared", "slab"}, id : 0 .. MaxMessages]
  /\ allocator \in BOOLEAN
  /\ conn_ex \in Conninfo
  /\ \A i \in DOMAIN answers : answers[i].to \in 0 .. MaxMessages /\ answers[i].source \in Slices

(* Cell i is of message n of q, and the next cell is the next of that       *)
(* message or, after its last, the first of the message that follows.       *)
Follows(cells, i, q, n) ==
  /\ cells[i][1] = q[n].id
  /\ \/ cells[i][2] < q[n].len /\ cells[i + 1] = <<q[n].id, cells[i][2] + 1>>
     \/ /\ cells[i][2] = q[n].len /\ n < Len(q)
        /\ cells[i + 1] = <<q[n + 1].id, 1>>

(* The cells are those of the messages of q, in order from the first of all.*)
InOrder(cells, q) ==
  /\ cells # <<>> => q # <<>> /\ cells[1] = <<q[1].id, 1>>
  /\ \A i \in 1 .. Len(cells) - 1 : \E n \in DOMAIN q : Follows(cells, i, q, n)

(* ... to the end of the last one. *)
Whole(cells, q) ==
  q # <<>> => cells # <<>> /\ cells[Len(cells)] = <<q[Len(q)].id, q[Len(q)].len>>

(* Bytes of an answer stand where the server looks for a message.           *)
Stained == data_stream.cells # <<>> /\ data_stream.cells[1] = Junk
Astray == pc = "astray" \/ (pc = "top" /\ Stained)

(* What the server has not consumed yet, in its memory and on the network,  *)
(* are the cells of the messages still to be served, in order and whole:    *)
(* for every cutting of the stream into reads, and every move of the        *)
(* partial message between sharedmem, slabs and heap.                       *)
ToServe == IF pc = "serve" THEN Tail(pending) ELSE pending
Stream == data_stream.cells \o wire
InStep == ~Over => InOrder(Stream, ToServe) /\ (ending # "cut" => Whole(Stream, ToServe))

(* When the client closes, every message that arrived whole is served       *)
(* before the connection is left ("ONLY if we don't have more data to       *)
(* process").                                                               *)
EndServesAll ==
  pc = "closed" /\ ending \in {"fin", "cut"} /\ why \in {"end", "end in message"}
    => Len(pending) = IF ending = "cut" THEN 1 ELSE 0

(* Of a client that waits for an answer before it sends on, as the PHP      *)
(* client does (it sends on only after messages that ask for none), no      *)
(* message is overwritten before it is read; whichever client it is, its    *)
(* messages are read in step as long as none was overwritten, and a client  *)
(* that closes then is served to its end.                                   *)
StreamIntact ==
  /\ setup.client = "waits" => ~Astray
  /\ ~Astray => InStep
  /\ EndServesAll

(* The same of every client.  "read message and truncate the length ...     *)
(* remove the message, clean the stream if possible" (serveSocket) keeps    *)
(* what follows a message for the next round.                               *)
PipelinedIntact == InStep

(* Slabs are held from the length of a large message to its answer; a       *)
(* connection that is left in between, and only such a one, never gives     *)
(* them back.  (A server astray takes them for any length it reads.)        *)
SlabsHeldExactly ==
  /\ pc = "top" => ~allocator
  /\ pc = "closed" /\ why # "astray" =>
       (allocator <=> /\ why \in {"end in message", "parameters"}
                      /\ Head(pending).len >= SharedCap)

(* A response arrives as the handler returned it and decodes by its label,  *)
(* but for the label mp-snappy, which always lies, and a parameter that     *)
(* lies where the header is built.                                          *)
AnswersFaithful ==
  \A i \in DOMAIN answers :
    LET a == answers[i] IN
    /\ Readable(a.encoding) <=> a.encoding.label # "mp-snappy"
    /\ a.body = a.source.cells <=>
         ~(a.source.mem = "shared" /\ a.source.cells # <<>> /\ a.source.off < AnswerHeader)

(* The connection is what Session promises. *)
S == INSTANCE Session WITH
       Ids <- 1 .. MaxMessages,
       inbox <- [i \in DOMAIN pending |->
                   [id |-> pending[i].id, silent |-> pending[i].kind = "skip"]],
       outbox <- [i \in DOMAIN answers |-> answers[i].to],
       Nobody <- 0,
       server <- IF Over THEN "down" ELSE IF Astray THEN "astray" ELSE "up"
ImplementsSession == S!Spec

(* Every message that was sent is served, or the connection is left; a      *)
(* client that pipelines may also get the server to read its own answer.    *)
EveryMessageSettled ==
  pending # <<>> ~> pending = <<>> \/ Over \/ (setup.client = "pipelines" /\ pc = "astray")
=============================================================================
