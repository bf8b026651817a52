----------------------------- MODULE UdpService -----------------------------
(***************************************************************************)
(* The UDP listener (hs_udp.go, hs_udp_v1.go) and the clients that send to *)
(* it (HSClientUDP.php).  Datagrams of one sender are put one behind the   *)
(* other until they make a message; the protocol is told from the first    *)
(* byte of what has gathered.  Datagrams are lost, duplicated and          *)
(* reordered.  The register of requests is in UdpStats.                    *)
(*                                                                         *)
(* A cell stands for some bytes of a message: [id, ver, k].  Version 2:    *)
(* type and part of the size (k = 1), the rest of the size (2), the        *)
(* parameters (3).  Version 1: length and GUID (1), terminator (2), the    *)
(* parameters (3).  No other cell holds a terminator.                      *)
(***************************************************************************)
EXTENDS Integers, FiniteSetsExt, SequencesExt

CONSTANTS
  Senders,    \* addresses, the keys of source_buffer
  Plans,      \* per sender: sequences of versions, of the messages it sends
  Styles,     \* per sender: "whole" messages in a datagram, or messages "cut"
  MaxFaults,  \* bound: datagrams lost, duplicated or overtaken
  MaxForwards \* bound: times a handler forwards one request

UdpAssumption ==
  /\ \A s \in Senders : Plans[s] \subseteq Seq({1, 2}) /\ Styles[s] \subseteq {"whole", "cut"}
  /\ MaxFaults \in Nat /\ MaxForwards \in Nat

VARIABLES
  plan, style,   \* chosen once
  sent,          \* cells of its messages each sender has sent
  net,           \* datagrams under way, per sender
  faults, disturbed,
  source_buffer, \* the cells gathered per sender
  received,      \* all cells ever received
  at,            \* the loop over the messages of a sender, if it runs
  started,       \* messages handed to goroutines, in order
  running,       \* requests of those: [s, n, hops]
  up             \* no panic yet

clients == <<plan, style, sent>>
vars == <<clients, net, faults, disturbed, source_buffer, received, at, started, running, up>>

MessageLen == 3
Cells(s) == [i \in 1 .. MessageLen * Len(plan[s]) |->
               LET id == ((i - 1) \div MessageLen) + 1 IN
               [id |-> id, ver |-> plan[s][id], k |-> ((i - 1) % MessageLen) + 1]]
Listening == [s |-> "none", ver |-> 0]
None == [s \in Senders |-> <<>>]

Init ==
  /\ \E p \in [Senders -> UNION {Plans[s] : s \in Senders}] :
       (\A s \in Senders : p[s] \in Plans[s]) /\ plan = p
  /\ \E y \in [Senders -> {"whole", "cut"}] :
       (\A s \in Senders : y[s] \in Styles[s]) /\ style = y
  /\ sent = [s \in Senders |-> 0]
  /\ net = None /\ faults = 0 /\ disturbed = [s \in Senders |-> FALSE]
  /\ source_buffer = None /\ received = None /\ started = None
  /\ at = Listening /\ running = {} /\ up = TRUE

-----------------------------------------------------------------------------
(* Clients and network. *)

(* sendMulti and sendMultiOldProto put whole messages of one version into a *)
(* datagram; other clients may cut messages anywhere.                       *)
SendDatagram(s, n) ==
  LET d == SubSeq(Cells(s), sent[s] + 1, sent[s] + n) IN
  /\ up
  /\ sent[s] + n <= Len(Cells(s))
  /\ style[s] = "whole" => n % MessageLen = 0 /\ \A i \in 1 .. n : d[i].ver = d[1].ver
  /\ net' = [net EXCEPT ![s] = Append(@, d)]
  /\ sent' = [sent EXCEPT ![s] = @ + n]
  /\ UNCHANGED <<plan, style, faults, disturbed, source_buffer, received, at, started, running, up>>

Fault(s) ==
  /\ up
  /\ faults < MaxFaults
  /\ faults' = faults + 1
  /\ disturbed' = [disturbed EXCEPT ![s] = TRUE]

Lose(s, i) ==
  /\ Fault(s)
  /\ net' = [net EXCEPT ![s] = RemoveAt(@, i)]
  /\ UNCHANGED <<clients, source_buffer, received, at, started, running, up>>

Duplicate(s, i) ==
  /\ Fault(s)
  /\ net' = [net EXCEPT ![s] = Append(@, @[i])]
  /\ UNCHANGED <<clients, source_buffer, received, at, started, running, up>>

-----------------------------------------------------------------------------
(* What processRequestData and processRequestDataV2 return: how far to move *)
(* on, or one of these.  A set, for bytes that are out of step.             *)
Wait  == 0
Flush == -1
Panic == -2

(* The type is not looked at: text of a version 1 message is a size of      *)
(* hundreds of megabytes, and parameters are any size.  Flush happens where *)
(* int has 32 bits.                                                         *)
processRequestDataV2(message) ==
  IF Len(message) < 2 /\ message[1].k < 3 THEN {Wait}
  ELSE IF message[1].ver = 1 /\ message[1].k < 3 THEN {Wait}
  ELSE IF message[1].k = 1 /\ message[2] = [message[1] EXCEPT !.k = 2]
  THEN IF Len(message) >= MessageLen THEN {MessageLen} ELSE {Wait}
  ELSE {Wait, Flush, Panic} \cup (IF message[1].k = 3 THEN 1 ELSE 2) .. Len(message)

(* Mutant: the length of the header is not added to that of the content. *)
processRequestDataBare(message) ==
  LET lenf == SelectInSeq(message, LAMBDA c : c.ver = 1 /\ c.k = 2) IN
  IF lenf = 0 THEN {Wait}
  ELSE IF lenf = 1 THEN {Panic}
  ELSE IF lenf = 2 /\ message[1].ver = 1 /\ message[1].k = 1
  THEN {1}
  ELSE {Wait, Flush} \cup lenf .. Len(message)

(* The header reaches to the first terminator, whatever it holds; an empty  *)
(* one is indexed by processHeader.                                         *)
processRequestData(message) ==
  LET lenf == SelectInSeq(message, LAMBDA c : c.ver = 1 /\ c.k = 2) IN
  IF lenf = 0 THEN {Wait}
  ELSE IF lenf = 1 THEN {Panic}
  ELSE IF lenf = 2 /\ message[1].ver = 1 /\ message[1].k = 1
  THEN IF Len(message) >= MessageLen THEN {MessageLen} ELSE {Wait}
  ELSE {Wait, Flush} \cup lenf .. Len(message)

(* Versions the first byte may tell: bodies and sizes hold any byte.        *)
Versions(cell) == IF cell.k = 1 THEN {cell.ver}
                  ELSE IF cell.k = 2 /\ cell.ver = 1 THEN {1} ELSE {1, 2}

ReceiveDatagram(s, i) ==
  LET d == net[s][i] IN
  /\ up /\ at = Listening
  /\ IF i = 1 THEN UNCHANGED <<faults, disturbed>> ELSE Fault(s)
  /\ net' = [net EXCEPT ![s] = RemoveAt(@, i)]
  /\ received' = [received EXCEPT ![s] = @ \o d]
  /\ source_buffer' = [source_buffer EXCEPT ![s] = @ \o d]
  /\ \E v \in Versions(source_buffer'[s][1]) : at' = [s |-> s, ver |-> v]
  /\ UNCHANGED <<clients, started, running, up>>

(* Mutant: one message per datagram is looked for. *)
MoveForwardOnce(s, n) ==
  LET message == source_buffer[s]
      rest    == SubSeq(message, n + 1, Len(message)) IN
  /\ started' = [started EXCEPT ![s] = Append(@, SubSeq(message, 1, n))]
  /\ running' = running \cup {[s |-> s, n |-> Len(started[s]) + 1, hops |-> 0]}
  /\ source_buffer' = [source_buffer EXCEPT ![s] = rest]
  /\ at' = Listening
  /\ UNCHANGED up

(* A message is complete: a goroutine runs it, the loop goes on behind it.  *)
MoveForward(s, n) ==
  LET message == source_buffer[s]
      rest    == SubSeq(message, n + 1, Len(message)) IN
  /\ started' = [started EXCEPT ![s] = Append(@, SubSeq(message, 1, n))]
  /\ running' = running \cup {[s |-> s, n |-> Len(started[s]) + 1, hops |-> 0]}
  /\ source_buffer' = [source_buffer EXCEPT ![s] = rest]
  /\ at' = IF rest = <<>> THEN Listening ELSE at
  /\ UNCHANGED up

(* One round of the loop of the version chosen for this datagram.           *)
ProcessMessage ==
  /\ up /\ at # Listening
  /\ LET s == at.s
         outcomes == IF at.ver = 2 THEN processRequestDataV2(source_buffer[s])
                     ELSE processRequestData(source_buffer[s]) IN
     \E move_forward \in outcomes :
       \/ /\ move_forward > 0
          /\ MoveForward(s, move_forward)
       \/ /\ move_forward \in {Wait, Flush}
          /\ source_buffer' = [source_buffer EXCEPT ![s] = IF move_forward = Wait THEN @ ELSE <<>>]
          /\ at' = Listening
          /\ UNCHANGED <<started, running, up>>
       \/ /\ move_forward = Panic
          /\ up' = FALSE
          /\ UNCHANGED <<source_buffer, at, started, running>>
  /\ UNCHANGED <<clients, net, faults, disturbed, received>>

-----------------------------------------------------------------------------
(* The goroutines of the requests: runRequestV2 calls the handler once,     *)
(* runRequest (version 1) again as long as it answers "X-Forward:".         *)
VersionOf(t) == started[t.s][t.n][1].ver

RunRequest(t) ==
  /\ up
  /\ \/ running' = running \ {t}
     \/ /\ VersionOf(t) = 1 /\ t.hops < MaxForwards
        /\ running' = (running \ {t}) \cup {[t EXCEPT !.hops = @ + 1]}
  /\ UNCHANGED <<clients, net, faults, disturbed, source_buffer, received, at, started, up>>

Next ==
  \/ \E s \in Senders : \/ \E n \in 1 .. Len(Cells(s)) : SendDatagram(s, n)
                        \/ \E i \in DOMAIN net[s] :
                             Lose(s, i) \/ Duplicate(s, i) \/ ReceiveDatagram(s, i)
  \/ ProcessMessage
  \/ \E t \in running : RunRequest(t)

Spec == Init /\ [][Next]_vars

(* The kernel hands over what arrived first; goroutines run.                *)
Fairness ==
  /\ \A s \in Senders : WF_vars(net[s] # <<>> /\ ReceiveDatagram(s, 1))
  /\ WF_vars(ProcessMessage)
  /\ WF_vars(\E t \in running : RunRequest(t))

FairSpec == Spec /\ Fairness

-----------------------------------------------------------------------------
IsCell(c) == c.id \in Nat /\ c.ver \in {1, 2} /\ c.k \in 1 .. MessageLen

TypeOK ==
  /\ \A s \in Senders : /\ plan[s] \in Plans[s] /\ style[s] \in Styles[s]
                        /\ sent[s] \in 0 .. Len(Cells(s))
                        /\ \A i \in DOMAIN source_buffer[s] : IsCell(source_buffer[s][i])
  /\ faults \in 0 .. MaxFaults
  /\ disturbed \in [Senders -> BOOLEAN]
  /\ at = Listening \/ (at.s \in Senders /\ at.ver \in {1, 2})
  /\ running \subseteq [s : Senders, n : Nat, hops : 0 .. MaxForwards]
  /\ up \in BOOLEAN

(* A sender whose bytes are in step: whole messages in each datagram, as    *)
(* the clients of this repository send them, or one version, and nothing    *)
(* lost, repeated or overtaken.                                             *)
OneVersion(s) == \A i, j \in DOMAIN plan[s] : plan[s][i] = plan[s][j]
InStep(s) == style[s] = "whole" \/ (OneVersion(s) /\ ~disturbed[s])

IsMessage(c) == /\ Len(c) = MessageLen
                /\ \A k \in 1 .. MessageLen : c[k] = [c[1] EXCEPT !.k = k]

(* Each request of a sender in step is one message, and requests and what   *)
(* is gathered are together all it was heard to say, in order; a sender of  *)
(* whole datagrams needs no order and no single copy for that, and leaves   *)
(* nothing behind.  Damage to the stream of another sender changes nothing. *)
StreamInStep ==
  \A s \in Senders : InStep(s) =>
    /\ \A i \in DOMAIN started[s] : IsMessage(started[s][i])
    /\ FlattenSeq(started[s]) \o source_buffer[s] = received[s]
    /\ style[s] = "whole" /\ at.s # s => source_buffer[s] = <<>>

(* The server goes down, and requests are made of pieces of messages, only  *)
(* where some sender cuts messages and is out of step.                      *)
DownOnlyOutOfStep == (\A s \in Senders : InStep(s)) => up

(* What a sender has sent undisturbed is served, all of it, unless the      *)
(* server goes down.                                                        *)
AllServed(s) == Len(started[s]) = Len(plan[s]) /\ \A t \in running : t.s # s
SentIsServed ==
  \A s \in Senders :
    (sent[s] = Len(Cells(s)) /\ InStep(s)) ~> (AllServed(s) \/ disturbed[s] \/ ~up)

(* Senders in step are served message by message, and nobody else's stream  *)
(* ends the server.                                                         *)
StreamsServed == StreamInStep /\ DownOnlyOutOfStep
=============================================================================
