------------------------------ MODULE RpcClient ------------------------------
(***************************************************************************)
(* The PHP client (HSClient.php) in one worker process of the web server,  *)
(* which runs script after script.  The connection outlives the script     *)
(* (pfsockopen), with whatever is on it; what the client knows of it       *)
(* ($conn_props) does not.  A call returns its own answer, false, or, with *)
(* __skipsendback, at once.  Each connection is a Session: the server may  *)
(* be slow, serves the messages of a connection in order, also after the   *)
(* client closed it, and may give up at any time.                          *)
(*                                                                         *)
(* GUIDs are taken to be different.  A script has one client object.  A    *)
(* conn-ex message, of some 60 bytes, is written whole or not at all, and  *)
(* no script ends between two parts of one message.  A message that a      *)
(* failed write cut off is not served, not even by a server astray.        *)
(***************************************************************************)
EXTENDS Integers, Sequences

CONSTANTS Retries,    \* retries_left at the beginning of a call (3)
          MaxCalls,   \* bound: calls of sendData
          MaxConns,   \* bound: connections opened
          MaxStray    \* bound: answers to read when an astray server sends another

ASSUME RpcAssumption == /\ Retries \in Nat /\ MaxCalls \in Nat /\ MaxStray \in Nat
                        /\ MaxConns \in Nat \ {0}

Calls == 1 .. MaxCalls
Conns == 1 .. MaxConns
ConnEx == 0                   \* the id of a conn-ex message
Nobody == -1                  \* of the answers to what no client sent

(* What is left of an answer that was partly read.  sendBack writes GUID,   *)
(* then Content-Length, then the terminator and the body: "all" has them    *)
(* all, "length" has no GUID, "rest" may lack the length and the terminator *)
(* and is, or contains, text of the body.  What each leaves if it is cut:   *)
Cuts == [all |-> {"all", "length", "rest"}, length |-> {"length", "rest"}, rest |-> {"rest"}]

Messages == [id : 0 .. MaxCalls, silent : BOOLEAN]
Answers == [id : -1 .. MaxCalls, left : DOMAIN Cuts]

VARIABLES
  conns,     \* per connection: messages and answers under way, whether its
             \*   server is "up", "astray" (see Session) or "down", whether
             \*   the client used it (ftell), and whether it is spoilt: an
             \*   answer was left half read, or the server went astray
  opened,    \* how many were opened
  cur,       \* the persistent connection of the process, 0 if none
  script,    \* a script runs
  sock,      \* its client has a socket
  safe,      \* conn_props[...]['safe']
  call,      \* the call under way: [pc, id, skip, retries_left]
  calls,     \* how many were made
  result,    \* what they returned
  served     \* how often each was served

vars == <<conns, opened, cur, script, sock, safe, call, calls, result, served>>

NoCall == [pc |-> "idle", id |-> 0, skip |-> FALSE, retries_left |-> 0]

Init ==
  /\ conns = [c \in Conns |-> [inbox |-> <<>>, outbox |-> <<>>, server |-> "up",
                               used |-> FALSE, spoilt |-> FALSE]]
  /\ opened = 0 /\ cur = 0
  /\ script = FALSE /\ sock = FALSE /\ safe = FALSE
  /\ call = NoCall /\ calls = 0
  /\ result = [i \in Calls |-> "none"] /\ served = [i \in Calls |-> 0]

-----------------------------------------------------------------------------
(* The server: Session, for each connection. *)

(* An answer that is wanted, given while another message is on its way, may *)
(* be written over that message.                                            *)
Serve(c) ==
  LET m == Head(conns[c].inbox) IN
  /\ conns[c].server # "down" /\ conns[c].inbox # <<>>
  /\ \E astray \in BOOLEAN :
       /\ astray => ~m.silent /\ Tail(conns[c].inbox) # <<>>
       /\ conns' = [conns EXCEPT ![c].inbox = Tail(@),
                                 ![c].outbox = IF m.silent THEN @
                                               ELSE Append(@, [id |-> m.id, left |-> "all"]),
                                 ![c].server = IF astray THEN "astray" ELSE @,
                                 ![c].spoilt = @ \/ astray]
  /\ served' = [i \in Calls |-> served[i] + IF i = m.id THEN 1 ELSE 0]
  /\ UNCHANGED <<opened, cur, script, sock, safe, call, calls, result>>

(* It may then answer what no client sent, under any GUID, or none, and not *)
(* see where a message begins, besides serving messages as before.          *)
StrayAnswer(c) ==
  /\ c = cur /\ conns[c].server = "astray" /\ Len(conns[c].outbox) < MaxStray
  /\ conns' = [conns EXCEPT ![c].outbox = Append(@, [id |-> Nobody, left |-> "rest"])]
  /\ UNCHANGED <<opened, cur, script, sock, safe, call, calls, result, served>>

Miss(c) ==
  /\ conns[c].server = "astray" /\ conns[c].inbox # <<>>
  /\ conns' = [conns EXCEPT ![c].inbox = Tail(@)]
  /\ UNCHANGED <<opened, cur, script, sock, safe, call, calls, result, served>>

(* One that the client has closed may as well never be served again. *)
Break(c) ==
  /\ c = cur /\ conns[c].server # "down"
  /\ conns' = [conns EXCEPT ![c].server = "down"]
  /\ UNCHANGED <<opened, cur, script, sock, safe, call, calls, result, served>>

-----------------------------------------------------------------------------
(* Connecting: _connect and initializeClient, twice if the first exchange   *)
(* of conn-ex fails.  That it fails again is not looked at: what is left of *)
(* it stays on the connection.  "plain" is without conn-ex.                 *)
Outcomes == {"refused", "plain", "initialised", "lingering"}

(* Mutant: what was read of the old connection but not used is not dropped. *)
OpenKeeping(how) ==
  IF how = "refused"
  THEN /\ cur' = 0 /\ sock' = FALSE /\ safe' = FALSE
       /\ UNCHANGED <<conns, opened>>
  ELSE /\ opened < MaxConns
       /\ opened' = opened + 1
       /\ cur' = opened'
       /\ sock' = TRUE
       /\ safe' = (how = "initialised")
       /\ conns' = [conns EXCEPT ![opened'].used = how # "plain",
                                 ![opened'].outbox = IF cur = 0 THEN @ ELSE conns[cur].outbox]

Open(how) ==
  IF how = "refused"
  THEN /\ cur' = 0 /\ sock' = FALSE /\ safe' = FALSE
       /\ UNCHANGED <<conns, opened>>
  ELSE /\ opened < MaxConns
       /\ opened' = opened + 1
       /\ cur' = opened'
       /\ sock' = TRUE
       /\ safe' = (how = "initialised")
       /\ conns' = [conns EXCEPT ![opened'].inbox = IF how = "lingering"
                                                    THEN <<[id |-> ConnEx, silent |-> FALSE]>>
                                                    ELSE <<>>,
                                 ![opened'].used = how # "plain"]

(* What o may be once some of it, up to the middle of an answer, was read.  *)
Remains(o) ==
  {<<>>} \cup UNION {{[SubSeq(o, k, Len(o)) EXCEPT ![1].left = l] : l \in Cuts[o[k].left]} :
                      k \in 1 .. Len(o)}

(* initializeClient, the second time, read a part of the answer: a header   *)
(* that is cut by the network makes the next fread one of a negative length.*)
(* All that can come between Open and this is that the server answers.      *)
HalfRead ==
  /\ sock /\ call.pc # "read"
  /\ conns[cur].inbox = <<>> /\ conns[cur].outbox = <<[id |-> ConnEx, left |-> "all"]>>
  /\ \E o \in Remains(conns[cur].outbox) \ {<<>>} :
       conns' = [conns EXCEPT ![cur].outbox = o, ![cur].spoilt = TRUE]
  /\ UNCHANGED <<opened, cur, script, sock, safe, call, calls, result, served>>

(* pfsockopen returns the connection of the process unless it is seen to be *)
(* dead.                                                                    *)
Reusable == cur # 0 /\ (conns[cur].server # "down" \/ conns[cur].outbox # <<>>)

Reuse == sock' = TRUE /\ UNCHANGED <<cur, opened>>

(* Mutant: what an earlier script knew of the connection is trusted. *)
StartTrusting ==
  /\ ~script /\ calls < MaxCalls
  /\ script' = TRUE
  /\ IF Reusable THEN Reuse /\ UNCHANGED <<safe, conns>>
     ELSE \E how \in Outcomes : Open(how)
  /\ UNCHANGED <<call, calls, result, served>>

(* A script constructs its client.  A connection that was used (ftell) is   *)
(* not initialised again; one that was not is, perhaps without conn-ex, and *)
(* if that fails it is closed and another opened.                           *)
Start ==
  /\ ~script /\ calls < MaxCalls
  /\ script' = TRUE
  /\ \/ Reusable /\ conns[cur].used /\ Reuse /\ safe' = FALSE /\ UNCHANGED conns
     \/ /\ Reusable /\ ~conns[cur].used /\ Reuse
        /\ safe' \in BOOLEAN
        /\ conns' = [conns EXCEPT ![cur].used = safe']
     \/ (Reusable => ~conns[cur].used) /\ \E how \in Outcomes : Open(how)
  /\ UNCHANGED <<call, calls, result, served>>

Stop == /\ script' = FALSE /\ sock' = FALSE /\ call' = NoCall
        /\ UNCHANGED <<opened, safe, calls, result, served>>

(* The script ends; setDisablePersistent makes it close the connection.     *)
End(persistent) ==
  /\ script /\ call.pc = "idle"
  /\ Stop
  /\ cur' = IF persistent THEN cur ELSE 0
  /\ UNCHANGED conns

(* The script is ended in the middle of a call, with nothing of what there  *)
(* is read or with some of it.                                              *)
Die(reading) ==
  /\ script /\ call.pc # "idle"
  /\ Stop /\ UNCHANGED cur
  /\ IF reading
     THEN /\ call.pc = "read" /\ conns[cur].outbox # <<>>
          /\ \E o \in Remains(conns[cur].outbox) :
               conns' = [conns EXCEPT ![cur].outbox = o, ![cur].spoilt = TRUE]
     ELSE UNCHANGED conns

-----------------------------------------------------------------------------
(* sendData *)

Call(skip) ==
  /\ script /\ call.pc = "idle" /\ calls < MaxCalls
  /\ calls' = calls + 1
  /\ IF sock
     THEN /\ call' = [pc |-> "write", id |-> calls', skip |-> skip /\ safe, retries_left |-> Retries]
          /\ UNCHANGED result
     ELSE /\ result' = [result EXCEPT ![calls'] = "false"]
          /\ UNCHANGED call
  /\ UNCHANGED <<conns, opened, cur, script, sock, safe, served>>

Return(r) == /\ result' = [result EXCEPT ![call.id] = r]
             /\ call' = NoCall

(* The whole message is written; the server may be gone without the client  *)
(* noticing.                                                                *)
Write ==
  /\ call.pc = "write" /\ sock
  /\ conns' = [conns EXCEPT ![cur].inbox = Append(@, [id |-> call.id, silent |-> call.skip]),
                            ![cur].used = TRUE]
  /\ IF call.skip THEN Return("skipped")
     ELSE call' = [call EXCEPT !.pc = "read"] /\ UNCHANGED result
  /\ UNCHANGED <<opened, cur, script, sock, safe, calls, served>>

(* Mutant: the retries are not counted. *)
WriteFailsForever ==
  /\ call.pc = "write"
  /\ \E how \in Outcomes : Open(how)
  /\ UNCHANGED <<call, result, script, calls, served>>

(* Mutant: one retry too many is counted before the call gives up. *)
WriteFailsLate ==
  /\ call.pc = "write"
  /\ \E how \in Outcomes : Open(how)
  /\ IF call.retries_left < 0 THEN Return("false")
     ELSE call' = [call EXCEPT !.retries_left = @ - 1] /\ UNCHANGED result
  /\ UNCHANGED <<script, calls, served>>

(* A write fails, perhaps with a part of the message sent, or there is no   *)
(* socket: _reconnect, and the message is sent again from its beginning.    *)
WriteFails ==
  /\ call.pc = "write"
  /\ \E how \in Outcomes : Open(how)
  /\ IF call.retries_left = 0 THEN Return("false")
     ELSE call' = [call EXCEPT !.retries_left = @ - 1] /\ UNCHANGED result
  /\ UNCHANGED <<script, calls, served>>

NextAnswer == Head(conns[cur].outbox)

(* The answer with the GUID of the call; what there is of others before it  *)
(* has no terminator and is taken for a part of the header.                 *)
ReadAnswer ==
  /\ call.pc = "read"
  /\ \E k \in 1 .. Len(conns[cur].outbox) :
       /\ conns[cur].outbox[k] = [id |-> call.id, left |-> "all"]
       /\ \A j \in 1 .. k - 1 : conns[cur].outbox[j].left = "rest"
       /\ conns' = [conns EXCEPT ![cur].outbox = SubSeq(@, k + 1, Len(@))]
  /\ safe' = TRUE
  /\ Return("own")
  /\ UNCHANGED <<opened, cur, script, sock, calls, served>>

(* Mutant: after a timeout the message is sent again. *)
ReadFailsResend ==
  /\ call.pc = "read"
  /\ \E how \in Outcomes : Open(how)
  /\ call' = [call EXCEPT !.pc = "write"]
  /\ UNCHANGED <<result, script, calls, served>>

(* No answer in time, a header that is cut by the network, the answer to    *)
(* another call, a length that is not that of what was read: the connection *)
(* is closed and another opened.                                            *)
ReadFails ==
  /\ call.pc = "read"
  /\ \E how \in Outcomes : Open(how)
  /\ Return("false")
  /\ UNCHANGED <<script, calls, served>>

(* The end of an answer is read as an answer without GUID, which is not     *)
(* looked for.  With a length, it is the body of another call's; the rest   *)
(* of one is "" or what its text says.  Something behind makes the client   *)
(* reconnect; what it returns is the same.                                  *)
ReadTail(more) ==
  /\ call.pc = "read" /\ conns[cur].outbox # <<>>
  /\ NextAnswer.left # "all"
  /\ IF more
     THEN /\ NextAnswer.left = "rest" \/ Len(conns[cur].outbox) > 1
          /\ \E how \in Outcomes : Open(how)
     ELSE /\ \E o \in IF NextAnswer.left = "length" THEN {Tail(conns[cur].outbox)}
                                                   ELSE Remains(conns[cur].outbox) :
               conns' = [conns EXCEPT ![cur].outbox = o]
          /\ safe' = TRUE /\ UNCHANGED <<opened, cur, sock>>
  /\ Return("other")
  /\ UNCHANGED <<script, calls, served>>

CallStep == Write \/ WriteFails \/ ReadAnswer \/ ReadFails \/ \E more \in BOOLEAN : ReadTail(more)

Next ==
  \/ \E c \in Conns : Serve(c) \/ StrayAnswer(c) \/ Miss(c) \/ Break(c)
  \/ HalfRead
  \/ Start \/ \E b \in BOOLEAN : End(b) \/ Die(b) \/ Call(b)
  \/ CallStep

Spec == Init /\ [][Next]_vars

(* fwrite and fread return: they have timeouts. *)
FairSpec == Spec /\ WF_vars(CallStep)

-----------------------------------------------------------------------------
TypeOK ==
  /\ conns \in [Conns -> [inbox : Seq(Messages), outbox : Seq(Answers),
                          server : {"up", "astray", "down"}, used : BOOLEAN, spoilt : BOOLEAN]]
  /\ opened \in 0 .. MaxConns /\ cur \in 0 .. opened
  /\ script \in BOOLEAN /\ sock \in BOOLEAN /\ safe \in BOOLEAN
  /\ call \in [pc : {"idle", "write", "read"}, id : 0 .. MaxCalls, skip : BOOLEAN,
               retries_left : 0 .. Retries]
  /\ calls \in 0 .. MaxCalls
  /\ result \in [Calls -> {"none", "own", "false", "skipped", "other"}]
  /\ served \in [Calls -> Nat]

(* Where an answer to something older may be waiting, or still come.        *)
Lingering(c) == conns[c].outbox # <<>>
                \/ \E i \in DOMAIN conns[c].inbox : ~conns[c].inbox[i].silent

(* A client that trusts its connection has nothing on it that an older call *)
(* or script left, unless an answer was left half read on it - a script     *)
(* died over it, or conn-ex was given up within it - or the server read one *)
(* of its own answers for a message.                                        *)
SafeMeansClean ==
  script /\ safe /\ call.pc # "read" => cur # 0 /\ (Lingering(cur) => conns[cur].spoilt)

(* A call never returns what is not its answer, of its own script or of an  *)
(* earlier one, unless a connection was spoilt like that.                   *)
OwnOrNothing ==
  (\E i \in Calls : result[i] = "other") => \E c \in Conns : conns[c].spoilt

(* Resending, reconnecting and giving up: no call is served twice, one that *)
(* has its answer was served, and one that found no socket was not.         *)
AtMostOnce ==
  \A i \in Calls : /\ served[i] <= 1
                   /\ result[i] = "own" => served[i] = 1

(* The answer of a call is its own or none, but on spoilt connections, and  *)
(* its message was served at most once for it, spoilt or not.               *)
OwnOnceOrNothing == OwnOrNothing /\ AtMostOnce

(* What the client does with each connection, in all of that, is what the   *)
(* server's promise is about.                                               *)
S(c) == INSTANCE Session WITH
          Ids <- 0 .. MaxCalls, Nobody <- Nobody,
          inbox <- conns[c].inbox,
          outbox <- [i \in DOMAIN conns[c].outbox |-> conns[c].outbox[i].id],
          server <- conns[c].server
ConnectionsAreSessions ==
  /\ \A c \in Conns : S(c)!Init
  /\ [][\A c \in Conns : [S(c)!Next]_(S(c)!vars)]_conns

(* Every call returns, or its script is ended.                              *)
CallReturns == call.pc # "idle" ~> call.pc = "idle"
=============================================================================
