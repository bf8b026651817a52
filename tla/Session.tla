------------------------------- MODULE Session -------------------------------
(***************************************************************************)
(* What one connection of the server promises its client: messages are     *)
(* served at most once and in the order they were sent, each answer        *)
(* belongs to the message served at that moment, a message that asks for   *)
(* no answer gets none, and at any time the server may give up and serve   *)
(* nothing more.  The promise ends when a message is answered while        *)
(* another is on its way behind it: the server may then read its own       *)
(* answer for a message, send anything and miss messages.  The client      *)
(* reads answers in order, one or several at a time.  TcpSession           *)
(* implements it; RpcClient is built on it.                                *)
(***************************************************************************)
EXTENDS Naturals, Sequences

CONSTANTS Ids,        \* names of messages
          Nobody      \* what else an answer may be addressed to

Message == [id : Ids, silent : BOOLEAN]   \* silent: no answer is wanted

VARIABLES inbox,      \* messages sent and not yet served
          outbox,     \* answers sent and not yet read, by the id they belong to
          server      \* "up", "astray" or "down": whether it still serves this connection

vars == <<inbox, outbox, server>>

Init == /\ inbox = <<>>
        /\ outbox = <<>>
        /\ server = "up"

Send == /\ \E m \in Message : inbox' = Append(inbox, m)
        /\ UNCHANGED <<outbox, server>>

Serve == /\ server # "down"
         /\ inbox # <<>>
         /\ inbox' = Tail(inbox)
         /\ IF Head(inbox).silent THEN UNCHANGED <<outbox, server>>
            ELSE /\ outbox' = Append(outbox, Head(inbox).id)
                 /\ \/ UNCHANGED server
                    \/ Tail(inbox) # <<>> /\ server' = "astray"

Stray == /\ server = "astray"
         /\ \E id \in Ids \cup {Nobody} : outbox' = Append(outbox, id)
         /\ UNCHANGED <<inbox, server>>

Miss == /\ server = "astray"
        /\ inbox # <<>>
        /\ inbox' = Tail(inbox)
        /\ UNCHANGED <<outbox, server>>

Receive == /\ outbox # <<>>
           /\ \E k \in 1 .. Len(outbox) : outbox' = SubSeq(outbox, k + 1, Len(outbox))
           /\ UNCHANGED <<inbox, server>>

Break == /\ server # "down"
         /\ server' = "down"
         /\ UNCHANGED <<inbox, outbox>>

Next == Send \/ Serve \/ Stray \/ Miss \/ Receive \/ Break

Spec == Init /\ [][Next]_vars
=============================================================================
