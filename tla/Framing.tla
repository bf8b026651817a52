------------------------------ MODULE Framing ------------------------------
(***************************************************************************)
(* Three parts that put messages into bytes and take them out again, each  *)
(* on its own: the pieces of a compressed answer, the parameters of a      *)
(* message, messages in datagrams.  part says which one a behaviour is     *)
(* about; the variables of the others stay as they are.                    *)
(***************************************************************************)
EXTENDS Integers, Sequences

CONSTANTS BlockSize, Lengths, ChunkSizes,             \* PieceMerge
          Base, Guids, Keys, Vals, MaxParams,         \* HSMessage
          Senders, Plans, Styles,
          MaxFaults, MaxForwards                      \* UdpService

VARIABLES part,
          in_len, chunks, out, dst_pos, i, pc,
          data, guid, length, message, reading, param, porder,
          plan, style, sent, net, faults, disturbed, source_buffer, received,
          at, started, running, up

Merge   == INSTANCE PieceMerge
Message == INSTANCE HSMessage
Udp     == INSTANCE UdpService

(* What the parts assume of these constants. *)
ASSUME PartsAssumption ==
  Merge!MergeAssumption /\ Message!MessageAssumption /\ Udp!UdpAssumption

merge_vars   == <<in_len, chunks, out, dst_pos, i, pc>>
message_vars == <<data, guid, length, message, reading, param, porder>>
udp_vars     == <<plan, style, sent, net, faults, disturbed, source_buffer, received,
                  at, started, running, up>>
vars == <<part, merge_vars, message_vars, udp_vars>>

NoMerge == /\ in_len = 0 /\ chunks = <<>> /\ out = <<>> /\ dst_pos = 0 /\ i = 0 /\ pc = "merged"
NoMessage == /\ data = <<>> /\ guid = <<>> /\ length = 0 /\ message = <<>>
             /\ reading = "nil" /\ param = <<>> /\ porder = <<>>
NoUdp == /\ plan = Udp!None /\ style = [s \in Senders |-> "whole"]
         /\ sent = [s \in Senders |-> 0] /\ net = Udp!None
         /\ faults = 0 /\ disturbed = [s \in Senders |-> FALSE]
         /\ source_buffer = Udp!None /\ received = Udp!None /\ started = Udp!None
         /\ at = Udp!Listening /\ running = {} /\ up = FALSE

Init == \/ part = "merge"   /\ Merge!Init /\ NoMessage /\ NoUdp
        \/ part = "message" /\ NoMerge /\ Message!Init /\ NoUdp
        \/ part = "udp"     /\ NoMerge /\ NoMessage /\ Udp!Init

Next ==
  \/ part = "merge"   /\ Merge!Next   /\ UNCHANGED <<part, message_vars, udp_vars>>
  \/ part = "message" /\ Message!Next /\ UNCHANGED <<part, merge_vars, udp_vars>>
  \/ part = "udp"     /\ Udp!Next     /\ UNCHANGED <<part, merge_vars, message_vars>>

(* A service that is not up has nothing to be fair about. *)
Spec == Init /\ [][Next]_vars /\ Udp!Fairness

-----------------------------------------------------------------------------
(* PieceMerge: merging in place is right unless a piece is moved over one   *)
(* that is still in its block, and never leaves the buffer.                 *)
PiecesMerged == part = "merge" => Merge!TypeOK /\ Merge!PiecesMerged

(* HSMessage: what the clients write is what ReadHSParams reads; a message  *)
(* cut short is refused or read up to the cut.                              *)
ParametersRead == part = "message" => Message!TypeOK /\ Message!ParametersRead

(* UdpService: a sender in step is served message by message, whatever is   *)
(* lost, repeated or overtaken of whole messages, and ends nothing.         *)
StreamsServed == part = "udp" => Udp!TypeOK /\ Udp!StreamsServed

(* UdpService: what was sent undisturbed is served.                         *)
SentIsServed == Udp!SentIsServed
=============================================================================
