----------------------------- MODULE MCFraming -----------------------------
(* Messages and senders of Framing, for TLC. *)
EXTENDS Framing

MCGuids == {<<>>, <<1>>}
MCKeys  == {<<>>, <<0>>, <<1>>, <<1, 0, 1>>}
MCVals  == {<<>>, <<0>>, <<1, 1>>}

(* One sender of messages of any version, whole or cut; the others send one *)
(* whole message.                                                           *)
Talker == CHOOSE s \in Senders : TRUE
MCPlans  == [s \in Senders |-> IF s = Talker THEN {<<1, 1>>, <<2, 2>>, <<2, 1>>} ELSE {<<2>>}]
MCStyles == [s \in Senders |-> IF s = Talker THEN {"whole", "cut"} ELSE {"whole"}]
=============================================================================
