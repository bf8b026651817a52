------------------------------ MODULE MCUpkeep ------------------------------
(* Files, interfaces and handlers of Upkeep, for TLC. *)
EXTENDS Upkeep

(* Two files of one size, one of another, an empty one that is being        *)
(* written.                                                                 *)
Other  == CHOOSE t \in Texts : TRUE
MCSizeOf == [t \in Texts \cup {Half, Gone} |-> CASE t = Other -> 5 [] t \in {Half, Gone} -> 0 [] OTHER -> 4]

(* LOCAL_IP may lead from one interface to a second, and that to a third.   *)
MergeKeys == {"LOCAL_IP", Param} \X (Interfaces \cup {"plain"})
Place == CHOOSE s \in [1 .. 3 -> Interfaces] : Interfaces = {s[n] : n \in 1 .. 3}
Usual == CHOOSE v \in Values : TRUE
May   == [k \in MergeKeys |-> CASE k = <<"LOCAL_IP", "plain">>  -> {Place[2]}
                                [] k = <<"LOCAL_IP", Place[1]>> -> {Place[2]}
                                [] k = <<"LOCAL_IP", Place[2]>> -> {Place[3]}
                                [] k = <<"LOCAL_IP", Place[3]>> -> {}
                                [] k = <<Param, "plain">>       -> {Usual}
                                [] OTHER                        -> Values \ {Usual}]
MCFiles == {[k \in MergeKeys |-> IF k \in present THEN May[k] ELSE {}] :
            present \in SUBSET {k \in MergeKeys : May[k] # {}}}

(* One handler takes every action, even that of the server itself.          *)
Greedy       == CHOOSE h \in Handlers : TRUE
Asked        == CHOOSE a \in Actions \ OwnActions : TRUE
MCGetActions == [h \in Handlers |-> {Asked} \cup IF h = Greedy THEN OwnActions ELSE {}]
=============================================================================
