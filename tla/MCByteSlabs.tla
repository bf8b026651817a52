---------------------------- MODULE MCByteSlabs ----------------------------
(***************************************************************************)
(* Instances of ByteSlabs for TLC, and the properties that need sums.      *)
(***************************************************************************)
EXTENDS ByteSlabs, FiniteSetsExt, TLC

Symmetry == Permutations(Requests)

(* The totals of GetStatusStr: calls served by a slab plus calls that       *)
(* failed, a call that was routed being refused once without failing.       *)
ItemsTotal ==
  MapThenSumSet(LAMBDA c : stat[c]["full"] + stat[c]["small"] + stat[c]["tail"]
                             + stat[c]["oom"] - stat[c]["routed"],
                Chunks)

(* Counted already, not yet in the statistics of any chunk (a routed call   *)
(* was taken out again).                                                    *)
Undecided == Cardinality({r \in Requests : pc[r] \in {"home", "route"}})

(* The status page prints "Items Total" next to "Real Total": with nobody   *)
(* inside Allocate they agree, whatever was routed, refused or retried.     *)
TotalsAgree == ItemsTotal + Undecided = ttT_total
=============================================================================
