----------------------------- MODULE ConfigMerge -----------------------------
(***************************************************************************)
(* Local interfaces and conditional configuration                          *)
(* (_cfg_local_interfaces, _cfg_conditional_config of                      *)
(* config/config_loader.go).  The values of PARAM_<interface> are added to *)
(* PARAM when the interface is a local one, and those of LOCAL_IP are      *)
(* local interfaces themselves; the keys are visited in the random order   *)
(* of a Go map.  Values are sets: their order in the list is left out.     *)
(***************************************************************************)
EXTENDS Integers, FiniteSets

CONSTANTS Interfaces, \* names of interfaces; also the values of LOCAL_IP
          Values,     \* values of the other parameter
          Param,      \* a parameter other than LOCAL_IP
          Files       \* what the file may hold: values per key, {} for no key

LocalIP == "LOCAL_IP"
Plain   == "plain"

(* <<parameter, interface>>, or <<parameter, Plain>>. *)
Keys == {LocalIP, Param} \X (Interfaces \cup {Plain})

MergeKeysAssumption ==
  /\ Plain \notin Interfaces /\ Param # LocalIP
  /\ Files \subseteq [Keys -> SUBSET (Interfaces \cup Values)]
  /\ \A f \in Files : \A k \in Keys : f[k] \subseteq (IF k[1] = LocalIP THEN Interfaces ELSE Values)

VARIABLES machine,          \* interfaces of the machine
          written,          \* the file
          config,           \* the map that is changed
          todo,             \* keys not yet visited
          local_interfaces,
          done

vars == <<machine, written, config, todo, local_interfaces, done>>

Has(k) == config[k] # {}

(* After _cfg_local_interfaces. *)
Init ==
  /\ machine \in (SUBSET Interfaces) \ {{}}
  /\ written \in Files
  /\ config = written
  /\ todo = {k \in Keys : Has(k)}
  /\ local_interfaces = machine \cup written[<<LocalIP, Plain>>]
  /\ done = FALSE

Matching(p) == UNION {config[<<p, i>>] : i \in local_interfaces}

(* Mutant: the conditional values take the place of the plain ones. *)
VisitReplacing(k) ==
  /\ k \in todo
  /\ todo' = todo \ {k}
  /\ config' = IF k[2] = Plain /\ Matching(k[1]) # {}
               THEN [config EXCEPT ![k] = Matching(k[1])] ELSE config
  /\ local_interfaces' = IF k = <<LocalIP, Plain>>
                         THEN local_interfaces \cup Matching(LocalIP) ELSE local_interfaces
  /\ UNCHANGED <<machine, written, done>>

(* _do_conditional for a key of the file; the interfaces are those from     *)
(* before the call.                                                         *)
Visit(k) ==
  /\ k \in todo
  /\ todo' = todo \ {k}
  /\ config' = IF k[2] = Plain THEN [config EXCEPT ![k] = @ \cup Matching(k[1])] ELSE config
  /\ local_interfaces' = IF k = <<LocalIP, Plain>>
                         THEN local_interfaces \cup Matching(LocalIP) ELSE local_interfaces
  /\ UNCHANGED <<machine, written, done>>

(* The forced keys: what _do_conditional returns is thrown away, so only    *)
(* LOCAL_IP has an effect.                                                  *)
ForceKeys ==
  /\ todo = {} /\ ~done
  /\ done' = TRUE
  /\ local_interfaces' = IF Has(<<LocalIP, Plain>>) THEN local_interfaces
                         ELSE local_interfaces \cup Matching(LocalIP)
  /\ UNCHANGED <<machine, written, config, todo>>

Next == (\E k \in Keys : Visit(k)) \/ ForceKeys

Spec == Init /\ [][Next]_vars

-----------------------------------------------------------------------------
TypeOK ==
  /\ machine \subseteq Interfaces /\ local_interfaces \subseteq Interfaces
  /\ config \in [Keys -> SUBSET (Interfaces \cup Values)]
  /\ todo \subseteq Keys /\ done \in BOOLEAN

Selected(p, local) == written[<<p, Plain>>] \cup UNION {written[<<p, i>>] : i \in local}
Local0 == machine \cup written[<<LocalIP, Plain>>]

(* "if local ip is matching add the param to the original parameter"        *)
(* (_cfg_conditional_config): a parameter of the file has its values and    *)
(* those for the interfaces of the machine, and others only for interfaces  *)
(* that LOCAL_IP made local, whichever order the keys were visited in.  One *)
(* that the file has for interfaces only stays empty.                       *)
ConditionalBetween ==
  done => IF written[<<Param, Plain>>] = {} THEN config[<<Param, Plain>>] = {}
          ELSE /\ Selected(Param, Local0) \subseteq config[<<Param, Plain>>]
               /\ config[<<Param, Plain>>] \subseteq Selected(Param, local_interfaces)

(* Which addresses count as local does not depend on that order.            *)
LocalDetermined == done => local_interfaces = machine \cup Selected(LocalIP, Local0)

(* What of the merged configuration does not depend on the order in which   *)
(* Go visits the keys, and how far the rest may.                            *)
ConfigMerged == ConditionalBetween /\ LocalDetermined
=============================================================================
