------------------------------- MODULE UdpStats -------------------------------
(***************************************************************************)
(* The register of UDP requests shown on the status page (hs_udp.go, with  *)
(* the requests of hs_udp_v1.go).  Requests are keyed by the sender's      *)
(* address, so requests of one sender that run at the same time share an   *)
(* entry, and a new one replaces it.  A finished entry is put into the     *)
(* cleaner bucket of the current time slot; a ticker takes the buckets in  *)
(* turn and starts a goroutine that deletes what is finished and hands the *)
(* rest back.                                                              *)
(*                                                                         *)
(* udpStatMutex covers the register and is held while a finished key goes  *)
(* into its bucket; the slot position and each bucket have their own locks.*)
(***************************************************************************)
EXTENDS Integers, FiniteSets

CONSTANTS Keys,          \* sender addresses
          Requests,      \* request goroutines at the same time
          Cleaners,      \* bound: callback goroutines at the same time
          NumCleaners,   \* buckets (3)
          MaxDatagrams,  \* bound: messages received in a behaviour
          NoEntry, NoOne

ASSUME UdpAssumption ==
  /\ NumCleaners \in Nat /\ NumCleaners > 1
  /\ MaxDatagrams \in Nat
  /\ Keys # {}
  /\ NoOne \notin Requests
  /\ NoEntry \notin [status : {"O", "P", "F", "X"}, pending : -MaxDatagrams .. MaxDatagrams]

Slots == 0 .. NumCleaners - 1

VARIABLES
  udpStats,        \* per key, its entry: [status, pending] or NoEntry
  udpStatMutex,    \* the request that holds it between two steps
  stat_cleaners,   \* per slot, the keys in its bucket
  item_pos,        \* the current slot
  req,             \* per goroutine, [pc, key, pos]
  cleaner,         \* per callback goroutine, [pc, ids, pos]
  received         \* messages received so far

vars == <<udpStats, udpStatMutex, stat_cleaners, item_pos, req, cleaner, received>>

NoKey == CHOOSE k \in Keys : TRUE   \* what a goroutine without a request has
Ended == [pc |-> "none", key |-> NoKey, pos |-> 0]
Idle  == [pc |-> "idle", ids |-> {}, pos |-> 0]

Init ==
  /\ udpStats = [k \in Keys |-> NoEntry]
  /\ udpStatMutex = NoOne
  /\ stat_cleaners = [s \in Slots |-> {}]
  /\ item_pos = 0
  /\ req = [r \in Requests |-> Ended]
  /\ cleaner = [g \in Cleaners |-> Idle]
  /\ received = 0

Unlocked == udpStatMutex = NoOne

-----------------------------------------------------------------------------
(* The listeners. *)

Spawned == {"spawnedV1", "spawnedV2"}

Arrive(r, k, where) ==
  /\ req[r].pc = "none"
  /\ received < MaxDatagrams
  /\ received' = received + 1
  /\ req' = [req EXCEPT ![r] = [pc |-> where, key |-> k, pos |-> 0]]

(* A version 2 message: the entry is made anew before the goroutine starts, *)
(* or before the listener itself reports a size it cannot use (a size that  *)
(* is negative as an int, where int has 32 bits).                           *)
ReceiveV2(r, k) ==
  /\ Unlocked
  /\ Arrive(r, k, "spawnedV2") \/ Arrive(r, k, "failed")
  /\ udpStats' = [udpStats EXCEPT ![k] = [status |-> "O", pending |-> 0]]
  /\ UNCHANGED <<udpStatMutex, stat_cleaners, item_pos, cleaner>>

(* A version 1 message makes no entry, but uses one that is there.          *)
ReceiveV1(r, k) ==
  /\ Arrive(r, k, "spawnedV1") \/ Arrive(r, k, "failed")
  /\ UNCHANGED <<udpStats, udpStatMutex, stat_cleaners, item_pos, cleaner>>

-----------------------------------------------------------------------------
(* A request goroutine. *)

(* Mutant: a request is counted twice. *)
StatRequestTwice(r) ==
  LET k == req[r].key IN
  /\ req[r].pc \in Spawned
  /\ Unlocked
  /\ udpStats' = IF udpStats[k] = NoEntry THEN udpStats
                 ELSE [udpStats EXCEPT ![k] = [status |-> "P", pending |-> @.pending + 2]]
  /\ req' = [req EXCEPT ![r].pc = "serving"]
  /\ UNCHANGED <<udpStatMutex, stat_cleaners, item_pos, cleaner, received>>

(* udpStatRequest, then the handler. *)
StatRequest(r) ==
  LET k == req[r].key IN
  /\ req[r].pc \in Spawned
  /\ Unlocked
  /\ udpStats' = IF udpStats[k] = NoEntry THEN udpStats
                 ELSE [udpStats EXCEPT ![k] = [status |-> "P", pending |-> @.pending + 1]]
  /\ req' = [req EXCEPT ![r].pc = "serving"]
  /\ UNCHANGED <<udpStatMutex, stat_cleaners, item_pos, cleaner, received>>

(* ReadHSParams finds no header: the handler is not called.                 *)
BadMessage(r) ==
  /\ req[r].pc = "spawnedV2"
  /\ req' = [req EXCEPT ![r].pc = "failed"]
  /\ UNCHANGED <<udpStats, udpStatMutex, stat_cleaners, item_pos, cleaner, received>>

(* Mutant: the request is finished only when the count is exactly zero. *)
StatFinishAtZero(r) ==
  LET k  == req[r].key
      ok == req[r].pc = "serving"
      pending == udpStats[k].pending - 1 IN
  /\ req[r].pc \in {"serving", "failed"}
  /\ Unlocked
  /\ IF udpStats[k] = NoEntry
     THEN /\ req' = [req EXCEPT ![r] = Ended]
          /\ UNCHANGED <<udpStats, udpStatMutex>>
     ELSE IF ~ok \/ pending = 0
     THEN /\ udpStats' = [udpStats EXCEPT ![k] =
                            [status |-> IF ok THEN "F" ELSE "X", pending |-> pending]]
          /\ udpStatMutex' = r
          /\ req' = [req EXCEPT ![r].pc = "insert", ![r].pos = item_pos]
     ELSE /\ udpStats' = [udpStats EXCEPT ![k].pending = pending]
          /\ req' = [req EXCEPT ![r] = Ended]
          /\ UNCHANGED udpStatMutex
  /\ UNCHANGED <<stat_cleaners, item_pos, cleaner, received>>

(* udpStatFinishRequest up to the bucket, with the slot read by             *)
(* cleaners_insert.                                                         *)
StatFinish(r) ==
  LET k  == req[r].key
      ok == req[r].pc = "serving"
      pending == udpStats[k].pending - 1 IN
  /\ req[r].pc \in {"serving", "failed"}
  /\ Unlocked
  /\ IF udpStats[k] = NoEntry
     THEN /\ req' = [req EXCEPT ![r] = Ended]
          /\ UNCHANGED <<udpStats, udpStatMutex>>
     ELSE IF ~ok \/ pending <= 0
     THEN /\ udpStats' = [udpStats EXCEPT ![k] =
                            [status |-> IF ok THEN "F" ELSE "X", pending |-> pending]]
          /\ udpStatMutex' = r
          /\ req' = [req EXCEPT ![r].pc = "insert", ![r].pos = item_pos]
     ELSE /\ udpStats' = [udpStats EXCEPT ![k].pending = pending]
          /\ req' = [req EXCEPT ![r] = Ended]
          /\ UNCHANGED udpStatMutex
  /\ UNCHANGED <<stat_cleaners, item_pos, cleaner, received>>

(* The key goes into the bucket of the slot read before.                    *)
Insert(r) ==
  /\ req[r].pc = "insert"
  /\ stat_cleaners' = [stat_cleaners EXCEPT ![req[r].pos] = @ \cup {req[r].key}]
  /\ udpStatMutex' = NoOne
  /\ req' = [req EXCEPT ![r] = Ended]
  /\ UNCHANGED <<udpStats, item_pos, cleaner, received>>

-----------------------------------------------------------------------------
(* The cleaner. *)

(* A tick in slot p takes the bucket that is the next to be filled.  Ticks  *)
(* come once a second, a slot is 5 seconds; a ticker held up for longer     *)
(* skips slots.  A callback with nothing to do is left out.                 *)
Tick(p) ==
  LET next == (p + 1) % NumCleaners IN
  /\ item_pos' = p
  /\ \/ stat_cleaners[next] = {} /\ UNCHANGED <<stat_cleaners, cleaner>>
     \/ /\ stat_cleaners[next] # {}
        /\ \E g \in Cleaners :
             /\ cleaner[g].pc = "idle"
             /\ cleaner' = [cleaner EXCEPT ![g] =
                              [pc |-> "check", ids |-> stat_cleaners[next], pos |-> 0]]
        /\ stat_cleaners' = [stat_cleaners EXCEPT ![next] = {}]
  /\ UNCHANGED <<udpStats, udpStatMutex, req, received>>

Finished(k) == udpStats[k] # NoEntry /\ udpStats[k].status \in {"F", "X"}
Running(k)  == udpStats[k] # NoEntry /\ udpStats[k].status \notin {"F", "X"}

(* Mutant: an entry that failed is neither deleted nor handed back. *)
CheckFinishedOnly(g) ==
  /\ cleaner[g].pc = "check"
  /\ Unlocked
  /\ udpStats' = [k \in Keys |->
                    IF k \in cleaner[g].ids /\ Finished(k) /\ udpStats[k].status = "F"
                    THEN NoEntry ELSE udpStats[k]]
  /\ LET rest == {k \in cleaner[g].ids : Running(k)} IN
     cleaner' = [cleaner EXCEPT ![g] =
                   IF rest = {} THEN Idle ELSE [pc |-> "slot", ids |-> rest, pos |-> 0]]
  /\ UNCHANGED <<udpStatMutex, stat_cleaners, item_pos, req, received>>

(* The callback deletes the finished entries; the running ones are to be    *)
(* handed back.                                                             *)
Check(g) ==
  /\ cleaner[g].pc = "check"
  /\ Unlocked
  /\ udpStats' = [k \in Keys |->
                    IF k \in cleaner[g].ids /\ Finished(k) THEN NoEntry ELSE udpStats[k]]
  /\ LET rest == {k \in cleaner[g].ids : Running(k)} IN
     cleaner' = [cleaner EXCEPT ![g] =
                   IF rest = {} THEN Idle ELSE [pc |-> "slot", ids |-> rest, pos |-> 0]]
  /\ UNCHANGED <<udpStatMutex, stat_cleaners, item_pos, req, received>>

(* cleaners_insert again: the slot is read ... *)
ReadSlot(g) ==
  /\ cleaner[g].pc = "slot"
  /\ cleaner' = [cleaner EXCEPT ![g].pc = "insert", ![g].pos = item_pos]
  /\ UNCHANGED <<udpStats, udpStatMutex, stat_cleaners, item_pos, req, received>>

(* ... and the keys put into its bucket, whichever slot is current by then. *)
HandBack(g) ==
  /\ cleaner[g].pc = "insert"
  /\ stat_cleaners' = [stat_cleaners EXCEPT ![cleaner[g].pos] = @ \cup cleaner[g].ids]
  /\ cleaner' = [cleaner EXCEPT ![g] = Idle]
  /\ UNCHANGED <<udpStats, udpStatMutex, item_pos, req, received>>

-----------------------------------------------------------------------------
RequestStep(r) == StatRequest(r) \/ BadMessage(r) \/ StatFinish(r) \/ Insert(r)
CleanerStep(g) == Check(g) \/ ReadSlot(g) \/ HandBack(g)

Next == \/ \E r \in Requests : \/ \E k \in Keys : ReceiveV2(r, k) \/ ReceiveV1(r, k)
                               \/ RequestStep(r)
        \/ \E p \in Slots : Tick(p)
        \/ \E g \in Cleaners : CleanerStep(g)

Spec == Init /\ [][Next]_vars

(* Handlers return and goroutines run; the clock passes through every slot  *)
(* again and again, and the ticker fires in it.                             *)
Fairness == /\ \A r \in Requests : WF_vars(RequestStep(r))
            /\ \A g \in Cleaners : WF_vars(CleanerStep(g))
            /\ \A p \in Slots : WF_vars(Tick(p))
FairSpec == Spec /\ Fairness

-----------------------------------------------------------------------------
TypeOK ==
  /\ udpStats \in [Keys -> [status : {"O", "P", "F", "X"},
                            pending : -MaxDatagrams .. MaxDatagrams] \cup {NoEntry}]
  /\ udpStatMutex \in Requests \cup {NoOne}
  /\ stat_cleaners \in [Slots -> SUBSET Keys]
  /\ item_pos \in Slots
  /\ req \in [Requests -> [pc : Spawned \cup {"none", "serving", "failed", "insert"},
                           key : Keys, pos : Slots]]
  /\ cleaner \in [Cleaners -> [pc : {"idle", "check", "slot", "insert"},
                               ids : SUBSET Keys, pos : Slots]]
  /\ received \in 0 .. MaxDatagrams

Unfinished(k) == {r \in Requests : req[r].pc # "none" /\ req[r].key = k}
Serving(k)    == {r \in Requests : req[r].pc = "serving" /\ req[r].key = k}
Collected(k)  == \/ \E s \in Slots : k \in stat_cleaners[s]
                 \/ \E g \in Cleaners : k \in cleaner[g].ids

(* The count of an entry never exceeds the requests of that sender in a     *)
(* handler, however often the entry was replaced while they ran: the last   *)
(* of them finds the count at zero or below and marks the entry finished.   *)
PendingCovered ==
  \A k \in Keys : udpStats[k] # NoEntry => udpStats[k].pending <= Cardinality(Serving(k))

(* An entry nobody works for any more is marked finished and is on its way  *)
(* to the cleaner: in a bucket or with a callback.  None is forgotten, and  *)
(* none is shown as running for ever.                                       *)
NoOrphan ==
  \A k \in Keys : udpStats[k] # NoEntry /\ Unfinished(k) = {} =>
                    Finished(k) /\ Collected(k)

(* An entry is shown as running only for requests that run, and one that    *)
(* has none is on its way out.                                              *)
EntriesExact == PendingCovered /\ NoOrphan

(* When the datagrams stop, the register empties.                           *)
EntriesGo == \A k \in Keys : udpStats[k] # NoEntry ~> udpStats[k] = NoEntry
=============================================================================
