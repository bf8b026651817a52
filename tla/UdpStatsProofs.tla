--------------------------- MODULE UdpStatsProofs ---------------------------
(***************************************************************************)
(* Proofs about UdpStats, for every number of senders, requests, callbacks *)
(* and buckets and every number of datagrams.                              *)
(***************************************************************************)
EXTENDS UdpStats, FiniteSetTheorems, TLAPS

-----------------------------------------------------------------------------
(* The inductive invariant. *)

(* The requests that did not yet take themselves off the count of an entry. *)
Active == {r \in Requests : req[r].pc \notin {"none", "insert"}}

(* Each message is taken off a count once: no count is further below zero   *)
(* than messages are done with.                                             *)
PendingBounded ==
  /\ IsFiniteSet(Active) /\ Cardinality(Active) <= received
  /\ \A k \in Keys : udpStats[k] # NoEntry =>
                       udpStats[k].pending >= Cardinality(Active) - received

(* The request that holds the lock is the one on its way to a bucket, and   *)
(* its entry is finished until it gets there.                               *)
Holding ==
  \A r \in Requests : /\ req[r].pc = "insert" <=> udpStatMutex = r
                      /\ req[r].pc = "insert" => Finished(req[r].key)

(* A callback that is not running has no keys. *)
IdleEmpty == \A g \in Cleaners : cleaner[g].pc = "idle" => cleaner[g].ids = {}

IInv == TypeOK /\ PendingBounded /\ Holding /\ IdleEmpty /\ PendingCovered /\ NoOrphan

-----------------------------------------------------------------------------
(* Types. *)

Entries == [status : {"O", "P", "F", "X"}, pending : -MaxDatagrams .. MaxDatagrams]
ReqStates == Spawned \cup {"none", "serving", "failed", "insert"}

LEMMA EntryFacts ==
  ASSUME TypeOK, NEW k \in Keys
  PROVE  /\ udpStats[k] # NoEntry <=> udpStats[k] \in Entries
         /\ udpStats[k] # NoEntry => udpStats[k].pending \in Int
BY UdpAssumption DEF TypeOK, Entries

LEMMA RequestFacts ==
  ASSUME TypeOK, NEW r \in Requests
  PROVE  req[r].key \in Keys /\ req[r].pos \in Slots /\ req[r].pc \in ReqStates
BY DEF TypeOK, ReqStates

LEMMA SlotFacts ==
  /\ 0 \in Slots
  /\ \A p \in Slots : (p + 1) % NumCleaners \in Slots
<1>1. \A x \in Nat : x % NumCleaners \in 0 .. NumCleaners - 1
  BY UdpAssumption, Z3
<1> QED BY <1>1, UdpAssumption DEF Slots

LEMMA EndedFacts ==
  /\ Ended.pc = "none" /\ NoKey \in Keys
  /\ Ended \in [pc : ReqStates, key : Keys, pos : Slots]
BY UdpAssumption, SlotFacts DEF Ended, NoKey, ReqStates

LEMMA IdleFacts ==
  /\ Idle \in [pc : {"idle", "check", "slot", "insert"}, ids : SUBSET Keys, pos : Slots]
  /\ Idle.ids = {}
BY SlotFacts DEF Idle

(* The counts: a request that serves is active. *)
LEMMA ServingFacts ==
  ASSUME IsFiniteSet(Active), NEW k
  PROVE  /\ IsFiniteSet(Serving(k)) /\ Cardinality(Serving(k)) \in Nat
         /\ Cardinality(Active) \in Nat /\ Cardinality(Serving(k)) <= Cardinality(Active)
<1>1. Serving(k) \subseteq Active
  BY DEF Serving, Active
<1> QED BY <1>1, FS_Subset, FS_CardinalityType

-----------------------------------------------------------------------------
(* Initially. *)

LEMMA InitIInv == Init => IInv
<1> SUFFICES ASSUME Init PROVE IInv
  OBVIOUS
<1>1. TypeOK
  BY UdpAssumption, SlotFacts, EndedFacts, IdleFacts DEF Init, TypeOK, ReqStates
<1>2. PendingBounded
  <2>1. Active = {}
    BY EndedFacts DEF Init, Active
  <2> QED BY <2>1, FS_EmptySet DEF Init, PendingBounded
<1>3. Holding
  BY UdpAssumption, EndedFacts DEF Init, Holding
<1>4. PendingCovered /\ NoOrphan
  BY DEF Init, PendingCovered, NoOrphan
<1>5. IdleEmpty
  BY IdleFacts DEF Init, IdleEmpty
<1> QED BY <1>1, <1>2, <1>3, <1>4, <1>5 DEF IInv

-----------------------------------------------------------------------------
(* The types are kept. *)

(* A request that takes itself off a count leaves it within the bounds.     *)
LEMMA FinishBounds ==
  ASSUME IInv, NEW r \in Requests, NEW k \in Keys, StatFinish(r), udpStats[k] # NoEntry
  PROVE  udpStats[k].pending - 1 \in -MaxDatagrams .. MaxDatagrams
<1> USE DEF IInv
<1>1. /\ IsFiniteSet(Active) /\ received \in 0 .. MaxDatagrams
      /\ Cardinality(Active) <= received
      /\ udpStats[k].pending \in Int
      /\ udpStats[k].pending >= Cardinality(Active) - received
      /\ udpStats[k].pending <= Cardinality(Serving(k))
  BY EntryFacts DEF PendingBounded, PendingCovered, TypeOK
<1>2. r \in Active
  BY DEF StatFinish, Active
<1>3. Cardinality(Active) \in Nat \ {0}
  BY <1>1, <1>2, FS_EmptySet, FS_CardinalityType
<1> QED BY <1>1, <1>3, ServingFacts, UdpAssumption

LEMMA NextTypeOK ==
  ASSUME IInv, [Next]_vars
  PROVE  TypeOK'
<1> USE DEF IInv
<1>1. ASSUME NEW r \in Requests, NEW k \in Keys, ReceiveV2(r, k) \/ ReceiveV1(r, k)
      PROVE  TypeOK'
  <2>1. received' \in 0 .. MaxDatagrams
    BY <1>1, UdpAssumption DEF TypeOK, ReceiveV1, ReceiveV2, Arrive
  <2>2. req' \in [Requests -> [pc : ReqStates, key : Keys, pos : Slots]]
    BY <1>1, SlotFacts DEF TypeOK, ReceiveV1, ReceiveV2, Arrive, ReqStates, Spawned
  <2>3. udpStats' \in [Keys -> Entries \cup {NoEntry}]
    <3>1. [status |-> "O", pending |-> 0] \in Entries
      BY UdpAssumption DEF Entries
    <3> QED BY <3>1, <1>1 DEF TypeOK, ReceiveV1, ReceiveV2, Entries
  <2> QED BY <1>1, <2>1, <2>2, <2>3 DEF TypeOK, ReceiveV1, ReceiveV2, ReqStates, Entries
<1>2. ASSUME NEW r \in Requests, StatRequest(r)
      PROVE  TypeOK'
  <2> DEFINE k == req[r].key
             e == [status |-> "P", pending |-> udpStats[k].pending + 1]
  <2>1. k \in Keys
    BY RequestFacts
  <2>2. req' \in [Requests -> [pc : ReqStates, key : Keys, pos : Slots]]
    BY <1>2 DEF TypeOK, StatRequest, ReqStates
  <2>3. CASE udpStats[k] # NoEntry
    <3>1. udpStats[k].pending + 1 \in -MaxDatagrams .. MaxDatagrams
      <4>1. /\ IsFiniteSet(Active) /\ Cardinality(Active) <= received /\ received \in 0 .. MaxDatagrams
            /\ udpStats[k].pending >= Cardinality(Active) - received
            /\ udpStats[k].pending <= Cardinality(Serving(k))
            /\ udpStats[k].pending \in Int
        BY <2>1, <2>3, EntryFacts DEF PendingBounded, PendingCovered, TypeOK
      <4>2. Serving(k) \subseteq Active /\ r \in Active /\ r \notin Serving(k)
        BY <1>2 DEF StatRequest, Serving, Active, Spawned
      <4>3. Cardinality(Serving(k)) < Cardinality(Active)
        BY <4>1, <4>2, FS_Subset, ServingFacts
      <4> QED BY <4>1, <4>3, ServingFacts, UdpAssumption
    <3>2. e \in Entries
      BY <3>1 DEF Entries
    <3>3. udpStats' = [udpStats EXCEPT ![k] = e]
      BY <1>2, <2>3 DEF StatRequest
    <3>4. udpStats' \in [Keys -> Entries \cup {NoEntry}]
      BY <3>2, <3>3 DEF TypeOK, Entries
    <3> QED BY <1>2, <2>2, <3>4 DEF TypeOK, StatRequest, ReqStates, Entries
  <2>4. CASE udpStats[k] = NoEntry
    BY <1>2, <2>2, <2>4 DEF TypeOK, StatRequest, ReqStates
  <2> QED BY <2>3, <2>4
<1>3. ASSUME NEW r \in Requests, BadMessage(r)
      PROVE  TypeOK'
  BY <1>3 DEF TypeOK, BadMessage
<1>4. ASSUME NEW r \in Requests, StatFinish(r)
      PROVE  TypeOK'
  <2> DEFINE k == req[r].key
             pending == udpStats[k].pending - 1
  <2>1. k \in Keys
    BY RequestFacts
  <2>2. req' \in [Requests -> [pc : ReqStates, key : Keys, pos : Slots]]
    BY <1>4, EndedFacts DEF TypeOK, StatFinish, ReqStates
  <2>3. CASE udpStats[k] # NoEntry
    <3>1. pending \in -MaxDatagrams .. MaxDatagrams
      BY <1>4, <2>1, <2>3, FinishBounds
    <3>2. udpStats' \in [Keys -> Entries \cup {NoEntry}]
      <4>1. /\ \A status \in {"F", "X"} : [status |-> status, pending |-> pending] \in Entries
            /\ [udpStats[k] EXCEPT !.pending = pending] \in Entries
        BY <2>1, <2>3, <3>1, EntryFacts DEF Entries
      <4>2. udpStats' = udpStats \/ \E e \in Entries : udpStats' = [udpStats EXCEPT ![k] = e]
        BY <1>4, <2>3, <4>1 DEF StatFinish
      <4> QED BY <4>2 DEF TypeOK, Entries
    <3>3. udpStatMutex' \in Requests \cup {NoOne}
      BY <1>4 DEF StatFinish, TypeOK
    <3> QED BY <1>4, <2>2, <3>2, <3>3 DEF TypeOK, StatFinish, ReqStates, Entries
  <2>4. CASE udpStats[k] = NoEntry
    BY <1>4, <2>2, <2>4 DEF TypeOK, StatFinish, ReqStates
  <2> QED BY <2>3, <2>4
<1>5. ASSUME NEW r \in Requests, Insert(r)
      PROVE  TypeOK'
  <2>1. req' \in [Requests -> [pc : ReqStates, key : Keys, pos : Slots]]
    BY <1>5, EndedFacts DEF TypeOK, Insert, ReqStates
  <2>2. stat_cleaners' \in [Slots -> SUBSET Keys]
    BY <1>5, RequestFacts DEF TypeOK, Insert
  <2> QED BY <1>5, <2>1, <2>2 DEF TypeOK, Insert, ReqStates
<1>6. ASSUME NEW p \in Slots, Tick(p)
      PROVE  TypeOK'
  <2>1. stat_cleaners[(p + 1) % NumCleaners] \subseteq Keys
    BY SlotFacts DEF TypeOK
  <2>2. /\ stat_cleaners' \in [Slots -> SUBSET Keys]
        /\ cleaner' \in [Cleaners -> [pc : {"idle", "check", "slot", "insert"},
                                      ids : SUBSET Keys, pos : Slots]]
    <3>1. \A g \in Cleaners :
             [cleaner EXCEPT ![g] = [pc |-> "check", ids |-> stat_cleaners[(p + 1) % NumCleaners], pos |-> 0]]
               \in [Cleaners -> [pc : {"idle", "check", "slot", "insert"},
                                ids : SUBSET Keys, pos : Slots]]
      BY <2>1, SlotFacts DEF TypeOK
    <3>2. [stat_cleaners EXCEPT ![(p + 1) % NumCleaners] = {}] \in [Slots -> SUBSET Keys]
      BY SlotFacts DEF TypeOK
    <3> QED BY <1>6, <3>1, <3>2 DEF TypeOK, Tick
  <2> QED BY <1>6, <2>2 DEF TypeOK, Tick
<1>7. ASSUME NEW g \in Cleaners, Check(g)
      PROVE  TypeOK'
  <2>1. cleaner' \in [Cleaners -> [pc : {"idle", "check", "slot", "insert"},
                                  ids : SUBSET Keys, pos : Slots]]
    <3>1. {k \in cleaner[g].ids : Running(k)} \subseteq Keys
      BY DEF TypeOK
    <3> QED BY <1>7, <3>1, IdleFacts, SlotFacts DEF TypeOK, Check
  <2>2. udpStats' \in [Keys -> Entries \cup {NoEntry}]
    BY <1>7 DEF TypeOK, Check, Entries
  <2> QED BY <1>7, <2>1, <2>2 DEF TypeOK, Check, Entries
<1>8. ASSUME NEW g \in Cleaners, ReadSlot(g) \/ HandBack(g)
      PROVE  TypeOK'
  <2>1. cleaner' \in [Cleaners -> [pc : {"idle", "check", "slot", "insert"},
                                  ids : SUBSET Keys, pos : Slots]]
    BY <1>8, IdleFacts DEF TypeOK, ReadSlot, HandBack
  <2>2. stat_cleaners' \in [Slots -> SUBSET Keys]
    BY <1>8 DEF TypeOK, ReadSlot, HandBack
  <2> QED BY <1>8, <2>1, <2>2 DEF TypeOK, ReadSlot, HandBack
<1>9. CASE UNCHANGED vars
  BY <1>9 DEF vars, TypeOK
<1> QED
  BY <1>1, <1>2, <1>3, <1>4, <1>5, <1>6, <1>7, <1>8, <1>9 DEF Next, RequestStep, CleanerStep


-----------------------------------------------------------------------------
(* The counts. *)

(* A request begins, goes on or takes itself off. *)
LEMMA ActiveEffect ==
  ASSUME TypeOK, IsFiniteSet(Active), NEW r \in Requests, NEW x, req' = [req EXCEPT ![r] = x]
  PROVE  /\ IsFiniteSet(Active')
         /\ r \notin Active /\ x.pc \notin {"none", "insert"} =>
              Cardinality(Active') = Cardinality(Active) + 1
         /\ r \in Active /\ x.pc \notin {"none", "insert"} => Active' = Active
         /\ r \in Active /\ x.pc \in {"none", "insert"} =>
              Cardinality(Active') = Cardinality(Active) - 1
         /\ r \notin Active /\ x.pc \in {"none", "insert"} => Active' = Active
<1>1. req'[r] = x /\ \A q \in Requests : q # r => req'[q] = req[q]
  BY DEF TypeOK
<1>2. Active' = IF x.pc \in {"none", "insert"} THEN Active \ {r} ELSE Active \cup {r}
  BY <1>1 DEF Active
<1> QED BY <1>2, FS_AddElement, FS_RemoveElement

LEMMA ServingEffect ==
  ASSUME TypeOK, IsFiniteSet(Active), NEW r \in Requests, NEW x, req' = [req EXCEPT ![r] = x],
         NEW k \in Keys
  PROVE  /\ Cardinality(Serving(k)') \in Nat
         /\ r \notin Serving(k) /\ ~(x.pc = "serving" /\ x.key = k) => Serving(k)' = Serving(k)
         /\ r \notin Serving(k) /\ x.pc = "serving" /\ x.key = k =>
              Cardinality(Serving(k)') = Cardinality(Serving(k)) + 1
         /\ r \in Serving(k) /\ ~(x.pc = "serving" /\ x.key = k) =>
              Cardinality(Serving(k)') = Cardinality(Serving(k)) - 1
<1>1. req'[r] = x /\ \A q \in Requests : q # r => req'[q] = req[q]
  BY DEF TypeOK
<1>2. Serving(k)' = IF x.pc = "serving" /\ x.key = k THEN Serving(k) \cup {r} ELSE Serving(k) \ {r}
  BY <1>1 DEF Serving
<1>3. IsFiniteSet(Serving(k))
  BY ServingFacts
<1>4. /\ IsFiniteSet(Serving(k) \cup {r}) /\ IsFiniteSet(Serving(k) \ {r})
      /\ r \notin Serving(k) => Cardinality(Serving(k) \cup {r}) = Cardinality(Serving(k)) + 1
      /\ r \in Serving(k) => Cardinality(Serving(k) \ {r}) = Cardinality(Serving(k)) - 1
      /\ r \notin Serving(k) => Serving(k) \ {r} = Serving(k)
  BY <1>3, FS_AddElement, FS_RemoveElement
<1>5. Cardinality(Serving(k)') \in Nat
  BY <1>2, <1>4, FS_CardinalityType
<1> QED BY <1>2, <1>4, <1>5

(* No count runs ahead of the requests that serve, or further behind the    *)
(* messages than those done with.                                           *)
LEMMA NextCounts ==
  ASSUME IInv, [Next]_vars
  PROVE  PendingBounded' /\ PendingCovered'
<1> USE DEF IInv
<1>0. /\ IsFiniteSet(Active) /\ Cardinality(Active) \in Nat /\ received \in Nat
      /\ Cardinality(Active) <= received
      /\ \A k \in Keys : Cardinality(Serving(k)) \in Nat
      /\ \A k \in Keys : udpStats[k] # NoEntry =>
           /\ udpStats[k].pending \in Int
           /\ udpStats[k].pending >= Cardinality(Active) - received
           /\ udpStats[k].pending <= Cardinality(Serving(k))
  BY ServingFacts, EntryFacts DEF PendingBounded, PendingCovered, TypeOK
<1>1. ASSUME NEW r \in Requests, NEW k \in Keys, ReceiveV2(r, k) \/ ReceiveV1(r, k)
      PROVE  PendingBounded' /\ PendingCovered'
  <2>1. PICK where \in {"spawnedV1", "spawnedV2", "failed"} : Arrive(r, k, where)
    BY <1>1 DEF ReceiveV1, ReceiveV2
  <2> DEFINE x == [pc |-> where, key |-> k, pos |-> 0]
  <2>2. req' = [req EXCEPT ![r] = x] /\ x.pc = where /\ r \notin Active /\ received' = received + 1
    BY <2>1 DEF Arrive, Active
  <2> HIDE DEF x
  <2>3. IsFiniteSet(Active') /\ Cardinality(Active') = Cardinality(Active) + 1
    BY <1>0, <2>2, ActiveEffect
  <2>4. \A j \in Keys : Serving(j)' = Serving(j)
    BY <1>0, <2>2, ServingEffect DEF Serving, Active
  <2>5. \A j \in Keys : udpStats'[j] = udpStats[j] \/ udpStats'[j].pending = 0
    BY <1>1 DEF ReceiveV1, ReceiveV2, TypeOK
  <2> QED BY <1>0, <2>2, <2>3, <2>4, <2>5 DEF PendingBounded, PendingCovered
<1>2. ASSUME NEW r \in Requests, StatRequest(r)
      PROVE  PendingBounded' /\ PendingCovered'
  <2>0. PICK k \in Keys : k = req[r].key
    BY RequestFacts
  <2> DEFINE x == [req[r] EXCEPT !.pc = "serving"]
  <2>1. /\ req' = [req EXCEPT ![r] = x] /\ x.pc = "serving" /\ x.key = k
        /\ r \in Active /\ \A j : r \notin Serving(j)
        /\ k \in Keys /\ UNCHANGED received
    BY <1>2, <2>0, RequestFacts DEF StatRequest, Active, Serving, Spawned, TypeOK
  <2>2. /\ udpStats[k] # NoEntry => udpStats'[k].pending = udpStats[k].pending + 1
        /\ udpStats[k] = NoEntry => udpStats'[k] = NoEntry
        /\ \A j \in Keys : j # k => udpStats'[j] = udpStats[j]
    BY <1>2, <2>0, <2>1 DEF StatRequest, TypeOK
  <2> HIDE DEF x
  <2>3. Active' = Active
    BY <1>0, <2>1, ActiveEffect
  <2>4. Cardinality(Serving(k)') = Cardinality(Serving(k)) + 1
    <3>1. /\ TypeOK /\ IsFiniteSet(Active) /\ r \notin Serving(k)
          /\ req' = [req EXCEPT ![r] = x] /\ x.pc = "serving" /\ x.key = k
      BY <1>0, <2>1
    <3>2. PICK y : y = x
      OBVIOUS
    <3>3. req' = [req EXCEPT ![r] = y] /\ y.pc = "serving" /\ y.key = k
      BY <3>1, <3>2
    <3> HIDE DEF x
    <3> QED BY <3>1, <3>3, ServingEffect
  <2>5. \A j \in Keys : j # k => Serving(j)' = Serving(j)
    BY <1>0, <2>1, ServingEffect
  <2>6. PendingBounded'
    BY <1>0, <2>1, <2>2, <2>3 DEF PendingBounded
  <2>7. PendingCovered'
    <3> SUFFICES ASSUME NEW j \in Keys, udpStats'[j] # NoEntry
                 PROVE  udpStats'[j].pending <= Cardinality(Serving(j)')
      BY DEF PendingCovered
    <3>1. CASE j = k
      BY <3>1, <1>0, <2>1, <2>2, <2>4
    <3>2. CASE j # k
      BY <3>2, <1>0, <2>2, <2>5
    <3> QED BY <3>1, <3>2
  <2> QED BY <2>6, <2>7
<1>3. ASSUME NEW r \in Requests, BadMessage(r)
      PROVE  PendingBounded' /\ PendingCovered'
  <2> DEFINE x == [req[r] EXCEPT !.pc = "failed"]
  <2>1. /\ req' = [req EXCEPT ![r] = x] /\ x.pc = "failed"
        /\ r \in Active /\ \A j : r \notin Serving(j)
        /\ UNCHANGED <<received, udpStats>>
    BY <1>3 DEF BadMessage, Active, Serving, TypeOK
  <2> HIDE DEF x
  <2>2. Active' = Active
    BY <1>0, <2>1, ActiveEffect
  <2>3. \A j \in Keys : Serving(j)' = Serving(j)
    BY <1>0, <2>1, ServingEffect
  <2> QED BY <1>0, <2>1, <2>2, <2>3 DEF PendingBounded, PendingCovered
<1>4. ASSUME NEW r \in Requests, StatFinish(r)
      PROVE  PendingBounded' /\ PendingCovered'
  <2>0. PICK k \in Keys : k = req[r].key
    BY RequestFacts
  <2>1. PICK x : req' = [req EXCEPT ![r] = x] /\ x.pc \in {"none", "insert"}
    <3>1. \/ req' = [req EXCEPT ![r] = Ended]
          \/ req' = [req EXCEPT ![r] = [[req[r] EXCEPT !.pc = "insert"] EXCEPT !.pos = item_pos]]
      BY <1>4 DEF StatFinish
    <3>2. [[req[r] EXCEPT !.pc = "insert"] EXCEPT !.pos = item_pos].pc = "insert"
      BY DEF TypeOK
    <3> QED BY <3>1, <3>2, EndedFacts
  <2>2. /\ k \in Keys /\ UNCHANGED received
        /\ r \in Active /\ (r \in Serving(k) <=> req[r].pc = "serving")
        /\ \A j : j # k => r \notin Serving(j)
    BY <1>4, <2>0, RequestFacts DEF StatFinish, Active, Serving
  <2>3. /\ udpStats[k] # NoEntry => udpStats'[k].pending = udpStats[k].pending - 1
        /\ udpStats[k] = NoEntry => udpStats'[k] = NoEntry
        /\ \A j \in Keys : j # k => udpStats'[j] = udpStats[j]
    <3>1. udpStats[k] # NoEntry => udpStats[k] \in Entries
      BY <2>2, EntryFacts
    <3> QED BY <1>4, <2>0, <2>2, <3>1 DEF StatFinish, TypeOK, Entries
  <2>4. IsFiniteSet(Active') /\ Cardinality(Active') = Cardinality(Active) - 1
    BY <1>0, <2>1, <2>2, ActiveEffect
  <2>5. \A j \in Keys : j # k => Serving(j)' = Serving(j)
    BY <1>0, <2>1, <2>2, ServingEffect
  <2>6. /\ Cardinality(Serving(k)') \in Nat
        /\ Cardinality(Serving(k)') >= Cardinality(Serving(k)) - 1
    <3>1. /\ Cardinality(Serving(k)') \in Nat
          /\ r \notin Serving(k) => Serving(k)' = Serving(k)
          /\ r \in Serving(k) => Cardinality(Serving(k)') = Cardinality(Serving(k)) - 1
      BY <1>0, <2>1, <2>2, ServingEffect
    <3> QED BY <3>1, <1>0, <2>2
  <2>7. PendingBounded'
    BY <1>0, <2>2, <2>3, <2>4, FS_CardinalityType DEF PendingBounded
  <2>8. PendingCovered'
    <3> SUFFICES ASSUME NEW j \in Keys, udpStats'[j] # NoEntry
                 PROVE  udpStats'[j].pending <= Cardinality(Serving(j)')
      BY DEF PendingCovered
    <3>1. CASE j = k
      BY <3>1, <1>0, <2>2, <2>3, <2>6
    <3>2. CASE j # k
      BY <3>2, <1>0, <2>3, <2>5
    <3> QED BY <3>1, <3>2
  <2> QED BY <2>7, <2>8
<1>5. ASSUME NEW r \in Requests, Insert(r)
      PROVE  PendingBounded' /\ PendingCovered'
  <2>1. /\ req' = [req EXCEPT ![r] = Ended] /\ r \notin Active /\ \A j : r \notin Serving(j)
        /\ UNCHANGED <<received, udpStats>>
    BY <1>5 DEF Insert, Active, Serving
  <2>2. Active' = Active
    BY <1>0, <2>1, EndedFacts, ActiveEffect
  <2>3. \A j \in Keys : Serving(j)' = Serving(j)
    BY <1>0, <2>1, EndedFacts, ServingEffect
  <2> QED BY <1>0, <2>1, <2>2, <2>3 DEF PendingBounded, PendingCovered
<1>6. ASSUME UNCHANGED <<req, received>>,
             \A k \in Keys : udpStats'[k] = udpStats[k] \/ udpStats'[k] = NoEntry
      PROVE  PendingBounded' /\ PendingCovered'
  <2>1. Active' = Active /\ \A k : Serving(k)' = Serving(k)
    BY <1>6 DEF Active, Serving
  <2> QED BY <1>0, <1>6, <2>1 DEF PendingBounded, PendingCovered
<1>7. ASSUME NEW p \in Slots, Tick(p)
      PROVE  PendingBounded' /\ PendingCovered'
  BY <1>6, <1>7 DEF Tick
<1>8. ASSUME NEW g \in Cleaners, CleanerStep(g)
      PROVE  PendingBounded' /\ PendingCovered'
  BY <1>6, <1>8 DEF CleanerStep, Check, ReadSlot, HandBack
<1>9. CASE UNCHANGED vars
  BY <1>6, <1>9 DEF vars
<1> QED
  BY <1>1, <1>2, <1>3, <1>4, <1>5, <1>7, <1>8, <1>9 DEF Next, RequestStep


-----------------------------------------------------------------------------
(* The lock on the way to a bucket. *)

LEMMA NextHolding ==
  ASSUME IInv, [Next]_vars
  PROVE  Holding'
<1> USE DEF IInv
(* A step that leaves the lock, the requests in front of it and the entries *)
(* of those alone.                                                          *)
<1>0. ASSUME UNCHANGED udpStatMutex,
             \A r \in Requests : /\ req'[r].pc = "insert" <=> req[r].pc = "insert"
                                 /\ req[r].pc = "insert" =>
                                      req'[r].key = req[r].key /\ (Finished(req[r].key) => Finished(req[r].key)')
      PROVE  Holding'
  BY <1>0 DEF Holding, Finished
<1>1. ASSUME Unlocked, UNCHANGED udpStatMutex,
             \A r \in Requests : req'[r].pc = "insert" => req[r].pc = "insert"
      PROVE  Holding'
  <2>1. \A r \in Requests : req[r].pc # "insert" /\ r # NoOne
    BY <1>1, UdpAssumption DEF Holding, Unlocked
  <2> QED BY <1>1, <2>1 DEF Holding, Unlocked
<1>2. ASSUME NEW r \in Requests, NEW k \in Keys, ReceiveV2(r, k) PROVE Holding'
  BY <1>1, <1>2 DEF ReceiveV2, Arrive, TypeOK
<1>3. ASSUME NEW r \in Requests, NEW k \in Keys, ReceiveV1(r, k) PROVE Holding'
  BY <1>0, <1>3 DEF ReceiveV1, Arrive, TypeOK, Finished
<1>4. ASSUME NEW r \in Requests, StatRequest(r) PROVE Holding'
  BY <1>1, <1>4 DEF StatRequest, TypeOK
<1>5. ASSUME NEW r \in Requests, BadMessage(r) PROVE Holding'
  BY <1>0, <1>5 DEF BadMessage, TypeOK, Finished
<1>6. ASSUME NEW r \in Requests, StatFinish(r) PROVE Holding'
  <2>0. PICK k \in Keys : k = req[r].key
    BY RequestFacts
  <2>1. CASE udpStatMutex' = r /\ req' = [req EXCEPT ![r] = [[req[r] EXCEPT !.pc = "insert"] EXCEPT !.pos = item_pos]]
             /\ udpStats' = [udpStats EXCEPT ![k] =
                               [status |-> IF req[r].pc = "serving" THEN "F" ELSE "X",
                                pending |-> udpStats[k].pending - 1]]
    <3>1. /\ req'[r].pc = "insert" /\ req'[r].key = k
          /\ \A q \in Requests : q # r => req'[q] = req[q]
      BY <2>0, <2>1 DEF TypeOK
    <3>2. Finished(k)'
      <4>1. /\ udpStats'[k].status \in {"F", "X"}
            /\ udpStats'[k] = [status |-> IF req[r].pc = "serving" THEN "F" ELSE "X",
                               pending |-> udpStats[k].pending - 1]
        BY <2>1 DEF TypeOK
      <4>2. udpStats'[k] # NoEntry
        <5>1. udpStats[k] # NoEntry
          BY <1>6, <2>0, <2>1, UdpAssumption DEF StatFinish, Unlocked
        <5>2. udpStats[k].pending - 1 \in -MaxDatagrams .. MaxDatagrams
          BY <1>6, <5>1, FinishBounds
        <5>3. udpStats'[k] \in Entries
          BY <4>1, <5>2 DEF Entries
        <5> QED BY <5>3, UdpAssumption DEF Entries
      <4> QED BY <4>1, <4>2 DEF Finished
    <3>3. \A q \in Requests : req[q].pc # "insert"
      BY <1>6, UdpAssumption DEF StatFinish, Holding, Unlocked
    <3> QED BY <2>1, <3>1, <3>2, <3>3 DEF Holding
  <2>2. CASE req' = [req EXCEPT ![r] = Ended] /\ UNCHANGED udpStatMutex
    BY <1>1, <1>6, <2>2, EndedFacts DEF StatFinish, TypeOK
  <2> QED BY <1>6, <2>0, <2>1, <2>2 DEF StatFinish
<1>7. ASSUME NEW r \in Requests, Insert(r) PROVE Holding'
  <2>1. /\ udpStatMutex = r /\ udpStatMutex' = NoOne
        /\ req'[r].pc = "none" /\ \A q \in Requests : q # r => req'[q] = req[q]
    BY <1>7, EndedFacts DEF Insert, Holding, TypeOK
  <2> QED BY <2>1, UdpAssumption DEF Holding
<1>8. ASSUME NEW g \in Cleaners, Check(g) PROVE Holding'
  BY <1>1, <1>8 DEF Check
<1>9. ASSUME UNCHANGED <<udpStats, udpStatMutex, req>> PROVE Holding'
  BY <1>0, <1>9 DEF Finished
<1>10. ASSUME NEW p \in Slots, Tick(p) PROVE Holding'
  BY <1>9, <1>10 DEF Tick
<1>11. ASSUME NEW g \in Cleaners, ReadSlot(g) \/ HandBack(g) PROVE Holding'
  BY <1>9, <1>11 DEF ReadSlot, HandBack
<1>12. CASE UNCHANGED vars
  BY <1>9, <1>12 DEF vars
<1> QED
  BY <1>2, <1>3, <1>4, <1>5, <1>6, <1>7, <1>8, <1>10, <1>11, <1>12
     DEF Next, RequestStep, CleanerStep


LEMMA NextIdle ==
  ASSUME IInv, [Next]_vars
  PROVE  IdleEmpty'
<1> USE DEF IInv
<1>1. CASE UNCHANGED cleaner
  BY <1>1 DEF IdleEmpty
<1>2. ASSUME NEW p \in Slots, Tick(p) PROVE IdleEmpty'
  BY <1>2 DEF Tick, IdleEmpty, TypeOK
<1>3. ASSUME NEW g \in Cleaners, CleanerStep(g) PROVE IdleEmpty'
  BY <1>3, IdleFacts DEF CleanerStep, Check, ReadSlot, HandBack, IdleEmpty, TypeOK
<1> QED
  BY <1>1, <1>2, <1>3 DEF Next, RequestStep, ReceiveV1, ReceiveV2, StatRequest, BadMessage,
                          StatFinish, Insert, vars

-----------------------------------------------------------------------------
(* No entry is forgotten. *)

(* What NoOrphan asks for one key. *)
LookedAfter(k) ==
  udpStats[k] # NoEntry /\ Unfinished(k) = {} => Finished(k) /\ Collected(k)

LEMMA NextNoOrphan ==
  ASSUME IInv, [Next]_vars
  PROVE  NoOrphan'
<1> USE DEF IInv
<1> SUFFICES ASSUME NEW k \in Keys PROVE LookedAfter(k)'
  BY DEF NoOrphan, LookedAfter
<1>0. LookedAfter(k)
  BY DEF NoOrphan, LookedAfter
(* A step that neither ends a request of k nor takes k off its way out.     *)
<1>2. ASSUME udpStats'[k] = udpStats[k] \/ Unfinished(k)' # {}, Unfinished(k)' = {} => Unfinished(k) = {},
             Collected(k) => Collected(k)'
      PROVE  LookedAfter(k)'
  BY <1>0, <1>2 DEF LookedAfter, Finished
<1>3. ASSUME NEW r \in Requests, NEW j \in Keys, ReceiveV2(r, j) \/ ReceiveV1(r, j)
      PROVE  LookedAfter(k)'
  <2>1. /\ Collected(k)' <=> Collected(k)
        /\ j # k => udpStats'[k] = udpStats[k]
    BY <1>3 DEF ReceiveV1, ReceiveV2, Collected, TypeOK
  <2>2. /\ req[r].pc = "none" /\ req'[r].pc # "none" /\ req'[r].key = j
        /\ \A q \in Requests : q # r => req'[q] = req[q]
    BY <1>3 DEF ReceiveV1, ReceiveV2, Arrive, TypeOK
  <2>3. r \in Unfinished(j)' /\ (j # k => Unfinished(k)' = Unfinished(k))
    BY <2>2 DEF Unfinished
  <2> QED BY <2>1, <2>3, <1>2
<1>4. ASSUME NEW r \in Requests, StatRequest(r) \/ BadMessage(r)
      PROVE  LookedAfter(k)'
  <2>1. /\ Collected(k)' <=> Collected(k)
        /\ req[r].key # k => udpStats'[k] = udpStats[k]
    BY <1>4, RequestFacts DEF StatRequest, BadMessage, Collected, TypeOK
  <2>2. /\ req[r].pc # "none" /\ req'[r].pc # "none" /\ req'[r].key = req[r].key
        /\ \A q \in Requests : q # r => req'[q] = req[q]
    BY <1>4 DEF StatRequest, BadMessage, Spawned, TypeOK
  <2>3. Unfinished(k)' = Unfinished(k) /\ (req[r].key = k => r \in Unfinished(k))
    BY <2>2 DEF Unfinished
  <2> QED BY <2>1, <2>3, <1>2
<1>5. ASSUME NEW r \in Requests, StatFinish(r)
      PROVE  LookedAfter(k)'
  <2>1. /\ Collected(k)' <=> Collected(k)
        /\ req[r].key # k => udpStats'[k] = udpStats[k]
        /\ req[r].pc \in {"serving", "failed"}
        /\ \A q \in Requests : q # r => req'[q] = req[q]
    BY <1>5, RequestFacts DEF StatFinish, Collected, TypeOK
  <2>2. CASE req[r].key # k
    <3>1. Unfinished(k)' = Unfinished(k)
      <4>1. req'[r].pc = "none" \/ req'[r].key = req[r].key
        BY <1>5, EndedFacts DEF StatFinish, TypeOK
      <4> QED BY <2>1, <2>2, <4>1 DEF Unfinished
    <3> QED BY <2>1, <2>2, <3>1, <1>2
  <2>3. CASE req[r].key = k
    <3>1. CASE udpStats[k] = NoEntry
      BY <1>5, <2>3, <3>1 DEF StatFinish, LookedAfter
    <3>2. CASE udpStats[k] # NoEntry /\ req'[r].pc = "insert" /\ req'[r].key = k
      <4>1. r \in Unfinished(k)'
        BY <3>2 DEF Unfinished
      <4> QED BY <4>1 DEF LookedAfter
    <3>3. CASE udpStats[k] # NoEntry /\ req[r].pc = "serving" /\ udpStats[k].pending - 1 > 0
      <4>1. /\ IsFiniteSet(Serving(k)) /\ r \in Serving(k)
            /\ Cardinality(Serving(k)) > 1
        <5>1. udpStats[k].pending <= Cardinality(Serving(k)) /\ udpStats[k].pending \in Int
          BY <3>3, EntryFacts DEF PendingCovered
        <5>2. IsFiniteSet(Serving(k)) /\ Cardinality(Serving(k)) \in Nat
          BY ServingFacts DEF PendingBounded
        <5>3. r \in Serving(k)
          BY <2>3, <3>3 DEF Serving
        <5> QED BY <3>3, <5>1, <5>2, <5>3
      <4>2. PICK q \in Serving(k) : q # r
        <5> SUFFICES ASSUME Serving(k) = {r} PROVE FALSE
          BY <4>1
        <5> QED BY <4>1, FS_Singleton
      <4>3. q \in Unfinished(k)'
        BY <2>1, <4>2 DEF Serving, Unfinished
      <4> QED BY <4>3 DEF LookedAfter
    <3>4. \/ udpStats[k] = NoEntry
          \/ udpStats[k] # NoEntry /\ req'[r].pc = "insert" /\ req'[r].key = k
          \/ udpStats[k] # NoEntry /\ req[r].pc = "serving" /\ udpStats[k].pending - 1 > 0
      <4>1. udpStats[k] # NoEntry => udpStats[k].pending \in Int
        BY EntryFacts
      <4> QED BY <1>5, <2>3, <4>1 DEF StatFinish, TypeOK
    <3> QED BY <3>1, <3>2, <3>3, <3>4
  <2> QED BY <2>2, <2>3
<1>6. ASSUME NEW r \in Requests, Insert(r)
      PROVE  LookedAfter(k)'
  <2>1. /\ req[r].pc = "insert" /\ req'[r].pc = "none" /\ UNCHANGED <<udpStats, cleaner>>
        /\ \A q \in Requests : q # r => req'[q] = req[q]
        /\ req[r].pos \in Slots
        /\ stat_cleaners' = [stat_cleaners EXCEPT ![req[r].pos] = @ \cup {req[r].key}]
    BY <1>6, RequestFacts, EndedFacts DEF Insert, TypeOK
  <2>2. /\ \A s \in Slots : stat_cleaners[s] \subseteq stat_cleaners'[s]
        /\ req[r].key \in stat_cleaners'[req[r].pos]
    BY <2>1 DEF TypeOK
  <2>3. Collected(k) => Collected(k)'
    BY <2>1, <2>2 DEF Collected
  <2>4. CASE req[r].key = k
    <3>1. Finished(k)' /\ Collected(k)'
      BY <2>1, <2>2, <2>4 DEF Holding, Finished, Collected
    <3> QED BY <3>1 DEF LookedAfter
  <2>5. CASE req[r].key # k
    <3>1. Unfinished(k)' = Unfinished(k)
      BY <2>1, <2>5 DEF Unfinished
    <3> QED BY <2>1, <2>3, <3>1, <1>2
  <2> QED BY <2>4, <2>5
<1>7. ASSUME UNCHANGED <<udpStats, req>>, Collected(k) => Collected(k)'
      PROVE  LookedAfter(k)'
  BY <1>2, <1>7 DEF Unfinished
<1>8. ASSUME NEW p \in Slots, Tick(p)
      PROVE  LookedAfter(k)'
  <2> DEFINE next == (p + 1) % NumCleaners
  <2>1. CASE UNCHANGED <<stat_cleaners, cleaner>>
    BY <1>7, <1>8, <2>1 DEF Tick, Collected
  <2>2. ASSUME NEW g \in Cleaners, cleaner[g].pc = "idle",
               cleaner' = [cleaner EXCEPT ![g] =
                             [pc |-> "check", ids |-> stat_cleaners[next], pos |-> 0]],
               stat_cleaners' = [stat_cleaners EXCEPT ![next] = {}]
        PROVE  LookedAfter(k)'
    <3>1. cleaner[g].ids = {}
      BY <2>2 DEF IdleEmpty
    <3>2. /\ cleaner'[g].ids = stat_cleaners[next]
          /\ \A f \in Cleaners : f # g => cleaner'[f] = cleaner[f]
          /\ \A s \in Slots : s # next => stat_cleaners'[s] = stat_cleaners[s]
      BY <2>2 DEF TypeOK
    <3>3. Collected(k) => Collected(k)'
      BY <3>1, <3>2 DEF Collected
    <3> QED BY <1>7, <1>8, <3>3 DEF Tick
  <2> QED BY <1>8, <2>1, <2>2 DEF Tick
<1>9. ASSUME NEW g \in Cleaners, Check(g)
      PROVE  LookedAfter(k)'
  <2>1. /\ UNCHANGED <<req, stat_cleaners>>
        /\ udpStats'[k] = IF k \in cleaner[g].ids /\ Finished(k) THEN NoEntry ELSE udpStats[k]
        /\ \A f \in Cleaners : f # g => cleaner'[f] = cleaner[f]
    BY <1>9 DEF Check, TypeOK
  <2>2. CASE k \in cleaner[g].ids /\ Finished(k)
    BY <2>1, <2>2 DEF LookedAfter
  <2>3. CASE ~(k \in cleaner[g].ids /\ Finished(k))
    <3>1. Finished(k) /\ Collected(k) => Collected(k)'
      BY <2>1, <2>3 DEF Collected
    <3> QED BY <2>1, <2>3, <3>1, <1>0 DEF LookedAfter, Unfinished, Finished
  <2> QED BY <2>2, <2>3
<1>10. ASSUME NEW g \in Cleaners, ReadSlot(g)
       PROVE  LookedAfter(k)'
  <2>1. \A f \in Cleaners : cleaner'[f].ids = cleaner[f].ids
    BY <1>10 DEF ReadSlot, TypeOK
  <2>2. Collected(k) => Collected(k)'
    BY <1>10, <2>1 DEF ReadSlot, Collected
  <2> QED BY <1>7, <1>10, <2>2 DEF ReadSlot
<1>11. ASSUME NEW g \in Cleaners, HandBack(g)
       PROVE  LookedAfter(k)'
  <2>1. /\ cleaner[g].pos \in Slots
        /\ \A f \in Cleaners : f # g => cleaner'[f] = cleaner[f]
        /\ \A s \in Slots : stat_cleaners[s] \subseteq stat_cleaners'[s]
        /\ cleaner[g].ids \subseteq stat_cleaners'[cleaner[g].pos]
    BY <1>11 DEF HandBack, TypeOK
  <2>2. Collected(k) => Collected(k)'
    BY <2>1 DEF Collected
  <2> QED BY <1>7, <1>11, <2>2 DEF HandBack
<1>12. CASE UNCHANGED vars
  BY <1>7, <1>12 DEF vars, Collected
<1> QED
  BY <1>3, <1>4, <1>5, <1>6, <1>8, <1>9, <1>10, <1>11, <1>12
     DEF Next, RequestStep, CleanerStep

-----------------------------------------------------------------------------
(* The theorems. *)

LEMMA AlwaysIInv == Spec => []IInv
<1>1. IInv /\ [Next]_vars => IInv'
  BY NextTypeOK, NextCounts, NextHolding, NextIdle, NextNoOrphan DEF IInv
<1> QED BY <1>1, InitIInv, PTL DEF Spec

(* The types of the register, the buckets, the requests and the callbacks.  *)
(* No count leaves the range of the messages received.                      *)
THEOREM RegisterTypeCorrect == Spec => []TypeOK
<1>1. IInv => TypeOK
  BY DEF IInv
<1> QED BY <1>1, AlwaysIInv, PTL

(* An entry is shown as running only for requests that run, and one that    *)
(* has none is finished and on its way to the cleaner, however the requests *)
(* of a sender, the ticker and the callbacks interleave.                    *)
THEOREM EntriesAlwaysExact == Spec => []EntriesExact
<1>1. IInv => EntriesExact
  BY DEF IInv, EntriesExact
<1> QED BY <1>1, AlwaysIInv, PTL

=============================================================================
