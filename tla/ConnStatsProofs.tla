--------------------------- MODULE ConnStatsProofs ---------------------------
(***************************************************************************)
(* Proofs about ConnStats, for every number of connections, actions and    *)
(* requests and every size of the responses.                               *)
(***************************************************************************)
EXTENDS ConnStats, FiniteSetTheorems, TLAPS

-----------------------------------------------------------------------------
(* The inductive invariant. *)

Writing == {c \in Conns : pc[c] = "write"}

(* The bytes of an action's responses that are counted as made and not yet  *)
(* as sent or skipped, each known by its connection and its place.          *)
Owed(a) == UNION {{c} \X (1 .. response_size[c]) : c \in {d \in Writing : action[d] = a}}

Finite == /\ IsFiniteSet(status_connections) /\ IsFiniteSet(Counted) /\ IsFiniteSet(Writing)
          /\ \A a \in Actions : IsFiniteSet(Owed(a))

(* The skipped bytes of an action leave room for the responses on their way.*)
Adjusted ==
  \A a \in Actions :
    LET n == stats_actions[a] IN
    /\ n.resp_b_skipped + Cardinality(Owed(a)) <= n.b_resp_size
    /\ n.resp_b_skipped <= n.b_resp_compressed

(* The goroutines of one connection sleep, mark and delete together, and    *)
(* only after it is closed; until they delete the entry is there.           *)
Phases == {{"sleep"}, {"mark", "sleep2"}, {"delete", "done"}}
ClosersInStep ==
  \A c \in Conns :
    LET error == closer[c]["error"]
        ok    == closer[c]["ok"] IN
    /\ pc[c] \notin {"closing", "closed"} => error = "none" /\ ok = "none"
    /\ pc[c] = "closing" => error = "sleep" /\ ok = "none"
    /\ pc[c] = "closed" => /\ \E phase \in Phases : ok \in phase /\ error \in phase \cup {"none"}
                           /\ ok \in {"sleep", "mark", "sleep2"} => c \in status_connections

IInv == TypeOK /\ Finite /\ RequestsAgree /\ Adjusted /\ ClosersInStep /\ OpenShown

-----------------------------------------------------------------------------
Counts == [requests : Nat, b_resp_size : Nat, b_resp_compressed : Nat, resp_b_skipped : Nat]

(* Counting pairs. *)

LEMMA RowCount ==
  ASSUME NEW x, NEW n \in Nat
  PROVE  IsFiniteSet({x} \X (1 .. n)) /\ Cardinality({x} \X (1 .. n)) = n
<1>1. IsFiniteSet({x}) /\ Cardinality({x}) = 1
  BY FS_Singleton
<1>2. IsFiniteSet(1 .. n) /\ Cardinality(1 .. n) = n
  BY FS_Interval
<1> DEFINE S == {x}
           T == 1 .. n
<1> HIDE DEF S, T
<1>3. IsFiniteSet(S \X T) /\ Cardinality(S \X T) = Cardinality(S) * Cardinality(T)
  BY <1>1, <1>2, FS_Product DEF S, T
<1>4. Cardinality(S) * Cardinality(T) = n
  BY <1>1, <1>2 DEF S, T
<1> QED BY <1>3, <1>4 DEF S, T

LEMMA DisjointCount ==
  ASSUME NEW S, NEW T, IsFiniteSet(S), IsFiniteSet(T), S \cap T = {}
  PROVE  /\ IsFiniteSet(S \cup T)
         /\ Cardinality(S \cup T) = Cardinality(S) + Cardinality(T)
<1>1. Cardinality(S) \in Nat /\ Cardinality(T) \in Nat /\ Cardinality(S \cap T) = 0
  BY FS_CardinalityType, FS_EmptySet
<1>2. /\ IsFiniteSet(S \cup T)
      /\ Cardinality(S \cup T) = Cardinality(S) + Cardinality(T) - Cardinality(S \cap T)
  BY FS_Union
<1> QED BY <1>1, <1>2

(* A connection begins to write: the bytes of its response are owed. *)
LEMMA WriteBegins ==
  ASSUME TypeOK, Finite, NEW c \in Conns, NEW size \in 0 .. MaxSize, NEW b \in Actions,
         pc[c] # "write", action[c] = b, UNCHANGED action,
         pc' = [pc EXCEPT ![c] = "write"],
         response_size' = [response_size EXCEPT ![c] = size]
  PROVE  /\ IsFiniteSet(Writing') /\ Cardinality(Writing') = Cardinality(Writing) + 1
         /\ IsFiniteSet(Owed(b)') /\ Cardinality(Owed(b)') = Cardinality(Owed(b)) + size
         /\ \A a \in Actions : a # b => Owed(a)' = Owed(a)
<1>1. /\ c \notin Writing /\ Writing' = Writing \cup {c}
      /\ response_size'[c] = size
      /\ \A d \in Writing : response_size'[d] = response_size[d]
  BY DEF Writing, TypeOK
<1>2. IsFiniteSet(Writing') /\ Cardinality(Writing') = Cardinality(Writing) + 1
  BY <1>1, FS_AddElement DEF Finite
<1> DEFINE R == {c} \X (1 .. size)
<1>3. Owed(b)' = Owed(b) \cup R
  <2>1. {d \in Writing' : action'[d] = b} = {d \in Writing : action[d] = b} \cup {c}
    BY <1>1
  <2> QED BY <1>1, <2>1 DEF Owed
<1>4. Owed(b) \cap R = {}
  BY <1>1 DEF Owed
<1>5. \A a \in Actions : a # b => Owed(a)' = Owed(a)
  <2> SUFFICES ASSUME NEW a \in Actions, a # b PROVE Owed(a)' = Owed(a)
    OBVIOUS
  <2>1. {d \in Writing' : action'[d] = a} = {d \in Writing : action[d] = a}
    BY <1>1
  <2> QED BY <1>1, <2>1 DEF Owed
<1>6. IsFiniteSet(R) /\ Cardinality(R) = size
  <2>1. size \in Nat
    BY StatsAssumption
  <2> QED BY <2>1, RowCount
<1> HIDE DEF R
<1>7. IsFiniteSet(Owed(b)') /\ Cardinality(Owed(b)') = Cardinality(Owed(b)) + size
  <2>1. IsFiniteSet(Owed(b))
    BY DEF Finite
  <2>2. /\ IsFiniteSet(Owed(b) \cup R)
        /\ Cardinality(Owed(b) \cup R) = Cardinality(Owed(b)) + Cardinality(R)
    BY <2>1, <1>4, <1>6, DisjointCount
  <2> QED BY <2>2, <1>3, <1>6
<1> QED BY <1>2, <1>5, <1>7

(* A connection has written: its response is owed no more. *)
LEMMA WriteEnds ==
  ASSUME TypeOK, Finite, NEW c \in Conns, NEW b \in Actions, NEW size \in Nat,
         pc[c] = "write", action[c] = b, response_size[c] = size,
         UNCHANGED <<action, response_size>>, pc' = [pc EXCEPT ![c] = "wait"]
  PROVE  /\ IsFiniteSet(Writing') /\ Cardinality(Writing') = Cardinality(Writing) - 1
         /\ IsFiniteSet(Owed(b)') /\ Cardinality(Owed(b)') = Cardinality(Owed(b)) - size
         /\ \A a \in Actions : a # b => Owed(a)' = Owed(a)
<1>1. c \in Writing /\ Writing' = Writing \ {c} /\ c \notin Writing'
  BY DEF Writing, TypeOK
<1>2. IsFiniteSet(Writing') /\ Cardinality(Writing') = Cardinality(Writing) - 1
  BY <1>1, FS_RemoveElement DEF Finite
<1> DEFINE R == {c} \X (1 .. size)
<1>3. Owed(b) = Owed(b)' \cup R
  <2>1. {d \in Writing : action[d] = b} = {d \in Writing' : action'[d] = b} \cup {c}
    BY <1>1
  <2> QED BY <1>1, <2>1 DEF Owed
<1>4. Owed(b)' \cap R = {}
  BY <1>1 DEF Owed
<1>5. \A a \in Actions : a # b => Owed(a)' = Owed(a)
  <2> SUFFICES ASSUME NEW a \in Actions, a # b PROVE Owed(a)' = Owed(a)
    OBVIOUS
  <2>1. {d \in Writing' : action'[d] = a} = {d \in Writing : action[d] = a}
    BY <1>1
  <2> QED BY <1>1, <2>1 DEF Owed
<1>6. IsFiniteSet(R) /\ Cardinality(R) = size
  BY RowCount
<1>7. IsFiniteSet(Owed(b)')
  BY <1>3, FS_Subset DEF Finite
<1> HIDE DEF R
<1>8. Cardinality(Owed(b)') = Cardinality(Owed(b)) - size
  <2>1. Cardinality(Owed(b)) = Cardinality(Owed(b)') + Cardinality(R)
    BY <1>3, <1>4, <1>6, <1>7, DisjointCount
  <2>2. Cardinality(Owed(b)') \in Nat
    BY <1>7, FS_CardinalityType
  <2> QED BY <2>1, <2>2, <1>6
<1> QED BY <1>2, <1>5, <1>7, <1>8

(* A request more on an action's counter. *)
LEMMA CountedEffect ==
  ASSUME TypeOK, Finite, NEW b \in Actions,
         \A a \in Actions : a # b => stats_actions'[a] = stats_actions[a],
         stats_actions'[b].requests = stats_actions[b].requests + 1
  PROVE  IsFiniteSet(Counted') /\ Cardinality(Counted') = Cardinality(Counted) + 1
<1> DEFINE k == stats_actions[b].requests
<1>1. /\ k \in Nat
      /\ \A a \in Actions : /\ stats_actions[a].requests \in Nat
                            /\ stats_actions'[a].requests =
                                 IF a = b THEN k + 1 ELSE stats_actions[a].requests
  BY DEF TypeOK
<1>2. Counted' = Counted \cup {<<b, k + 1>>}
  BY <1>1 DEF Counted
<1>3. <<b, k + 1>> \notin Counted
  BY <1>1 DEF Counted
<1> QED BY <1>2, <1>3, FS_AddElement DEF Finite


-----------------------------------------------------------------------------
(* The beginning and the steps. *)

LEMMA InitIInv == Init => IInv
<1> SUFFICES ASSUME Init PROVE IInv
  OBVIOUS
<1>1. \A a \in Actions : /\ stats_actions[a].requests = 0 /\ stats_actions[a].b_resp_size = 0
                        /\ stats_actions[a].b_resp_compressed = 0 /\ stats_actions[a].resp_b_skipped = 0
  BY DEF Init, NoCounts
<1>2. TypeOK
  <2>1. NoAction \in Actions
    BY StatsAssumption DEF NoAction
  <2> QED BY <2>1, StatsAssumption DEF Init, TypeOK, NoCounts
<1>3. Counted = {}
  <2>1. \A a \in Actions : 1 .. stats_actions[a].requests = {}
    BY <1>1
  <2> QED BY <2>1 DEF Counted
<1>4. Writing = {} /\ \A a \in Actions : Owed(a) = {}
  BY DEF Init, Writing, Owed
<1>5. Finite
  BY <1>3, <1>4, FS_EmptySet DEF Init, Finite
<1>6. RequestsAgree
  <2>1. {c \in Conns : pc[c] = "write"} = {}
    BY DEF Init
  <2> QED BY <2>1, <1>3, FS_EmptySet DEF Init, RequestsAgree
<1>7. Adjusted
  <2>1. \A a \in Actions : Cardinality(Owed(a)) = 0
    BY <1>4, FS_EmptySet
  <2> QED BY <1>1, <2>1 DEF Adjusted
<1>8. ClosersInStep /\ OpenShown
  BY DEF Init, ClosersInStep, OpenShown, Open, Closers
<1> QED BY <1>2, <1>5, <1>6, <1>7, <1>8 DEF IInv

(* The two updates of an action's counters. *)
LEMMA CountsWritten ==
  ASSUME NEW s \in [Actions -> Counts], NEW b \in Actions, NEW size \in Nat,
         NEW t, t = [s EXCEPT ![b].requests = @ + 1, ![b].b_resp_size = @ + size]
  PROVE  /\ t \in [Actions -> Counts]
         /\ \A a \in Actions : a # b => t[a] = s[a]
         /\ t[b].requests = s[b].requests + 1
         /\ t[b].b_resp_size = s[b].b_resp_size + size
         /\ t[b].b_resp_compressed = s[b].b_resp_compressed
         /\ t[b].resp_b_skipped = s[b].resp_b_skipped
<1>1. PICK m \in Counts : m = s[b]
  OBVIOUS
<1>2. PICK n : n = [m EXCEPT !.requests = @ + 1, !.b_resp_size = @ + size]
  OBVIOUS
<1>3. /\ n \in Counts
      /\ n.requests = m.requests + 1 /\ n.b_resp_size = m.b_resp_size + size
      /\ n.b_resp_compressed = m.b_resp_compressed /\ n.resp_b_skipped = m.resp_b_skipped
  <2>1. n = [requests |-> m.requests + 1, b_resp_size |-> m.b_resp_size + size,
             b_resp_compressed |-> m.b_resp_compressed, resp_b_skipped |-> m.resp_b_skipped]
    BY <1>2 DEF Counts
  <2>2. m.requests + 1 \in Nat /\ m.b_resp_size + size \in Nat
        /\ m.b_resp_compressed \in Nat /\ m.resp_b_skipped \in Nat
    BY DEF Counts
  <2> QED BY <2>1, <2>2 DEF Counts
<1>4. t = [s EXCEPT ![b] = n]
  BY <1>1, <1>2 DEF Counts
<1> QED BY <1>1, <1>3, <1>4

Sends(s, t, b, sent, k) ==
  t = [s EXCEPT ![b].b_resp_compressed = @ + sent, ![b].resp_b_skipped = @ + k]

LEMMA CountsSent ==
  ASSUME NEW s \in [Actions -> Counts], NEW b \in Actions, NEW sent \in Nat, NEW k \in Nat,
         NEW t, Sends(s, t, b, sent, k)
  PROVE  /\ t \in [Actions -> Counts]
         /\ \A a \in Actions : a # b => t[a] = s[a]
         /\ t[b].requests = s[b].requests
         /\ t[b].b_resp_size = s[b].b_resp_size
         /\ t[b].b_resp_compressed = s[b].b_resp_compressed + sent
         /\ t[b].resp_b_skipped = s[b].resp_b_skipped + k
<1>1. PICK m \in Counts : m = s[b]
  OBVIOUS
<1>2. PICK n : n = [m EXCEPT !.b_resp_compressed = @ + sent, !.resp_b_skipped = @ + k]
  OBVIOUS
<1>3. /\ n \in Counts
      /\ n.requests = m.requests /\ n.b_resp_size = m.b_resp_size
      /\ n.b_resp_compressed = m.b_resp_compressed + sent /\ n.resp_b_skipped = m.resp_b_skipped + k
  <2>1. n = [requests |-> m.requests, b_resp_size |-> m.b_resp_size,
             b_resp_compressed |-> m.b_resp_compressed + sent,
             resp_b_skipped |-> m.resp_b_skipped + k]
    BY <1>2 DEF Counts
  <2>2. m.requests \in Nat /\ m.b_resp_size \in Nat
        /\ m.b_resp_compressed + sent \in Nat /\ m.resp_b_skipped + k \in Nat
    BY DEF Counts
  <2> QED BY <2>1, <2>2 DEF Counts
<1>4. t = [s EXCEPT ![b] = n]
  BY <1>1, <1>2 DEF Counts, Sends
<1> QED BY <1>1, <1>3, <1>4

LEMMA NextTypeOK ==
  ASSUME TypeOK, Finite, [Next]_vars
  PROVE  TypeOK'
<1> USE DEF TypeOK, Goto, Open
<1>0. ASSUME NEW c \in Conns, NEW k \in Closers,
             NEW w \in {"none", "sleep", "mark", "sleep2", "delete", "done"},
             closer' = [closer EXCEPT ![c][k] = w]
      PROVE  closer' \in [Conns -> [Closers -> {"none", "sleep", "mark", "sleep2", "delete", "done"}]]
  BY <1>0
<1>1. ASSUME NEW c \in Conns, MakeConnection(c) \/ StateReading(c) PROVE TypeOK'
  BY <1>1 DEF MakeConnection, StateReading
<1>8. ASSUME NEW c \in Conns, CloseError(c) \/ CloseOk(c) PROVE TypeOK'
  <2>1. closer' \in [Conns -> [Closers -> {"none", "sleep", "mark", "sleep2", "delete", "done"}]]
    BY <1>0, <1>8 DEF CloseError, CloseOk, StartCloser, Closers
  <2> QED BY <1>8, <2>1 DEF CloseError, CloseOk
<1>2. ASSUME NEW c \in Conns, NEW a \in Actions, StateServing(c, a) PROVE TypeOK'
  BY <1>2 DEF StateServing
<1>3. ASSUME NEW c \in Conns, NEW size \in 0 .. MaxSize, StateWriting(c, size) PROVE TypeOK'
  <2>1. /\ response_size' \in [Conns -> 0 .. MaxSize]
        /\ pc' \in [Conns -> Open \cup {"none", "closed"}]
    BY <1>3 DEF StateWriting
  <2>2. stats_actions' \in [Actions -> Counts]
    <3>1. PICK b \in Actions : b = action[c]
      OBVIOUS
    <3>2. stats_actions' = [stats_actions EXCEPT ![b].requests = @ + 1, ![b].b_resp_size = @ + size]
      BY <1>3, <3>1 DEF StateWriting
    <3>3. size \in Nat
      BY StatsAssumption
    <3> QED BY <3>2, <3>3, CountsWritten DEF Counts
  <2> QED BY <1>3, <2>1, <2>2 DEF StateWriting, Counts
<1>4. ASSUME NEW c \in Conns, NEW sent \in 0 .. MaxSize, NEW skip \in BOOLEAN,
             StateKeepalive(c, sent, skip)
      PROVE  TypeOK'
  <2>1. /\ pc' \in [Conns -> Open \cup {"none", "closed"}] /\ global_stats_requests' \in Nat
    BY <1>4 DEF StateKeepalive
  <2>2. stats_actions' \in [Actions -> Counts]
    <3> DEFINE k == IF skip THEN response_size[c] ELSE 0
    <3>0. k \in Nat /\ sent \in Nat
      BY StatsAssumption
    <3>1. PICK b \in Actions : b = action[c]
      OBVIOUS
    <3>2. Sends(stats_actions, stats_actions', b, sent, k)
      BY <1>4, <3>1 DEF StateKeepalive, Sends
    <3> HIDE DEF k
    <3> QED BY <3>0, <3>2, CountsSent DEF Counts
  <2> QED BY <1>4, <2>1, <2>2 DEF StateKeepalive, Counts
<1>5. ASSUME NEW c \in Conns, NEW k \in Closers, CloserStep(c, k) PROVE TypeOK'
  <2>1. closer' \in [Conns -> [Closers -> {"none", "sleep", "mark", "sleep2", "delete", "done"}]]
    BY <1>0, <1>5 DEF CloserStep, Mark, Delete
  <2> QED BY <1>5, <2>1 DEF CloserStep, Mark, Delete, conn_vars
<1>6. ASSUME Sleep5 PROVE TypeOK'
  <2>1. \A w \in {"none", "sleep", "mark", "sleep2", "delete", "done"} :
           (CASE w = "sleep" -> "mark" [] w = "sleep2" -> "delete" [] OTHER -> w)
             \in {"none", "sleep", "mark", "sleep2", "delete", "done"}
    OBVIOUS
  <2> QED BY <1>6, <2>1 DEF Sleep5, conn_vars
<1>7. ASSUME PageMake \/ PageRows PROVE TypeOK'
  <2>1. Cardinality(status_connections) \in Nat
    BY FS_CardinalityType DEF Finite
  <2> QED BY <1>7, <2>1 DEF PageMake, PageRows, conn_vars
<1>9. CASE UNCHANGED vars
  BY <1>9 DEF vars, conn_vars
<1> QED BY <1>1, <1>2, <1>3, <1>4, <1>5, <1>6, <1>7, <1>8, <1>9 DEF Next

(* Every other step leaves the counted requests and the responses on their  *)
(* way alone.                                                               *)
LEMMA SameCounts ==
  ASSUME Finite, RequestsAgree, Adjusted, IsFiniteSet(status_connections'),
         UNCHANGED <<stats_actions, global_stats_requests, response_size>>,
         Writing' = Writing, \A d \in Writing : action'[d] = action[d]
  PROVE  Finite' /\ RequestsAgree' /\ Adjusted'
<1>1. Counted' = Counted
  BY DEF Counted
<1>2. \A a \in Actions : Owed(a)' = Owed(a)
  <2> SUFFICES ASSUME NEW a \in Actions PROVE Owed(a)' = Owed(a)
    OBVIOUS
  <2>1. {d \in Writing' : action'[d] = a} = {d \in Writing : action[d] = a}
    OBVIOUS
  <2> QED BY <2>1 DEF Owed
<1>3. Finite'
  BY <1>1, <1>2 DEF Finite
<1>4. RequestsAgree'
  BY <1>1 DEF RequestsAgree, Writing
<1>5. Adjusted'
  BY <1>2 DEF Adjusted
<1> QED BY <1>3, <1>4, <1>5

LEMMA NextCounts ==
  ASSUME TypeOK, Finite, RequestsAgree, Adjusted, [Next]_vars
  PROVE  Finite' /\ RequestsAgree' /\ Adjusted'
<1>1. ASSUME UNCHANGED <<stats_actions, global_stats_requests, response_size>>,
             IsFiniteSet(status_connections'), UNCHANGED action,
             NEW c \in Conns, NEW where \in (Open \cup {"none", "closed"}) \ {"write"},
             pc[c] # "write", pc' = [pc EXCEPT ![c] = where] \/ UNCHANGED pc
      PROVE  Finite' /\ RequestsAgree' /\ Adjusted'
  <2>1. Writing' = Writing
    BY <1>1 DEF Writing, TypeOK, Open
  <2> QED BY <1>1, <2>1, SameCounts
<1>2. ASSUME NEW c \in Conns, MakeConnection(c) \/ StateReading(c) \/ CloseError(c) \/ CloseOk(c)
      PROVE  Finite' /\ RequestsAgree' /\ Adjusted'
  <2>1. IsFiniteSet(status_connections')
    BY <1>2, FS_AddElement DEF MakeConnection, StateReading, CloseError, CloseOk, Finite
  <2>2. pc[c] # "write"
    BY <1>2 DEF MakeConnection, StateReading, CloseError, CloseOk
  <2>3. \E where \in (Open \cup {"none", "closed"}) \ {"write"} : pc' = [pc EXCEPT ![c] = where]
    BY <1>2 DEF MakeConnection, StateReading, CloseError, CloseOk, Goto, Open
  <2> QED BY <1>1, <1>2, <2>1, <2>2, <2>3 DEF MakeConnection, StateReading, CloseError, CloseOk
<1>3. ASSUME NEW c \in Conns, NEW a \in Actions, StateServing(c, a)
      PROVE  Finite' /\ RequestsAgree' /\ Adjusted'
  <2>1. Writing' = Writing /\ \A d \in Writing : action'[d] = action[d]
    BY <1>3 DEF StateServing, Writing, TypeOK, Goto
  <2> QED BY <1>3, <2>1, SameCounts DEF StateServing, Finite
<1>4. ASSUME NEW c \in Conns, NEW size \in 0 .. MaxSize, StateWriting(c, size)
      PROVE  Finite' /\ RequestsAgree' /\ Adjusted'
  <2>1. PICK b \in Actions : b = action[c]
    BY DEF TypeOK
  <2>2. size \in Nat
    BY StatsAssumption
  <2>3. /\ IsFiniteSet(Writing') /\ Cardinality(Writing') = Cardinality(Writing) + 1
        /\ IsFiniteSet(Owed(b)') /\ Cardinality(Owed(b)') = Cardinality(Owed(b)) + size
        /\ \A a \in Actions : a # b => Owed(a)' = Owed(a)
    BY <1>4, <2>1, WriteBegins DEF StateWriting, Goto
  <2>4. stats_actions \in [Actions -> Counts]
    BY DEF TypeOK, Counts
  <2>5. stats_actions' = [stats_actions EXCEPT ![b].requests = @ + 1, ![b].b_resp_size = @ + size]
    BY <1>4, <2>1 DEF StateWriting
  <2>6. /\ \A a \in Actions : a # b => stats_actions'[a] = stats_actions[a]
        /\ stats_actions'[b].requests = stats_actions[b].requests + 1
        /\ stats_actions'[b].b_resp_size = stats_actions[b].b_resp_size + size
        /\ stats_actions'[b].b_resp_compressed = stats_actions[b].b_resp_compressed
        /\ stats_actions'[b].resp_b_skipped = stats_actions[b].resp_b_skipped
    BY <2>2, <2>4, <2>5, CountsWritten
  <2>7. IsFiniteSet(Counted') /\ Cardinality(Counted') = Cardinality(Counted) + 1
    BY <2>6, CountedEffect
  <2>8. Finite'
    BY <1>4, <2>3, <2>7 DEF Finite, StateWriting
  <2>9. RequestsAgree'
    <3>1. Cardinality(Counted) = global_stats_requests + Cardinality(Writing)
      BY DEF RequestsAgree, Writing
    <3>2. Cardinality(Writing) \in Nat /\ global_stats_requests \in Nat
      BY FS_CardinalityType DEF Finite, TypeOK
    <3>3. Cardinality(Counted') = global_stats_requests' + Cardinality(Writing')
      BY <1>4, <2>3, <2>7, <3>1, <3>2 DEF StateWriting
    <3> QED BY <3>3 DEF RequestsAgree, Writing
  <2>10. Adjusted'
    <3>1. stats_actions[b].resp_b_skipped \in Nat /\ stats_actions[b].b_resp_size \in Nat
          /\ Cardinality(Owed(b)) \in Nat
      BY <2>4, FS_CardinalityType DEF Counts, Finite
    <3>2. \A a \in Actions : a # b =>
             /\ stats_actions'[a].resp_b_skipped + Cardinality(Owed(a)') <= stats_actions'[a].b_resp_size
             /\ stats_actions'[a].resp_b_skipped <= stats_actions'[a].b_resp_compressed
      BY <2>3, <2>6 DEF Adjusted
    <3>3. /\ stats_actions'[b].resp_b_skipped + Cardinality(Owed(b)') <= stats_actions'[b].b_resp_size
          /\ stats_actions'[b].resp_b_skipped <= stats_actions'[b].b_resp_compressed
      BY <2>2, <2>3, <2>6, <3>1 DEF Adjusted
    <3> QED BY <3>2, <3>3 DEF Adjusted
  <2> QED BY <2>8, <2>9, <2>10
<1>5. ASSUME NEW c \in Conns, NEW sent \in 0 .. MaxSize, NEW skip \in BOOLEAN,
             StateKeepalive(c, sent, skip)
      PROVE  Finite' /\ RequestsAgree' /\ Adjusted'
  <2>1. PICK b \in Actions : b = action[c]
    BY DEF TypeOK
  <2>2. PICK size \in Nat : size = response_size[c]
    BY StatsAssumption DEF TypeOK
  <2>3. /\ IsFiniteSet(Writing') /\ Cardinality(Writing') = Cardinality(Writing) - 1
        /\ IsFiniteSet(Owed(b)') /\ Cardinality(Owed(b)') = Cardinality(Owed(b)) - size
        /\ \A a \in Actions : a # b => Owed(a)' = Owed(a)
    BY <1>5, <2>1, <2>2, WriteEnds DEF StateKeepalive, Goto
  <2>4. stats_actions \in [Actions -> Counts]
    BY DEF TypeOK, Counts
  <2>5. PICK k \in Nat : k = IF skip THEN size ELSE 0
    OBVIOUS
  <2>5a. sent \in Nat /\ k <= sent /\ k <= size
    BY <1>5, <2>2, <2>5, StatsAssumption DEF StateKeepalive
  <2>5b. Sends(stats_actions, stats_actions', b, sent, k)
    BY <1>5, <2>1, <2>2, <2>5 DEF StateKeepalive, Sends
  <2>6. /\ stats_actions' \in [Actions -> Counts]
        /\ \A a \in Actions : a # b => stats_actions'[a] = stats_actions[a]
        /\ stats_actions'[b].requests = stats_actions[b].requests
        /\ stats_actions'[b].b_resp_size = stats_actions[b].b_resp_size
        /\ stats_actions'[b].b_resp_compressed = stats_actions[b].b_resp_compressed + sent
        /\ stats_actions'[b].resp_b_skipped = stats_actions[b].resp_b_skipped + k
    BY <2>4, <2>5a, <2>5b, CountsSent
  <2>7. Counted' = Counted
    <3>1. \A a \in Actions : stats_actions'[a].requests = stats_actions[a].requests
      BY <2>6
    <3> QED BY <3>1 DEF Counted
  <2>8. Finite'
    BY <1>5, <2>3, <2>7 DEF Finite, StateKeepalive
  <2>9. RequestsAgree'
    <3>1. Cardinality(Counted) = global_stats_requests + Cardinality(Writing)
      BY DEF RequestsAgree, Writing
    <3>2. Cardinality(Writing) \in Nat /\ global_stats_requests \in Nat
      BY FS_CardinalityType DEF Finite, TypeOK
    <3>3. Cardinality(Counted') = global_stats_requests' + Cardinality(Writing')
      BY <1>5, <2>3, <2>7, <3>1, <3>2 DEF StateKeepalive
    <3> QED BY <3>3 DEF RequestsAgree, Writing
  <2>10. Adjusted'
    <3>1. /\ stats_actions[b].resp_b_skipped \in Nat /\ stats_actions[b].b_resp_size \in Nat
          /\ stats_actions[b].b_resp_compressed \in Nat
          /\ Cardinality(Owed(b)) \in Nat
      BY <2>4, FS_CardinalityType DEF Counts, Finite
    <3>2. \A a \in Actions : a # b =>
             /\ stats_actions'[a].resp_b_skipped + Cardinality(Owed(a)') <= stats_actions'[a].b_resp_size
             /\ stats_actions'[a].resp_b_skipped <= stats_actions'[a].b_resp_compressed
      BY <2>3, <2>6 DEF Adjusted
    <3>3. /\ stats_actions'[b].resp_b_skipped + Cardinality(Owed(b)') <= stats_actions'[b].b_resp_size
          /\ stats_actions'[b].resp_b_skipped <= stats_actions'[b].b_resp_compressed
      BY <2>3, <2>5a, <2>6, <3>1 DEF Adjusted
    <3> QED BY <3>2, <3>3 DEF Adjusted
  <2> QED BY <2>8, <2>9, <2>10
<1>6. ASSUME NEW c \in Conns, NEW k \in Closers, CloserStep(c, k)
      PROVE  Finite' /\ RequestsAgree' /\ Adjusted'
  <2>1. IsFiniteSet(status_connections')
    BY <1>6, FS_Subset DEF CloserStep, Mark, Delete, Finite
  <2>2. Writing' = Writing
    BY <1>6 DEF CloserStep, Mark, Delete, Writing, conn_vars
  <2> QED BY <1>6, <2>1, <2>2, SameCounts DEF CloserStep, Mark, Delete, conn_vars
<1>7. CASE Sleep5 \/ PageMake \/ PageRows \/ UNCHANGED vars
  <2>1. Writing' = Writing
    BY <1>7 DEF Sleep5, PageMake, PageRows, Writing, conn_vars, vars
  <2> QED BY <1>7, <2>1, SameCounts DEF Sleep5, PageMake, PageRows, conn_vars, vars, Finite
<1> QED BY <1>2, <1>3, <1>4, <1>5, <1>6, <1>7 DEF Next

-----------------------------------------------------------------------------
(* The goroutines of Close. *)

LEMMA NextClosers ==
  ASSUME TypeOK, ClosersInStep, OpenShown, [Next]_vars
  PROVE  ClosersInStep' /\ OpenShown'
<1> USE DEF Open
<1>1. ASSUME NEW c \in Conns, CloseError(c) PROVE ClosersInStep' /\ OpenShown'
  <2>1. /\ pc' = [pc EXCEPT ![c] = "closing"] /\ UNCHANGED status_connections
        /\ closer' = [closer EXCEPT ![c]["error"] = "sleep"]
        /\ pc[c] \in {"wait", "read"}
    BY <1>1 DEF CloseError, Goto, StartCloser
  <2>2. /\ closer'[c]["error"] = "sleep" /\ closer'[c]["ok"] = closer[c]["ok"]
        /\ pc'[c] = "closing"
        /\ \A d \in Conns : d # c => closer'[d] = closer[d] /\ pc'[d] = pc[d]
    BY <2>1 DEF TypeOK, Closers
  <2>3. OpenShown'
    BY <2>1, <2>2 DEF OpenShown
  <2>4. ClosersInStep'
    BY <2>1, <2>2 DEF ClosersInStep
  <2> QED BY <2>3, <2>4
<1>2. ASSUME NEW c \in Conns, CloseOk(c) PROVE ClosersInStep' /\ OpenShown'
  <2>1. /\ pc' = [pc EXCEPT ![c] = "closed"] /\ UNCHANGED status_connections
        /\ closer' = [closer EXCEPT ![c]["ok"] = "sleep"]
        /\ pc[c] \in {"wait", "read", "closing"}
    BY <1>2 DEF CloseOk, Goto, StartCloser
  <2>2. /\ closer'[c]["ok"] = "sleep" /\ closer'[c]["error"] = closer[c]["error"]
        /\ pc'[c] = "closed"
        /\ \A d \in Conns : d # c => closer'[d] = closer[d] /\ pc'[d] = pc[d]
    BY <2>1 DEF TypeOK, Closers
  <2>3. c \in status_connections /\ closer[c]["error"] \in {"none", "sleep"}
    BY <2>1 DEF OpenShown, ClosersInStep
  <2>4. OpenShown'
    BY <2>1, <2>2 DEF OpenShown
  <2>5. ClosersInStep'
    BY <2>1, <2>2, <2>3 DEF ClosersInStep, Phases
  <2> QED BY <2>4, <2>5
<1>3. ASSUME NEW c \in Conns,
             MakeConnection(c) \/ StateReading(c) \/ (\E a \in Actions : StateServing(c, a))
               \/ (\E size \in 0 .. MaxSize : StateWriting(c, size))
               \/ (\E sent \in 0 .. MaxSize, skip \in BOOLEAN : StateKeepalive(c, sent, skip))
      PROVE  ClosersInStep' /\ OpenShown'
  <2>1. /\ UNCHANGED closer
        /\ status_connections \subseteq status_connections'
        /\ pc[c] \notin {"closing", "closed"}
        /\ \/ pc[c] = "none" /\ c \in status_connections'
           \/ pc[c] \in Open
        /\ \E where \in {"wait", "read", "serve", "write"} : pc' = [pc EXCEPT ![c] = where]
    BY <1>3 DEF MakeConnection, StateReading, StateServing, StateWriting, StateKeepalive, Goto
  <2>2. /\ pc'[c] \in {"wait", "read", "serve", "write"}
        /\ \A d \in Conns : d # c => pc'[d] = pc[d]
    BY <2>1 DEF TypeOK
  <2>3. OpenShown'
    BY <2>1, <2>2 DEF OpenShown
  <2>4. ClosersInStep'
    BY <2>1, <2>2 DEF ClosersInStep
  <2> QED BY <2>3, <2>4
<1>4. ASSUME NEW c \in Conns, NEW k \in Closers, CloserStep(c, k)
      PROVE  ClosersInStep' /\ OpenShown'
  <2>1. UNCHANGED pc
    BY <1>4 DEF CloserStep, Mark, Delete, conn_vars
  <2>2. \A d \in Conns : d # c => closer'[d] = closer[d]
    BY <1>4 DEF CloserStep, Mark, Delete, TypeOK
  <2>3. closer[c][k] \in {"mark", "delete"} /\ k \in {"error", "ok"}
    BY <1>4 DEF CloserStep, Mark, Delete, Closers
  <2>4. pc[c] = "closed" /\ \E phase \in Phases : closer[c]["ok"] \in phase
                                       /\ closer[c]["error"] \in phase \cup {"none"}
    BY <2>3 DEF ClosersInStep, TypeOK
  <2>5. CASE Mark(c, k)
    <3>1. closer'[c][k] = "sleep2" /\ \A j \in Closers : j # k => closer'[c][j] = closer[c][j]
      BY <2>5 DEF Mark, TypeOK
    <3>2. UNCHANGED status_connections /\ closer[c][k] = "mark" /\ c \in status_connections
      BY <2>5 DEF Mark
    <3>3. \E phase \in Phases : closer'[c]["ok"] \in phase /\ closer'[c]["error"] \in phase \cup {"none"}
      BY <2>3, <2>4, <3>1, <3>2 DEF Phases, Closers
    <3>4. ClosersInStep'
      BY <2>1, <2>2, <2>4, <3>2, <3>3 DEF ClosersInStep
    <3> QED BY <2>1, <3>2, <3>4 DEF OpenShown
  <2>6. CASE Delete(c, k)
    <3>1. closer'[c][k] = "done" /\ \A j \in Closers : j # k => closer'[c][j] = closer[c][j]
      BY <2>6 DEF Delete, TypeOK
    <3>2. status_connections' = status_connections \ {c} /\ closer[c][k] = "delete"
      BY <2>6 DEF Delete
    <3>3. /\ closer'[c]["ok"] \in {"delete", "done"}
          /\ closer'[c]["error"] \in {"delete", "done", "none"}
      BY <2>3, <2>4, <3>1, <3>2 DEF Phases, Closers
    <3>4. ClosersInStep'
      BY <2>1, <2>2, <2>4, <3>2, <3>3 DEF ClosersInStep, Phases
    <3>5. OpenShown'
      BY <2>1, <2>4, <3>2 DEF OpenShown
    <3> QED BY <3>4, <3>5
  <2> QED BY <1>4, <2>5, <2>6 DEF CloserStep
<1>5. CASE Sleep5
  <2>1. UNCHANGED <<pc, status_connections>>
    BY <1>5 DEF Sleep5, conn_vars
  <2>2. \A c \in Conns : pc[c] # "closing"
    BY <1>5 DEF Sleep5
  <2>3. ASSUME NEW c \in Conns, NEW k \in Closers
        PROVE  /\ closer[c][k] \notin {"mark", "delete"}
               /\ closer[c][k] = "sleep" => closer'[c][k] = "mark"
               /\ closer[c][k] = "sleep2" => closer'[c][k] = "delete"
               /\ closer[c][k] \in {"none", "done"} => closer'[c][k] = closer[c][k]
    BY <1>5 DEF Sleep5, Due
  <2>4. \A c \in Conns : closer[c] \in [Closers -> {"none", "sleep", "mark", "sleep2", "delete", "done"}]
    BY DEF TypeOK
  <2>5. OpenShown'
    BY <2>1 DEF OpenShown
  <2>6. ASSUME NEW c \in Conns, pc[c] # "closed"
        PROVE  closer'[c]["error"] = "none" /\ closer'[c]["ok"] = "none"
    BY <2>2, <2>3, <2>6 DEF ClosersInStep, Closers
  <2>7. ASSUME NEW c \in Conns, pc[c] = "closed"
        PROVE  /\ \E phase \in Phases : closer'[c]["ok"] \in phase
                                        /\ closer'[c]["error"] \in phase \cup {"none"}
               /\ closer'[c]["ok"] \in {"sleep", "mark", "sleep2"} => c \in status_connections
    BY <2>3, <2>4, <2>7 DEF ClosersInStep, Closers, Phases
  <2>8. ClosersInStep'
    BY <2>1, <2>2, <2>6, <2>7 DEF ClosersInStep
  <2> QED BY <2>5, <2>8
<1>6. CASE PageMake \/ PageRows \/ UNCHANGED vars
  BY <1>6 DEF PageMake, PageRows, vars, conn_vars, ClosersInStep, OpenShown
<1> QED BY <1>1, <1>2, <1>3, <1>4, <1>5, <1>6 DEF Next

-----------------------------------------------------------------------------
(* The theorems. *)

LEMMA SpecIInv == Spec => []IInv
<1>1. IInv /\ [Next]_vars => IInv'
  BY NextTypeOK, NextCounts, NextClosers DEF IInv
<1> QED BY <1>1, InitIInv, PTL DEF Spec

(* stats.go: the register, the counters and the state of every connection   *)
(* and every goroutine of Close stay of their types.                        *)
THEOREM StatsTypeCorrect == Spec => []TypeOK
<1>1. IInv => TypeOK
  BY DEF IInv
<1> QED BY <1>1, SpecIInv, PTL

(* stats.go:37-63, status.go: the total of the requests and the sum over    *)
(* the actions differ by the responses being written, and the totals that   *)
(* getAdjStats takes the skipped bytes from never wrap around, for any      *)
(* number of connections that interleave their two steps of counting.       *)
THEOREM NumbersAlwaysAgree == Spec => []NumbersAgree
<1>1. IInv => NumbersAgree
  <2> SUFFICES ASSUME IInv PROVE AdjustedNonNegative
    BY DEF IInv, NumbersAgree
  <2> SUFFICES ASSUME NEW a \in Actions
               PROVE  /\ stats_actions[a].resp_b_skipped <= stats_actions[a].b_resp_size
                      /\ stats_actions[a].resp_b_skipped <= stats_actions[a].b_resp_compressed
    BY DEF AdjustedNonNegative
  <2>1. Cardinality(Owed(a)) \in Nat
    BY FS_CardinalityType DEF IInv, Finite
  <2>2. stats_actions[a].resp_b_skipped \in Nat /\ stats_actions[a].b_resp_size \in Nat
    BY DEF IInv, TypeOK
  <2> QED BY <2>1, <2>2 DEF IInv, Adjusted
<1> QED BY <1>1, SpecIInv, PTL

(* stats.go:138-199: an open connection is in the register, and a goroutine *)
(* of Close that comes to mark a connection finds its entry, though an      *)
(* error starts two of them for one connection.                             *)
THEOREM RegisterAlwaysExact == Spec => []RegisterExact
<1>1. IInv => RegisterExact
  <2> SUFFICES ASSUME IInv, NEW c \in Conns, NEW k \in Closers, closer[c][k] = "mark"
               PROVE  c \in status_connections
    BY DEF IInv, RegisterExact, MarkFindsEntry
  <2>1. pc[c] = "closed" /\ pc[c] \in Open \cup {"none", "closed"}
    BY DEF IInv, ClosersInStep, Closers, TypeOK
  <2>2. closer[c]["ok"] \in {"mark", "sleep2"}
    BY <2>1 DEF IInv, ClosersInStep, Closers, Phases
  <2> QED BY <2>1, <2>2 DEF IInv, ClosersInStep
<1> QED BY <1>1, SpecIInv, PTL
=============================================================================
