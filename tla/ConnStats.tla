------------------------------ MODULE ConnStats ------------------------------
(***************************************************************************)
(* The register of TCP connections and the counters per action             *)
(* (stats/stats.go), as serveSocket drives them, and the status page that  *)
(* reads them (stats/status.go).  Everything is under stats_mutex but one  *)
(* read of the page.  A closed connection stays in the register for two    *)
(* sleeps of 5 seconds of a goroutine that Close starts; after an error    *)
(* Close is called twice.                                                  *)
(***************************************************************************)
EXTENDS Integers, FiniteSets

CONSTANTS Conns,        \* connections, each opened once
          Actions,      \* values of the parameter "action"
          MaxSize,      \* bound: size of a response, as it is and as it is sent
          MaxRequests   \* bound: requests in a behaviour

ASSUME StatsAssumption == MaxSize \in Nat /\ MaxRequests \in Nat /\ Actions # {}

VARIABLES
  pc,                   \* per connection, where serveSocket is
  action,               \* per connection, the action of its request
  response_size,        \* per connection, of its last response
  status_connections,   \* the register
  stats_actions,        \* per action, its counters
  global_stats_requests,
  closer,               \* per connection, what its two goroutines of Close do
  page                  \* the status page: [pc, len]

conn_vars == <<pc, action, response_size>>
vars == <<conn_vars, status_connections, stats_actions, global_stats_requests,
          closer, page>>

NoCounts == [requests |-> 0, b_resp_size |-> 0, b_resp_compressed |-> 0,
             resp_b_skipped |-> 0]
Closers == {"error", "ok"}
NoAction == CHOOSE a \in Actions : TRUE   \* before the first request

Init ==
  /\ pc = [c \in Conns |-> "none"]
  /\ action = [c \in Conns |-> NoAction]
  /\ response_size = [c \in Conns |-> 0]
  /\ status_connections = {}
  /\ stats_actions = [a \in Actions |-> NoCounts]
  /\ global_stats_requests = 0
  /\ closer = [c \in Conns |-> [k \in Closers |-> "none"]]
  /\ page = [pc |-> "idle", len |-> 0]

(* A panic of the page leaves stats_mutex locked: over HTTP the server goes *)
(* on without it, otherwise the process ends.                               *)
Unlocked == page.pc # "panic"

Goto(c, where) == pc' = [pc EXCEPT ![c] = where]

(* The requests that the counters of the actions stand for, each known by   *)
(* its action and its number there.                                         *)
Counted == UNION {{a} \X (1 .. stats_actions[a].requests) : a \in Actions}

-----------------------------------------------------------------------------
(* serveSocket. *)

MakeConnection(c) ==
  /\ pc[c] = "none"
  /\ Unlocked
  /\ status_connections' = status_connections \cup {c}
  /\ Goto(c, "wait")
  /\ UNCHANGED <<action, response_size, stats_actions, global_stats_requests,
                 closer, page>>

StateReading(c) ==
  /\ pc[c] = "wait"
  /\ Unlocked
  /\ Goto(c, "read")
  /\ UNCHANGED <<action, response_size, status_connections, stats_actions,
                 global_stats_requests, closer, page>>

StateServing(c, a) ==
  /\ pc[c] = "read"
  /\ Unlocked
  /\ Cardinality(Counted) < MaxRequests
  /\ action' = [action EXCEPT ![c] = a]
  /\ Goto(c, "serve")
  /\ UNCHANGED <<response_size, status_connections, stats_actions,
                 global_stats_requests, closer, page>>

(* Mutant: a byte more is kept as the size of the response. *)
StateWritingMore(c, size) ==
  /\ pc[c] = "serve"
  /\ Unlocked
  /\ response_size' = [response_size EXCEPT ![c] = size + 1]
  /\ stats_actions' = [stats_actions EXCEPT ![action[c]].requests = @ + 1,
                                            ![action[c]].b_resp_size = @ + size]
  /\ Goto(c, "write")
  /\ UNCHANGED <<action, status_connections, global_stats_requests, closer, page>>

(* The handler has answered. *)
StateWriting(c, size) ==
  /\ pc[c] = "serve"
  /\ Unlocked
  /\ response_size' = [response_size EXCEPT ![c] = size]
  /\ stats_actions' = [stats_actions EXCEPT ![action[c]].requests = @ + 1,
                                            ![action[c]].b_resp_size = @ + size]
  /\ Goto(c, "write")
  /\ UNCHANGED <<action, status_connections, global_stats_requests, closer, page>>

(* Mutant: a skipped response counts as 0 bytes sent. *)
StateKeepaliveUnsent(c, sent, skip) ==
  /\ pc[c] = "write"
  /\ Unlocked
  /\ sent = IF skip THEN 0 ELSE sent
  /\ global_stats_requests' = global_stats_requests + 1
  /\ stats_actions' =
       [stats_actions EXCEPT
          ![action[c]].b_resp_compressed = @ + sent,
          ![action[c]].resp_b_skipped = @ + (IF skip THEN response_size[c] ELSE 0)]
  /\ Goto(c, "wait")
  /\ UNCHANGED <<action, response_size, status_connections, closer, page>>

(* The response is sent, compressed or not, or skipped (__skipsendback).  What *)
(* gzip makes of it may be longer.                                          *)
StateKeepalive(c, sent, skip) ==
  /\ pc[c] = "write"
  /\ Unlocked
  /\ skip => sent = response_size[c]
  /\ global_stats_requests' = global_stats_requests + 1
  /\ stats_actions' =
       [stats_actions EXCEPT
          ![action[c]].b_resp_compressed = @ + sent,
          ![action[c]].resp_b_skipped = @ + (IF skip THEN response_size[c] ELSE 0)]
  /\ Goto(c, "wait")
  /\ UNCHANGED <<action, response_size, status_connections, closer, page>>

StartCloser(c, k) == closer' = [closer EXCEPT ![c][k] = "sleep"]

(* A read error, a bad header or message: Close with the error, break ...   *)
CloseError(c) ==
  /\ pc[c] \in {"wait", "read"}
  /\ Unlocked
  /\ StartCloser(c, "error")
  /\ Goto(c, "closing")
  /\ UNCHANGED <<action, response_size, status_connections, stats_actions,
                 global_stats_requests, page>>

(* Mutant: Close is called after an error only. *)
CloseOkAfterError(c) ==
  /\ pc[c] \in {"wait", "read", "closing"}
  /\ IF pc[c] = "closing" THEN StartCloser(c, "ok") ELSE UNCHANGED closer
  /\ Goto(c, "closed")
  /\ UNCHANGED <<action, response_size, status_connections, stats_actions,
                 global_stats_requests, page>>

(* ... and Close once more, as after the end of the stream. *)
CloseOk(c) ==
  /\ pc[c] \in {"wait", "read", "closing"}
  /\ StartCloser(c, "ok")
  /\ Goto(c, "closed")
  /\ UNCHANGED <<action, response_size, status_connections, stats_actions,
                 global_stats_requests, page>>

-----------------------------------------------------------------------------
(* The goroutines of Close. *)

Due(c, k) == closer[c][k] \in {"mark", "delete"}

(* Five seconds.  What does not sleep takes less: nobody is between the two *)
(* calls of Close, and every goroutine that woke up has done its work.      *)
Sleep5 ==
  /\ \A c \in Conns : pc[c] # "closing" /\ \A k \in Closers : ~Due(c, k)
  /\ closer' = [c \in Conns |-> [k \in Closers |->
                  CASE closer[c][k] = "sleep"  -> "mark"
                    [] closer[c][k] = "sleep2" -> "delete"
                    [] OTHER -> closer[c][k]]]
  /\ UNCHANGED <<conn_vars, status_connections, stats_actions,
                 global_stats_requests, page>>

(* Mutant: no second sleep. *)
MarkNoSleep(c, k) ==
  /\ closer[c][k] = "mark"
  /\ Unlocked
  /\ c \in status_connections
  /\ closer' = [closer EXCEPT ![c][k] = "delete"]
  /\ UNCHANGED <<conn_vars, status_connections, stats_actions,
                 global_stats_requests, page>>

(* The entry gets the state X and the comment; it must be there.            *)
Mark(c, k) ==
  /\ closer[c][k] = "mark"
  /\ Unlocked
  /\ c \in status_connections
  /\ closer' = [closer EXCEPT ![c][k] = "sleep2"]
  /\ UNCHANGED <<conn_vars, status_connections, stats_actions,
                 global_stats_requests, page>>

Delete(c, k) ==
  /\ closer[c][k] = "delete"
  /\ Unlocked
  /\ status_connections' = status_connections \ {c}
  /\ closer' = [closer EXCEPT ![c][k] = "done"]
  /\ UNCHANGED <<conn_vars, stats_actions, global_stats_requests, page>>

-----------------------------------------------------------------------------
(* The status page, from the rows of the connections on. *)

(* The slice for the rows is made as long as the register is, before the    *)
(* lock is taken.                                                           *)
PageMake ==
  /\ page.pc = "idle"
  /\ page' = [pc |-> "rows", len |-> Cardinality(status_connections)]
  /\ UNCHANGED <<conn_vars, status_connections, stats_actions,
                 global_stats_requests, closer>>

(* Under the lock, a row per connection: one too many is out of range.      *)
PageRows ==
  /\ page.pc = "rows"
  /\ page' = [page EXCEPT !.pc =
                IF Cardinality(status_connections) <= page.len THEN "idle" ELSE "panic"]
  /\ UNCHANGED <<conn_vars, status_connections, stats_actions,
                 global_stats_requests, closer>>

-----------------------------------------------------------------------------
CloserStep(c, k) == Mark(c, k) \/ Delete(c, k)

Next ==
  \/ \E c \in Conns :
       \/ MakeConnection(c)
       \/ StateReading(c)
       \/ \E a \in Actions : StateServing(c, a)
       \/ \E size \in 0 .. MaxSize : StateWriting(c, size)
       \/ \E sent \in 0 .. MaxSize, skip \in BOOLEAN : StateKeepalive(c, sent, skip)
       \/ CloseError(c)
       \/ CloseOk(c)
       \/ \E k \in Closers : CloserStep(c, k)
  \/ Sleep5
  \/ PageMake
  \/ PageRows

Spec == Init /\ [][Next]_vars

(* Time passes, a goroutine of Close runs, and serveSocket goes from one    *)
(* Close to the other.                                                      *)
Fairness ==
  /\ WF_vars(Sleep5)
  /\ \A c \in Conns : WF_vars(pc[c] = "closing" /\ CloseOk(c))
  /\ \A c \in Conns, k \in Closers : WF_vars(CloserStep(c, k))
FairSpec == Spec /\ Fairness

-----------------------------------------------------------------------------
Open == {"wait", "read", "serve", "write", "closing"}

TypeOK ==
  /\ pc \in [Conns -> Open \cup {"none", "closed"}]
  /\ action \in [Conns -> Actions]
  /\ response_size \in [Conns -> 0 .. MaxSize]
  /\ status_connections \subseteq Conns
  /\ stats_actions \in [Actions -> [requests : Nat, b_resp_size : Nat,
                                   b_resp_compressed : Nat, resp_b_skipped : Nat]]
  /\ global_stats_requests \in Nat
  /\ closer \in [Conns -> [Closers -> {"none", "sleep", "mark", "sleep2", "delete", "done"}]]
  /\ page \in [pc : {"idle", "rows", "panic"}, len : Nat]

(* The page shows the requests of all actions and, from another counter,    *)
(* their total: they differ by the responses that are being written.        *)
RequestsAgree ==
  Cardinality(Counted) = global_stats_requests + Cardinality({c \in Conns : pc[c] = "write"})

(* getAdjStats takes the skipped bytes from unsigned totals, while a        *)
(* response is counted in two steps that other requests come between: the   *)
(* differences never wrap around.                                           *)
AdjustedNonNegative ==
  \A a \in Actions :
    /\ stats_actions[a].resp_b_skipped <= stats_actions[a].b_resp_size
    /\ stats_actions[a].resp_b_skipped <= stats_actions[a].b_resp_compressed

(* A goroutine of Close dereferences the entry without looking whether the  *)
(* other one of the same connection has deleted it.                         *)
MarkFindsEntry ==
  \A c \in Conns : (\E k \in Closers : closer[c][k] = "mark") => c \in status_connections

(* Every connection being served is in the register ...                     *)
OpenShown == \A c \in Conns : pc[c] \in Open => c \in status_connections

(* What the page relates of the counters, in any state between the critical *)
(* sections of all connections.                                             *)
NumbersAgree == RequestsAgree /\ AdjustedNonNegative

(* A connection has its entry as long as it, or a goroutine of Close, needs *)
(* it.                                                                      *)
RegisterExact == MarkFindsEntry /\ OpenShown

(* ... and one that is closed leaves it, unless the page died with the lock.*)
ClosedGo ==
  \A c \in Conns : pc[c] = "closed" ~> c \notin status_connections \/ ~Unlocked

(* README.md: "you should be able to see server's status page".  Making the *)
(* page never runs out of its slice.                                        *)
PageServed == page.pc # "panic"
=============================================================================
