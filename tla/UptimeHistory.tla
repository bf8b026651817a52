---------------------------- MODULE UptimeHistory ----------------------------
(***************************************************************************)
(* The counters behind the "last 5 seconds" of the status page             *)
(* (stats/stats_history.go): a ring of six slots, one per second, that is  *)
(* reused without a sweep.  A slot of another second is overwritten by the *)
(* next count that falls on it, and zeroed by a reader that finds it old.  *)
(* Finished requests are counted under the real clock; errors are counted, *)
(* and the page is read, under hscommon.TSNow, a copy of the clock that a  *)
(* goroutine renews every 100 ms.                                          *)
(***************************************************************************)
EXTENDS Integers, FiniteSetsExt

CONSTANTS RingSize,    \* slots of uptime_history (6)
          Seconds,     \* bound: seconds that pass
          MaxEvents    \* bound: requests and errors counted

HistoryAssumption ==
  /\ RingSize \in Nat /\ RingSize > 1
  /\ Seconds \in Nat /\ MaxEvents \in Nat

First == RingSize                  \* a first second with a whole ring before it
Last  == First + Seconds
Clock == First - RingSize .. Last

VARIABLES
  now,             \* the second on the real clock
  unixTS,          \* the copy read by TSNow
  uptime_history,  \* per slot, [timestamp, requests, skipped, errors]
  counted,         \* what really happened, per second
  page,            \* the last answer of uh_get, with what it should have been
  lagged           \* uh_get was called while the copy was of the second before

vars == <<now, unixTS, uptime_history, counted, page, lagged>>

Nothing == [requests |-> 0, skipped |-> 0, errors |-> 0]
Plus(a, b) == [f \in DOMAIN Nothing |-> a[f] + b[f]]
At(ts, n) == [timestamp |-> ts, n |-> n]

Init ==
  /\ now = First
  /\ unixTS = First
  /\ uptime_history = [s \in 0 .. RingSize - 1 |-> At(0, Nothing)]
  /\ counted = [t \in Clock |-> Nothing]
  /\ page = [read |-> Nothing, real |-> Nothing]
  /\ lagged = FALSE

Slot(ts) == ts % RingSize

(* Mutant: a slot that held another second is added to, not overwritten. *)
AddKept(ts, n) ==
  LET old == uptime_history[Slot(ts)] IN
  uptime_history' = [uptime_history EXCEPT ![Slot(ts)] = At(ts, Plus(old.n, n))]

(* uh_add_unsafe, under stats_mutex. *)
Add(ts, n) ==
  LET old == uptime_history[Slot(ts)] IN
  uptime_history' = [uptime_history EXCEPT ![Slot(ts)] =
                       IF old.timestamp = ts THEN At(ts, Plus(old.n, n)) ELSE At(ts, n)]

Events == MapThenSumSet(LAMBDA t : counted[t].requests + counted[t].errors, Clock)

Count(ts, n) ==
  /\ Events < MaxEvents
  /\ Add(ts, n)
  /\ counted' = [counted EXCEPT ![ts] = Plus(@, n)]
  /\ UNCHANGED <<now, unixTS, page, lagged>>

(* StateKeepalive: a request is over, its response sent or skipped.         *)
Keepalive(skip) ==
  Count(now, [requests |-> 1, skipped |-> IF skip THEN 1 ELSE 0, errors |-> 0])

(* Close of a connection with an error.                                     *)
CloseError == Count(unixTS, [requests |-> 0, skipped |-> 0, errors |-> 1])

(* uh_get: the seconds before the current one, whose slot is left out; a    *)
(* slot that is not of the second looked for is taken over by it.           *)
Get ==
  LET past  == (unixTS - RingSize + 1) .. (unixTS - 1)
      match == {t \in past : uptime_history[Slot(t)].timestamp = t}
      total(f) == MapThenSumSet(LAMBDA t : uptime_history[Slot(t)].n[f], match)
      real(f)  == MapThenSumSet(LAMBDA t : counted[t][f], past) IN
  /\ page' = [read |-> [f \in DOMAIN Nothing |-> total(f)],
              real |-> [f \in DOMAIN Nothing |-> real(f)]]
  /\ uptime_history' =
       [s \in DOMAIN uptime_history |->
          IF \E t \in past \ match : Slot(t) = s
          THEN At(CHOOSE t \in past : Slot(t) = s, Nothing)
          ELSE uptime_history[s]]
  /\ lagged' = (lagged \/ unixTS # now)
  /\ UNCHANGED <<now, unixTS, counted>>

(* The next second, not before the copy of this one is made: the goroutine  *)
(* that makes it is never late by a second.                                 *)
Second ==
  /\ now < Last
  /\ unixTS = now
  /\ now' = now + 1
  /\ UNCHANGED <<unixTS, uptime_history, counted, page, lagged>>

(* The goroutine of hscommon. *)
RefreshTS ==
  /\ unixTS # now
  /\ unixTS' = now
  /\ UNCHANGED <<now, uptime_history, counted, page, lagged>>

Next ==
  \/ \E skip \in BOOLEAN : Keepalive(skip)
  \/ CloseError
  \/ Get
  \/ Second
  \/ RefreshTS

Spec == Init /\ [][Next]_vars

-----------------------------------------------------------------------------
Counts == [DOMAIN Nothing -> 0 .. MaxEvents]

TypeOK ==
  /\ now \in Clock /\ unixTS \in Clock
  /\ uptime_history \in [0 .. RingSize - 1 -> [timestamp : 0 .. Last, n : Counts]]
  /\ counted \in [Clock -> Counts]
  /\ page.read \in Counts /\ page.real \in Counts /\ lagged \in BOOLEAN

(* status.go: "last 5 seconds stats".  The totals are those of the last     *)
(* RingSize - 1 whole seconds, unless the page was once read while the copy *)
(* of the clock was late: the slot of the oldest second is then that of the *)
(* second that has begun, and is zeroed.                                    *)
LastSecondsExact == ~lagged => page.read = page.real

(* What the ring holds of a second is complete, errors that were counted    *)
(* late included, unless such a reader came by; it is never too much.       *)
SlotComplete ==
  \A s \in DOMAIN uptime_history :
    LET slot == uptime_history[s] IN
    slot.timestamp > 0 =>
      /\ ~lagged => slot.n = counted[slot.timestamp]
      /\ \A f \in DOMAIN Nothing : slot.n[f] <= counted[slot.timestamp][f]

(* Both, which belong together: a slot that lost something is shown wrong   *)
(* only in a later second.                                                  *)
HistoryExact == LastSecondsExact /\ SlotComplete
=============================================================================
