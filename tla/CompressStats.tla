---------------------------- MODULE CompressStats ----------------------------
(***************************************************************************)
(* Statistics of the multipart compressor (compress/status.go) as the      *)
(* workers (flate.go, snappy.go) report them: a mark per worker that is    *)
(* running, totals, and a ring of seven slices of ten seconds of which the *)
(* page adds up the six before the current one.  A ticker opens a slice,   *)
(* perhaps some time after it began.                                       *)
(***************************************************************************)
EXTENDS Integers, FiniteSetsExt

CONSTANTS Workers,
          Slices,     \* slices of the ring (7)
          MaxSlices,  \* bound: slices that begin
          MaxPieces   \* bound: pieces compressed

StatsAssumption ==
  /\ IsFiniteSet(Workers)
  /\ Slices \in Nat /\ Slices > 2 /\ MaxSlices \in Nat /\ MaxPieces \in Nat

VARIABLES
  time,         \* the running slice of the clock
  curr_slice,   \* the slice the ring is at
  ticked,       \* the slice of the clock when it was set
  s_last_70,    \* per slice, [pieces, failed]
  s_totals,
  worker,       \* "waiting" for a piece or "compressing" one
  thread_running, \* the mark on the page
  last_failed,  \* the worker's last piece did not fit or compress
  counted       \* what was reported while the ring was at a slice of the clock

vars == <<time, curr_slice, ticked, s_last_70, s_totals, worker, thread_running, last_failed, counted>>

Zero == [pieces |-> 0, failed |-> 0]
Add(a, b) == [f \in DOMAIN Zero |-> a[f] + b[f]]
First == Slices
Clock == 0 .. First + MaxSlices

Init ==
  /\ time = First /\ curr_slice = First % Slices /\ ticked = First
  /\ s_last_70 = [s \in 0 .. Slices - 1 |-> Zero] /\ s_totals = Zero
  /\ worker = [w \in Workers |-> "waiting"]
  /\ thread_running = [w \in Workers |-> FALSE] /\ last_failed = [w \in Workers |-> FALSE]
  /\ counted = [t \in Clock |-> Zero]

(* The clock, with a ticker that is late by less than a slice. *)
Pass ==
  /\ time < First + MaxSlices /\ ticked = time
  /\ time' = time + 1
  /\ UNCHANGED <<curr_slice, ticked, s_last_70, s_totals, worker, thread_running, last_failed, counted>>

(* Mutant: the slice that is left is emptied, not the one that begins. *)
TickLeft ==
  /\ ticked # time
  /\ ticked' = time
  /\ curr_slice' = time % Slices
  /\ s_last_70' = [s_last_70 EXCEPT ![curr_slice] = Zero]
  /\ UNCHANGED <<time, s_totals, worker, thread_running, last_failed, counted>>

Tick ==
  /\ ticked # time
  /\ ticked' = time
  /\ curr_slice' = time % Slices
  /\ s_last_70' = [s_last_70 EXCEPT ![curr_slice'] = Zero]
  /\ UNCHANGED <<time, s_totals, worker, thread_running, last_failed, counted>>

(* ThreadSetRunning *)
Take(w) ==
  /\ worker[w] = "waiting"
  /\ s_totals.pieces + s_totals.failed < MaxPieces
  /\ worker' = [worker EXCEPT ![w] = "compressing"]
  /\ thread_running' = [thread_running EXCEPT ![w] = TRUE]
  /\ UNCHANGED <<time, curr_slice, ticked, s_last_70, s_totals, last_failed, counted>>

Report(w, n) ==
  /\ worker[w] = "compressing"
  /\ worker' = [worker EXCEPT ![w] = "waiting"]
  /\ s_totals' = Add(s_totals, n)
  /\ s_last_70' = [s_last_70 EXCEPT ![curr_slice] = Add(@, n)]
  /\ counted' = [counted EXCEPT ![ticked] = Add(@, n)]
  /\ last_failed' = [last_failed EXCEPT ![w] = n.failed > 0]
  /\ UNCHANGED <<time, curr_slice, ticked>>

(* doStats *)
DoStats(w) ==
  /\ Report(w, [pieces |-> 1, failed |-> 0])
  /\ thread_running' = [thread_running EXCEPT ![w] = FALSE]

(* reportBufferTooSmall, reportCompressionRatioTooLow: the mark stays.      *)
ReportFailure(w) ==
  /\ Report(w, [pieces |-> 0, failed |-> 1])
  /\ UNCHANGED thread_running

Next == Pass \/ Tick \/ \E w \in Workers : Take(w) \/ DoStats(w) \/ ReportFailure(w)

Spec == Init /\ [][Next]_vars

-----------------------------------------------------------------------------
Counts == [DOMAIN Zero -> 0 .. MaxPieces + Cardinality(Workers)]

TypeOK ==
  /\ time \in Clock /\ ticked \in {time, time - 1} /\ curr_slice \in 0 .. Slices - 1
  /\ s_last_70 \in [0 .. Slices - 1 -> Counts] /\ s_totals \in Counts
  /\ worker \in [Workers -> {"waiting", "compressing"}]
  /\ thread_running \in [Workers -> BOOLEAN] /\ last_failed \in [Workers -> BOOLEAN]

(* A worker that compresses is shown as running; one that waits is shown so *)
(* if, and only if, its last piece failed.                                  *)
RunningShown ==
  \A w \in Workers :
    thread_running[w] <=> worker[w] = "compressing" \/ last_failed[w]

(* GetStatus: "Last 60s" adds the slices before the current one.            *)
SumOf(f) == MapThenSumSet(LAMBDA i : s_last_70[(curr_slice + Slices - i) % Slices][f], 1 .. Slices - 1)
Reported(f, from, to) == MapThenSumSet(LAMBDA t : counted[t][f], {t \in Clock : from <= t /\ t <= to})

(* It is what was reported in the Slices - 1 slices before the current one, *)
(* while "Total" goes back to the start: nothing older comes round again.   *)
LastSlicesExact ==
  \A f \in DOMAIN Zero :
    /\ SumOf(f) = Reported(f, ticked - Slices + 1, ticked - 1)
    /\ s_totals[f] = Reported(f, 0, ticked)

(* The statistics page: marks of the workers, last slices and totals.       *)
StatsExact == RunningShown /\ LastSlicesExact
=============================================================================
