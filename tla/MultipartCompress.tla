-------------------------- MODULE MultipartCompress --------------------------
(***************************************************************************)
(* The multipart compressor (compress/engine.go with the worker loops of   *)
(* flate.go and snappy.go).  A call of Compress cuts its input into blocks *)
(* and sends them, as pieces, over one channel that all calls share to a   *)
(* pool of worker goroutines; the workers write each compressed piece into *)
(* the caller's output buffer and report over a channel of the call's own. *)
(* Input shorter than a block takes the fast path: one piece, a pool of    *)
(* workers and a channel apart.                                            *)
(*                                                                         *)
(* The contents of the pieces are left out: a piece compresses or it does  *)
(* not (ratio too low, or buffer too small).                               *)
(***************************************************************************)
EXTENDS Integers, Sequences, FiniteSets

CONSTANTS Callers,       \* connections that call Compress at the same time
          Workers,       \* goroutines of the normal pool (NumCPU)
          FastWorkers,   \* goroutines of the fast pool (NumCPU / 2, at least 6)
          QueueCap,      \* capacity of compressor (500)
          FastCap,       \* capacity of compressor_fast (50)
          OutCap,        \* capacity of a call's ch_out (8)
          Window,        \* pieces in progress at which a call starts receiving (12)
          MaxPieces,     \* bound: pieces of one call
          NoJob

ASSUME EngineAssumption ==
  /\ QueueCap \in Nat \ {0} /\ FastCap \in Nat \ {0} /\ OutCap \in Nat \ {0}
  /\ Window \in Nat \ {0} /\ MaxPieces \in Nat \ {0}
  /\ Workers \cap FastWorkers = {}
  /\ NoJob \notin [caller : Callers, piece : 0 .. MaxPieces - 1,
                   state : {"compress", "fits", "fails"}]

Pools  == {"normal", "fast"}
Pool(w) == IF w \in Workers THEN "normal" ELSE "fast"
Cap(p)  == IF p = "normal" THEN QueueCap ELSE FastCap
Pieces == 0 .. MaxPieces - 1

VARIABLES
  queue,        \* per pool, the channel of pieces: sequence of [caller, piece]
  job,          \* per worker, the piece it works on, with its outcome when known
  ch_out,       \* per caller, the channel of outcomes: sequence of [piece, ok]
  pc, tasks_no, piece_no, in_progress, is_broken,
  chunks,       \* per caller, the pieces whose size is recorded
  result        \* per caller, what its last call returned: blocks or nil

call_vars == <<tasks_no, piece_no, in_progress, is_broken, chunks>>
vars == <<queue, job, ch_out, pc, call_vars, result>>

Init ==
  /\ queue = [p \in Pools |-> <<>>]
  /\ job = [w \in Workers \cup FastWorkers |-> NoJob]
  /\ ch_out = [c \in Callers |-> <<>>]
  /\ pc = [c \in Callers |-> "idle"]
  /\ tasks_no = [c \in Callers |-> 0]
  /\ piece_no = [c \in Callers |-> 0]
  /\ in_progress = [c \in Callers |-> 0]
  /\ is_broken = [c \in Callers |-> FALSE]
  /\ chunks = [c \in Callers |-> {}]
  /\ result = [c \in Callers |-> "none"]

-----------------------------------------------------------------------------
(* Channels: a send waits for room, a receive for an element. *)

Send(p, c, n) ==
  /\ Len(queue[p]) < Cap(p)
  /\ queue' = [queue EXCEPT ![p] = Append(@, [caller |-> c, piece |-> n])]

(* Capacity of the channel the outcomes of a caller's pieces come back on.  *)
ReplyCap(c) == IF pc[c] = "fastWait" THEN 1 ELSE OutCap

Goto(c, where) == pc' = [pc EXCEPT ![c] = where]

Return(c, what) ==
  /\ Goto(c, "idle")
  /\ result' = [result EXCEPT ![c] = what]

-----------------------------------------------------------------------------
(* The caller: Compress and _fastpath. *)

Compress(c, n) ==
  /\ pc[c] = "idle"
  /\ tasks_no' = [tasks_no EXCEPT ![c] = n]
  /\ piece_no' = [piece_no EXCEPT ![c] = 0]
  /\ in_progress' = [in_progress EXCEPT ![c] = 0]
  /\ is_broken' = [is_broken EXCEPT ![c] = FALSE]
  /\ chunks' = [chunks EXCEPT ![c] = {}]
  /\ result' = [result EXCEPT ![c] = "none"]
  /\ Goto(c, "send")
  /\ UNCHANGED <<queue, job, ch_out>>

CompressShort(c) ==
  /\ pc[c] = "idle"
  /\ result' = [result EXCEPT ![c] = "none"]
  /\ Goto(c, "fastSend")
  /\ UNCHANGED <<queue, job, ch_out, call_vars>>

(* Mutant: the window is checked one piece too late. *)
SendPieceLate(c) ==
  /\ pc[c] = "send"
  /\ Send("normal", c, piece_no[c])
  /\ piece_no' = [piece_no EXCEPT ![c] = @ + 1]
  /\ in_progress' = [in_progress EXCEPT ![c] = @ + 1]
  /\ Goto(c, IF in_progress'[c] > Window THEN "receive"
             ELSE IF piece_no'[c] = tasks_no[c] THEN "drain" ELSE "send")
  /\ UNCHANGED <<job, ch_out, tasks_no, is_broken, chunks, result>>

(* Mutant: the last, shorter block is left out. *)
SendPieceWhole(c) ==
  /\ pc[c] = "send"
  /\ Send("normal", c, piece_no[c])
  /\ piece_no' = [piece_no EXCEPT ![c] = @ + 1]
  /\ in_progress' = [in_progress EXCEPT ![c] = @ + 1]
  /\ Goto(c, IF in_progress'[c] >= Window THEN "receive"
             ELSE IF piece_no'[c] + 1 >= tasks_no[c] THEN "drain" ELSE "send")
  /\ UNCHANGED <<job, ch_out, tasks_no, is_broken, chunks, result>>

(* One round of the loop over the blocks, up to the receive if it is due.   *)
SendPiece(c) ==
  /\ pc[c] = "send"
  /\ Send("normal", c, piece_no[c])
  /\ piece_no' = [piece_no EXCEPT ![c] = @ + 1]
  /\ in_progress' = [in_progress EXCEPT ![c] = @ + 1]
  /\ Goto(c, IF in_progress'[c] >= Window THEN "receive"
             ELSE IF piece_no'[c] = tasks_no[c] THEN "drain" ELSE "send")
  /\ UNCHANGED <<job, ch_out, tasks_no, is_broken, chunks, result>>

(* Mutant: a failed piece is not counted as received. *)
GetNextPieceUncounted(c) ==
  /\ ch_out[c] # <<>>
  /\ ch_out' = [ch_out EXCEPT ![c] = Tail(@)]
  /\ is_broken' = [is_broken EXCEPT ![c] = @ \/ ~Head(ch_out[c]).ok]
  /\ in_progress' = IF is_broken'[c] THEN in_progress
                    ELSE [in_progress EXCEPT ![c] = @ - 1]
  /\ chunks' = IF is_broken'[c] THEN chunks
               ELSE [chunks EXCEPT ![c] = @ \cup {Head(ch_out[c]).piece}]

(* get_next_piece: a failed piece, and every piece after it, is not recorded. *)
GetNextPiece(c) ==
  /\ ch_out[c] # <<>>
  /\ ch_out' = [ch_out EXCEPT ![c] = Tail(@)]
  /\ in_progress' = [in_progress EXCEPT ![c] = @ - 1]
  /\ is_broken' = [is_broken EXCEPT ![c] = @ \/ ~Head(ch_out[c]).ok]
  /\ chunks' = IF is_broken'[c] THEN chunks
               ELSE [chunks EXCEPT ![c] = @ \cup {Head(ch_out[c]).piece}]

(* Mutant: a failed piece ends the call without waiting for the others. *)
ReceiveInLoopGivesUp(c) ==
  /\ pc[c] = "receive"
  /\ GetNextPiece(c)
  /\ IF is_broken'[c] THEN Return(c, "nil")
     ELSE /\ Goto(c, IF piece_no[c] = tasks_no[c] THEN "drain" ELSE "send")
          /\ UNCHANGED result
  /\ UNCHANGED <<queue, job, tasks_no, piece_no>>

(* The receive of a full window; a failure ends the loop. *)
ReceiveInLoop(c) ==
  /\ pc[c] = "receive"
  /\ GetNextPiece(c)
  /\ Goto(c, IF is_broken'[c] \/ piece_no[c] = tasks_no[c] THEN "drain" ELSE "send")
  /\ UNCHANGED <<queue, job, tasks_no, piece_no, result>>

(* for in_progress > 0: every piece sent is waited for, failure or not. *)
Drain(c) ==
  /\ pc[c] = "drain"
  /\ in_progress[c] > 0
  /\ GetNextPiece(c)
  /\ UNCHANGED <<queue, job, pc, tasks_no, piece_no, result>>

(* nil when a piece failed or the total is above 80 % of the input; else    *)
(* the blocks are merged (PieceMerge) and returned.                         *)
CompressReturn(c) ==
  /\ pc[c] = "drain"
  /\ in_progress[c] = 0
  /\ \/ Return(c, "nil")
     \/ ~is_broken[c] /\ Return(c, "blocks")
  /\ UNCHANGED <<queue, job, ch_out, call_vars>>

FastSend(c) ==
  /\ pc[c] = "fastSend"
  /\ Send("fast", c, 0)
  /\ Goto(c, "fastWait")
  /\ UNCHANGED <<job, ch_out, call_vars, result>>

FastReturn(c) ==
  /\ pc[c] = "fastWait"
  /\ ch_out[c] # <<>>
  /\ ch_out' = [ch_out EXCEPT ![c] = Tail(@)]
  /\ \/ Return(c, "nil")
     \/ Head(ch_out[c]).ok /\ Return(c, "blocks")
  /\ UNCHANGED <<queue, job, call_vars>>

-----------------------------------------------------------------------------
(* A worker: compression_thread. *)

Take(w) ==
  LET p == Pool(w) IN
  /\ job[w] = NoJob
  /\ queue[p] # <<>>
  /\ job' = [job EXCEPT ![w] = [caller |-> Head(queue[p]).caller,
                                piece |-> Head(queue[p]).piece, state |-> "compress"]]
  /\ queue' = [queue EXCEPT ![p] = Tail(@)]
  /\ UNCHANGED <<ch_out, pc, call_vars, result>>

(* The piece is compressed and, if it came out small enough, copied into    *)
(* the caller's buffer.                                                     *)
Write(w, outcome) ==
  /\ job[w] # NoJob
  /\ job[w].state = "compress"
  /\ job' = [job EXCEPT ![w].state = outcome]
  /\ UNCHANGED <<queue, ch_out, pc, call_vars, result>>

Report(w) ==
  LET c == job[w].caller IN
  /\ job[w] # NoJob
  /\ job[w].state # "compress"
  /\ Len(ch_out[c]) < ReplyCap(c)
  /\ ch_out' = [ch_out EXCEPT ![c] =
                  Append(@, [piece |-> job[w].piece, ok |-> job[w].state = "fits"])]
  /\ job' = [job EXCEPT ![w] = NoJob]
  /\ UNCHANGED <<queue, pc, call_vars, result>>

-----------------------------------------------------------------------------
CallerStep(c) == \/ SendPiece(c) \/ ReceiveInLoop(c) \/ Drain(c)
                 \/ CompressReturn(c) \/ FastSend(c) \/ FastReturn(c)

WorkerStep(w) == \/ Take(w)
                 \/ \E outcome \in {"fits", "fails"} : Write(w, outcome)
                 \/ Report(w)

Next == \/ \E c \in Callers :
             \/ \E n \in 1 .. MaxPieces : Compress(c, n)
             \/ CompressShort(c)
             \/ CallerStep(c)
        \/ \E w \in Workers \cup FastWorkers : WorkerStep(w)

Spec == Init /\ [][Next]_vars

(* A goroutine that can go on does.  The callers wait for room in channels  *)
(* they share, and Go serves those that wait on a channel in the order they *)
(* came: a caller is not passed over for ever, so its fairness is strong.   *)
(* Nothing makes a connection call Compress.                                *)
Fairness == /\ \A c \in Callers : SF_vars(CallerStep(c))
            /\ \A w \in Workers \cup FastWorkers : WF_vars(WorkerStep(w))
FairSpec == Spec /\ Fairness

-----------------------------------------------------------------------------
QueuedPiece == [caller : Callers, piece : Pieces]
Jobs == [caller : Callers, piece : Pieces, state : {"compress", "fits", "fails"}]

TypeOK ==
  /\ queue \in [Pools -> Seq(QueuedPiece)]
  /\ \A p \in Pools : Len(queue[p]) <= Cap(p)
  /\ job \in [Workers \cup FastWorkers -> Jobs \cup {NoJob}]
  /\ ch_out \in [Callers -> Seq([piece : Pieces, ok : BOOLEAN])]
  /\ \A c \in Callers : Len(ch_out[c]) <= OutCap
  /\ pc \in [Callers -> {"idle", "send", "receive", "drain", "fastSend", "fastWait"}]
  /\ tasks_no \in [Callers -> 0 .. MaxPieces]
  /\ piece_no \in [Callers -> 0 .. MaxPieces]
  /\ in_progress \in [Callers -> 0 .. Window]
  /\ is_broken \in [Callers -> BOOLEAN]
  /\ chunks \in [Callers -> SUBSET Pieces]
  /\ result \in [Callers -> {"none", "nil", "blocks"}]

(* The places where pieces of a caller are: in a channel, at a worker, or   *)
(* on the way back.                                                         *)
SentBy(c, q) == {i \in DOMAIN q : q[i].caller = c}
AtWork(c)    == {w \in Workers \cup FastWorkers : job[w] # NoJob /\ job[w].caller = c}
InFlight(c)  == Cardinality(SentBy(c, queue["normal"])) + Cardinality(SentBy(c, queue["fast"]))
                  + Cardinality(AtWork(c)) + Len(ch_out[c])

(* Compress returns only when no worker holds or will get a piece of it:    *)
(* the output buffer is slab memory that may belong to another request as   *)
(* soon as the caller is done, also when it stops early at a failed piece.  *)
NoStrayPiece ==
  \A c \in Callers : pc[c] \in {"idle", "fastSend"} => InFlight(c) = 0

(* The counter by which the caller decides how many outcomes to wait for    *)
(* counts every piece it sent and did not hear of, wherever the piece is.   *)
InProgressExact ==
  \A c \in Callers : pc[c] \in {"send", "receive", "drain"} => in_progress[c] = InFlight(c)

(* No piece is lost or reported twice on the way through the shared channel:*)
(* when nothing failed, the call merges with the size of every piece.       *)
SizesComplete ==
  \A c \in Callers :
    pc[c] = "drain" /\ in_progress[c] = 0 /\ ~is_broken[c] =>
      chunks[c] = 0 .. tasks_no[c] - 1

(* Two workers never write the same block of a caller's buffer.             *)
OneWriter ==
  \A v, w \in Workers \cup FastWorkers :
    v # w /\ job[v] # NoJob /\ job[w] # NoJob =>
      job[v].caller # job[w].caller \/ job[v].piece # job[w].piece

(* The output buffer of a call is written only during the call, and no part *)
(* of it by two workers.                                                    *)
BuffersPrivate == NoStrayPiece /\ OneWriter

(* A call knows of each of its pieces, on the way and at the end.           *)
PiecesExact == InProgressExact /\ SizesComplete

(* Every call of Compress returns, whatever its pieces come to and however  *)
(* many connections compress at the same time.                              *)
CompressReturns == \A c \in Callers : pc[c] # "idle" ~> pc[c] = "idle"
=============================================================================
