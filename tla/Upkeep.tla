------------------------------- MODULE Upkeep -------------------------------
(***************************************************************************)
(* The parts that keep the server going, each on its own: the last seconds *)
(* of the status page, the pool of writers, the statistics of the          *)
(* compressor, loading the configuration and merging it, requests over     *)
(* HTTP.  part says which one a behaviour is about; the variables of the   *)
(* others stay as they are.                                                *)
(***************************************************************************)
EXTENDS Integers, Sequences

CONSTANTS RingSize, Seconds, MaxEvents,                      \* UptimeHistory
          Callers, max_compressors, MaxCompressions,         \* SimplePool
          Workers, Slices, MaxSlices, MaxPieces,             \* CompressStats
          Texts, SizeOf, Half, Gone, MaxWrites, MaxTime,     \* ConfigReload
          Interfaces, Values, Param, Files,                  \* ConfigMerge
          Handlers, GetActions, Actions, OwnActions,
          MaxRequests                                        \* HttpService

VARIABLES part,
          second, unixTS, uptime_history, events, page, lagged,
          f_writers, created, reused, predictions, step, writer, counter, finished, peak,
          time, curr_slice, ticked, s_last_70, s_totals, worker, thread_running,
          last_failed, counted,
          now, file, rest, writes, loading, text, loaded, alive,
          machine, written, config, todo, local_interfaces, done,
          action_handlers, actionToHandlerNum, serving, httpRequestId, status, at,
          action, answered_by, holding, panicked

History  == INSTANCE UptimeHistory WITH now <- second, counted <- events
Pool     == INSTANCE SimplePool
Stats    == INSTANCE CompressStats
Reloader == INSTANCE ConfigReload
Merger   == INSTANCE ConfigMerge
Http     == INSTANCE HttpService

(* What the parts assume of these constants. *)
ASSUME PartsAssumption ==
  /\ History!HistoryAssumption /\ Pool!SimpleAssumption /\ Stats!StatsAssumption
  /\ Reloader!ConfigAssumption /\ Merger!MergeKeysAssumption /\ Http!HttpAssumption

history_vars == <<second, unixTS, uptime_history, events, page, lagged>>
pool_vars    == <<f_writers, created, reused, predictions, step, writer, counter, finished, peak>>
stats_vars   == <<time, curr_slice, ticked, s_last_70, s_totals, worker, thread_running,
                  last_failed, counted>>
reload_vars  == <<now, file, rest, writes, loading, text, loaded, alive>>
merge_vars   == <<machine, written, config, todo, local_interfaces, done>>
http_vars    == <<action_handlers, actionToHandlerNum, serving, httpRequestId, status, at,
                  action, answered_by, holding, panicked>>
vars == <<part, history_vars, pool_vars, stats_vars, reload_vars, merge_vars, http_vars>>

NoHistory == /\ second = 0 /\ unixTS = 0 /\ uptime_history = <<>> /\ events = <<>>
             /\ page = <<>> /\ lagged = FALSE
NoPool == /\ f_writers = <<>> /\ created = 0 /\ reused = 0 /\ predictions = 0 /\ step = <<>>
          /\ writer = <<>> /\ counter = <<>> /\ finished = 0 /\ peak = 0
NoStats == /\ time = 0 /\ curr_slice = 0 /\ ticked = 0 /\ s_last_70 = <<>> /\ s_totals = <<>>
           /\ worker = <<>> /\ thread_running = <<>> /\ last_failed = <<>> /\ counted = <<>>
NoReload == /\ now = 0 /\ file = [text |-> Gone, size |-> 0, mtime |-> 0] /\ rest = Gone
            /\ writes = 0 /\ loading = "wait" /\ text = Gone /\ loaded = file /\ alive = FALSE
NoMerge == /\ machine = {} /\ written = <<>> /\ config = <<>> /\ todo = {}
           /\ local_interfaces = {} /\ done = TRUE
NoHttp == /\ action_handlers = <<>> /\ actionToHandlerNum = <<>> /\ serving = FALSE
          /\ httpRequestId = 0 /\ status = [r \in 1 .. MaxRequests |-> "-"]
          /\ at = [r \in 1 .. MaxRequests |-> "new"] /\ action = <<>> /\ answered_by = <<>>
          /\ holding = [r \in 1 .. MaxRequests |-> FALSE] /\ panicked = <<>>

Init ==
  \/ part = "history" /\ History!Init /\ NoPool /\ NoStats /\ NoReload /\ NoMerge /\ NoHttp
  \/ part = "pool"    /\ NoHistory /\ Pool!Init /\ NoStats /\ NoReload /\ NoMerge /\ NoHttp
  \/ part = "stats"   /\ NoHistory /\ NoPool /\ Stats!Init /\ NoReload /\ NoMerge /\ NoHttp
  \/ part = "reload"  /\ NoHistory /\ NoPool /\ NoStats /\ Reloader!Init /\ NoMerge /\ NoHttp
  \/ part = "merge"   /\ NoHistory /\ NoPool /\ NoStats /\ NoReload /\ Merger!Init /\ NoHttp
  \/ part = "http"    /\ NoHistory /\ NoPool /\ NoStats /\ NoReload /\ NoMerge /\ Http!Init

Next ==
  \/ /\ part = "history" /\ History!Next
     /\ UNCHANGED <<part, pool_vars, stats_vars, reload_vars, merge_vars, http_vars>>
  \/ /\ part = "pool" /\ Pool!Next
     /\ UNCHANGED <<part, history_vars, stats_vars, reload_vars, merge_vars, http_vars>>
  \/ /\ part = "stats" /\ Stats!Next
     /\ UNCHANGED <<part, history_vars, pool_vars, reload_vars, merge_vars, http_vars>>
  \/ /\ part = "reload" /\ Reloader!Next
     /\ UNCHANGED <<part, history_vars, pool_vars, stats_vars, merge_vars, http_vars>>
  \/ /\ part = "merge" /\ Merger!Next
     /\ UNCHANGED <<part, history_vars, pool_vars, stats_vars, reload_vars, http_vars>>
  \/ /\ part = "http" /\ Http!Next
     /\ UNCHANGED <<part, history_vars, pool_vars, stats_vars, reload_vars, merge_vars>>

(* The actions that have to go on are disabled in a part that is not up.    *)
Spec == Init /\ [][Next]_vars /\ Reloader!Fairness /\ Http!Fairness

-----------------------------------------------------------------------------
(* UptimeHistory: the page shows the last whole seconds exactly, and a slot *)
(* holds all of its second, unless a page was read while the copy of the    *)
(* clock was late.                                                          *)
HistoryExact == part = "history" => History!TypeOK /\ History!HistoryExact

(* SimplePool: a writer has one user and one place, as many are made as are *)
(* needed at a time, and the counters of the predictions lose only what     *)
(* overlaps.                                                                *)
WritersExact == part = "pool" => Pool!TypeOK /\ Pool!WritersExact

(* CompressStats: which workers are shown as running; the last slices and   *)
(* the totals add up.                                                       *)
StatsExact == part = "stats" => Stats!TypeOK /\ Stats!StatsExact

(* ConfigReload: the two ways to a configuration that stays stale.          *)
StaleOnlyByRace == part = "reload" => Reloader!TypeOK /\ Reloader!StaleOnlyByRace

(* ConfigReload: the last change of the file is picked up.                  *)
PickedUp == Reloader!PickedUp

(* ConfigMerge: values and local addresses, whatever the order of the keys. *)
ConfigMerged == part = "merge" => Merger!TypeOK /\ Merger!ConfigMerged

(* HttpService: the last handler registered for an action gets it; which    *)
(* requests are on the list of the status page.                             *)
RequestsListed == part = "http" => Http!TypeOK /\ Http!RequestsListed

(* HttpService: an answered request goes from the list.                     *)
EntryGoes == Http!EntryGoes
=============================================================================
