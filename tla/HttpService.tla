----------------------------- MODULE HttpService -----------------------------
(***************************************************************************)
(* Requests over HTTP (hs_http.go), the choice of their handler            *)
(* (hs_engine.go) and the memory a request holds (hs_params.go).  A        *)
(* request is entered in httpRequestStatus, offered to the plugins, handed *)
(* to the handler of its action, answered, and taken off the list by a     *)
(* goroutine five seconds later.  A plugin or a handler that panics is     *)
(* stopped by net/http, which recovers and serves on.                      *)
(***************************************************************************)
EXTENDS Integers, Sequences, SequencesExt

CONSTANTS Handlers,    \* that can be registered
          GetActions,  \* per handler, the actions it is for
          Actions,     \* that are asked for; some of no handler
          OwnActions,  \* those the server answers itself: none, server-status
          MaxRequests  \* bound: requests

HttpAssumption ==
  /\ GetActions \in [Handlers -> SUBSET Actions]
  /\ MaxRequests \in Nat

VARIABLES
  action_handlers,    \* the registered ones, in order
  actionToHandlerNum, \* per action, an index of action_handlers, 0 for none
  serving,            \* StartServer was called
  httpRequestId,      \* the last id
  status,             \* httpRequestStatus: "R", "W", "F", or "-" for no entry
  at,                 \* per request, where the code is that serves it
  action,             \* what it asks for
  answered_by,        \* the handler that it was given to
  holding,            \* it has slabs
  panicked

vars == <<action_handlers, actionToHandlerNum, serving, httpRequestId, status, at,
          action, answered_by, holding, panicked>>
setup == <<action_handlers, actionToHandlerNum, serving>>

Requests == 1 .. MaxRequests
NoHandler == "none"

Init ==
  /\ action_handlers = <<>> /\ serving = FALSE
  /\ actionToHandlerNum = [a \in Actions |-> 0]
  /\ httpRequestId = 0
  /\ status = [r \in Requests |-> "-"] /\ at = [r \in Requests |-> "new"]
  /\ action \in [Requests -> Actions]
  /\ answered_by = [r \in Requests |-> NoHandler]
  /\ holding = [r \in Requests |-> FALSE] /\ panicked = [r \in Requests |-> FALSE]

(* RegisterHandler goes over all handlers again.                            *)
Register(handlers) ==
  /\ ~serving
  /\ action_handlers' = action_handlers \o handlers
  /\ actionToHandlerNum' =
       [a \in Actions |-> SelectLastInSeq(action_handlers', LAMBDA h : a \in GetActions[h])]
  /\ UNCHANGED <<serving, httpRequestId, status, at, action, answered_by, holding, panicked>>

StartServer ==
  /\ ~serving /\ serving' = TRUE
  /\ UNCHANGED <<action_handlers, actionToHandlerNum, httpRequestId, status, at, action,
                 answered_by, holding, panicked>>

Goto(r, from, to) == at[r] = from /\ at' = [at EXCEPT ![r] = to]
Show(r, s) == status' = [status EXCEPT ![r] = s]

Begin ==
  /\ serving /\ httpRequestId < MaxRequests
  /\ httpRequestId' = httpRequestId + 1
  /\ Goto(httpRequestId', "new", "plugins")
  /\ Show(httpRequestId', "R")
  /\ UNCHANGED <<setup, action, answered_by, holding, panicked>>

(* The plugins: one of them answers, or none does.                          *)
Plugins(r, handled) ==
  /\ Goto(r, "plugins", IF handled THEN "plugin answered" ELSE "handler")
  /\ UNCHANGED <<setup, httpRequestId, status, action, answered_by, holding, panicked>>

(* The goroutine of a request that a plugin answered.                       *)
FinishPlugin(r) ==
  /\ Goto(r, "plugin answered", "sleep")
  /\ Show(r, "F")
  /\ UNCHANGED <<setup, httpRequestId, action, answered_by, holding, panicked>>

(* handleRequest.  What the code behind an action has allocated through its *)
(* HSParams stays with them; the answers of the server itself take nothing. *)
HandleRequest(r, allocate) ==
  LET i == IF action[r] \in OwnActions THEN 0 ELSE actionToHandlerNum[action[r]] IN
  /\ Goto(r, "handler", IF i = 0 THEN "respond" ELSE "in handler")
  /\ answered_by' = [answered_by EXCEPT ![r] = IF i = 0 THEN NoHandler ELSE action_handlers[i]]
  /\ holding' = [holding EXCEPT ![r] = allocate /\ i # 0]
  /\ UNCHANGED <<setup, httpRequestId, status, action, panicked>>

HandlerReturns(r) ==
  /\ Goto(r, "in handler", "respond")
  /\ UNCHANGED <<setup, httpRequestId, status, action, answered_by, holding, panicked>>

(* The rest of the function does not run, and nothing is deferred.  The     *)
(* server's own page may panic as well (ConnStats).                         *)
Panic(r) ==
  /\ \/ Goto(r, "plugins", "over")
     \/ Goto(r, "handler", "over") /\ action[r] \in OwnActions
     \/ Goto(r, "in handler", "over")
  /\ panicked' = [panicked EXCEPT ![r] = TRUE]
  /\ UNCHANGED <<setup, httpRequestId, status, action, answered_by, holding>>

BeginWrite(r) ==
  /\ Goto(r, "respond", "write")
  /\ Show(r, "W")
  /\ UNCHANGED <<setup, httpRequestId, action, answered_by, holding, panicked>>

EndWrite(r) ==
  /\ Goto(r, "write", "cleanup")
  /\ Show(r, "F")
  /\ UNCHANGED <<setup, httpRequestId, action, answered_by, holding, panicked>>

(* Mutant: the goroutine is started before the memory is given back. *)
CleanupLate(r) ==
  /\ Goto(r, "cleanup", "sleep")
  /\ UNCHANGED <<setup, httpRequestId, status, action, answered_by, holding, panicked>>

(* HSParams.Cleanup, and the goroutine that will delete the entry.          *)
Cleanup(r) ==
  /\ Goto(r, "cleanup", "sleep")
  /\ holding' = [holding EXCEPT ![r] = FALSE]
  /\ UNCHANGED <<setup, httpRequestId, status, action, answered_by, panicked>>

(* Mutant: the entry that is deleted is the newest. *)
DeleteNewest(r) ==
  /\ Goto(r, "sleep", "over")
  /\ Show(httpRequestId, "-")
  /\ UNCHANGED <<setup, httpRequestId, action, answered_by, holding, panicked>>

Delete(r) ==
  /\ Goto(r, "sleep", "over")
  /\ Show(r, "-")
  /\ UNCHANGED <<setup, httpRequestId, action, answered_by, holding, panicked>>

(* Net/http and the goroutines go on; plugins and handlers may take for ever.*)
Proceed(r) == FinishPlugin(r) \/ BeginWrite(r) \/ EndWrite(r) \/ Cleanup(r) \/ Delete(r)

Next ==
  \/ \E h \in Handlers : Register(<<h>>) /\ ~Contains(action_handlers, h)
  \/ \E h, g \in Handlers : h # g /\ action_handlers = <<>> /\ Register(<<h, g>>)
  \/ StartServer
  \/ Begin
  \/ \E r \in Requests :
       \/ \E handled \in BOOLEAN : Plugins(r, handled)
       \/ \E allocate \in BOOLEAN : HandleRequest(r, allocate)
       \/ HandlerReturns(r)
       \/ Panic(r)
       \/ Proceed(r)

Fairness == \A r \in Requests : WF_vars(Proceed(r))
Spec == Init /\ [][Next]_vars /\ Fairness

-----------------------------------------------------------------------------
TypeOK ==
  /\ action_handlers \in Seq(Handlers) /\ serving \in BOOLEAN
  /\ actionToHandlerNum \in [Actions -> 0 .. Len(action_handlers)]
  /\ httpRequestId \in 0 .. MaxRequests
  /\ status \in [Requests -> {"R", "W", "F", "-"}]
  /\ at \in [Requests -> {"new", "plugins", "plugin answered", "handler", "in handler",
                          "respond", "write", "cleanup", "sleep", "over"}]
  /\ action \in [Requests -> Actions] /\ answered_by \in [Requests -> Handlers \cup {NoHandler}]
  /\ holding \in [Requests -> BOOLEAN] /\ panicked \in [Requests -> BOOLEAN]

(* A request is given to a handler for its action if one is registered, and *)
(* of several to the one registered last, in whichever calls; the actions   *)
(* of the server itself are never given away.                               *)
Latest(a) == LET fit == {i \in DOMAIN action_handlers : a \in GetActions[action_handlers[i]]}
             IN IF fit = {} \/ a \in OwnActions THEN NoHandler
                ELSE action_handlers[CHOOSE i \in fit : \A j \in fit : j <= i]
DispatchedToLatest ==
  \A r \in Requests : at[r] \in {"in handler", "respond", "write", "cleanup"}
                        => answered_by[r] = Latest(action[r])

(* The list of the status page (GetStatusHTTP) leaves out no request that   *)
(* runs, nor one that holds memory; one that is over stays on it only if it *)
(* panicked, and then for ever, as running, with all it held.               *)
ListExact ==
  \A r \in Requests :
    /\ holding[r] \/ at[r] \notin {"new", "over"} => status[r] # "-"
    /\ at[r] = "over" => /\ status[r] # "-" <=> panicked[r]
                         /\ holding[r] => panicked[r] /\ status[r] = "R"

(* An entry that says "F" or "W" goes; only the code of plugins and         *)
(* handlers or the server's own page, by never returning or by a panic, can *)
(* leave one behind.                                                        *)
EntryGoes == \A r \in Requests : status[r] \in {"W", "F"} ~> status[r] = "-"


(* Each request goes to the handler the registrations choose, and the page  *)
(* lists exactly those that run, hold memory or panicked.                   *)
RequestsListed == DispatchedToLatest /\ ListExact
=============================================================================
