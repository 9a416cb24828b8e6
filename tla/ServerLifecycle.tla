---------------------------- MODULE ServerLifecycle ----------------------------
(***************************************************************************)
(* proxy.Start (proxy.go): the main goroutine starts the group sync and    *)
(* two HTTP servers in an errgroup, waits for a signal or for the group's  *)
(* context, shuts both servers down and stops the group sync.              *)
(*                                                                         *)
(* Each server is served by one goroutine of the errgroup and shut down by *)
(* another; the two that shut down share Start's variable err.             *)
(***************************************************************************)
EXTENDS Naturals

CONSTANTS
  MaxActive   \* bound of the model: connections a server has in use at once

ASSUME MaxActiveAssumption == MaxActive \in Nat \ {0}

Servers == {"http", "metrics"}

VARIABLES
  main,      \* where Start is
  result,    \* what Start returned: "none" yet, "nil" or "error"
  stopChan,  \* signals in the channel of capacity 2
  ctxDone,   \* the errgroup's context is done
  groupErr,  \* the first error of the errgroup: "nil" or "error"
  serve,     \* ListenAndServe of each server: "none", "launched", "opening"
             \* its listener, "serving", "failing" with an error in hand, and
             \* "closed" or "failed" once its goroutine has returned
  closing,   \* inShutdown of each http.Server
  active,    \* connections of each server in use
  shut,      \* the goroutine of each Shutdown: "none", "begin", "poll" and
             \* "wait" inside the call, then "check", "return", "done"
  shutErr,   \* what Shutdown of each server returned
  err,       \* the variable err of Start, shared by both
  deadline,  \* the five seconds of shutdownCtx are over
  ticking,   \* syncTicker has not been stopped
  tick,      \* a tick is in ticker.C
  sync       \* the sync goroutine: "none", "select", "run" or "stopped"

vars == <<main, result, stopChan, ctxDone, groupErr, serve, closing, active,
          shut, shutErr, err, deadline, ticking, tick, sync>>

Errors == {"nil", "error"}

TypeOK ==
  /\ main \in {"sync", "handlers", "metrics", "http", "select", "shutdown",
               "wait", "stopSync", "returned"}
  /\ result \in Errors \cup {"none"}
  /\ stopChan \in 0..2
  /\ ctxDone \in BOOLEAN /\ deadline \in BOOLEAN
  /\ ticking \in BOOLEAN /\ tick \in BOOLEAN
  /\ groupErr \in Errors /\ err \in Errors
  /\ serve \in [Servers -> {"none", "launched", "opening", "serving",
                         "failing", "closed", "failed"}]
  /\ closing \in [Servers -> BOOLEAN]
  /\ active \in [Servers -> 0..MaxActive]
  /\ shut \in [Servers -> {"none", "begin", "poll", "wait", "check",
                        "return", "done"}]
  /\ shutErr \in [Servers -> Errors]
  /\ sync \in {"none", "select", "run", "stopped"}

Init ==
  /\ main = "sync" /\ result = "none"
  /\ stopChan = 0
  /\ ctxDone = FALSE /\ deadline = FALSE
  /\ groupErr = "nil" /\ err = "nil"
  /\ serve = [s \in Servers |-> "none"]
  /\ closing = [s \in Servers |-> FALSE]
  /\ active = [s \in Servers |-> 0]
  /\ shut = [s \in Servers |-> "none"]
  /\ shutErr = [s \in Servers |-> "nil"]
  /\ ticking = TRUE /\ tick = FALSE
  /\ sync = "none"

startVars == <<main, result>>
groupVars == <<ctxDone, groupErr>>
serverVars == <<serve, closing, active>>
shutVars == <<shut, shutErr, err, deadline>>
syncVars == <<ticking, tick, sync>>
------------------------------------------------------------------------------
(* A goroutine of the errgroup returns: the first error is kept and cancels *)
(* the context.                                                             *)
GroupReturns(e) ==
  IF e = "error"
    THEN /\ groupErr' = "error"
         /\ ctxDone' = TRUE
    ELSE UNCHANGED groupVars

(* startSyncGroups lists the groups, then starts the goroutine. *)
SyncStarts ==
  /\ main = "sync"
  /\ main' = "handlers"
  /\ sync' = "select"
  /\ UNCHANGED <<result, stopChan, groupVars, serverVars, shutVars, ticking,
                 tick>>

(* The initial listing fails: Start returns before stopGroupSync is         *)
(* deferred, and nobody stops the ticker.                                   *)
SyncStartFails ==
  /\ main = "sync"
  /\ main' = "returned"
  /\ result' = "error"
  /\ ctxDone' = TRUE
  /\ UNCHANGED <<stopChan, groupErr, serverVars, shutVars, syncVars>>

HandlersReady ==
  /\ main = "handlers"
  /\ main' = "metrics"
  /\ UNCHANGED <<result, stopChan, groupVars, serverVars, shutVars, syncVars>>

(* Mutant: the early return does not stop the group sync. *)
HandlersFailUnstopped ==
  /\ main = "handlers"
  /\ main' = "returned"
  /\ result' = "error"
  /\ ticking' = FALSE
  /\ ctxDone' = TRUE
  /\ UNCHANGED <<stopChan, groupErr, serverVars, shutVars, tick, sync>>

(* newHandlers or metricsHandler fails: the deferred functions run. *)
HandlersFail ==
  /\ main = "handlers"
  /\ main' = "stopSync"
  /\ result' = "error"
  /\ ticking' = FALSE
  /\ UNCHANGED <<stopChan, groupVars, serverVars, shutVars, tick, sync>>

(* g.Go for the metrics server, then for the HTTP server. *)
Launch(s) ==
  /\ main = s
  /\ main' = IF s = "metrics" THEN "http" ELSE "select"
  /\ serve' = [serve EXCEPT ![s] = "launched"]
  /\ UNCHANGED <<result, stopChan, groupVars, closing, active, shutVars,
                 syncVars>>

(* Mutant: a signal cancels the context before the shutdowns. *)
WakeAndCancel ==
  /\ main = "select"
  /\ \/ stopChan > 0 /\ stopChan' = stopChan - 1
     \/ ctxDone /\ UNCHANGED stopChan
  /\ ctxDone' = TRUE
  /\ main' = "shutdown"
  /\ UNCHANGED <<result, groupErr, serverVars, shutVars, syncVars>>

(* Mutant: the select does not wait for the context. *)
WakeOnSignal ==
  /\ main = "select"
  /\ stopChan > 0 /\ stopChan' = stopChan - 1
  /\ main' = "shutdown"
  /\ UNCHANGED <<result, groupVars, serverVars, shutVars, syncVars>>

(* The select: a signal, or the context when a server has failed. *)
Wake ==
  /\ main = "select"
  /\ \/ stopChan > 0 /\ stopChan' = stopChan - 1
     \/ ctxDone /\ UNCHANGED stopChan
  /\ main' = "shutdown"
  /\ UNCHANGED <<result, groupVars, serverVars, shutVars, syncVars>>

(* Both g.Go of the shutdowns; shutdownCtx is a child of the group's. *)
LaunchShutdowns ==
  /\ main = "shutdown"
  /\ main' = "wait"
  /\ shut' = [s \in Servers |-> "begin"]
  /\ UNCHANGED <<result, stopChan, groupVars, serverVars, shutErr, err,
                 deadline, syncVars>>

(* Mutant: what g.Wait returns is dropped, and err of the shutdowns decides. *)
WaitedDropsError ==
  /\ main = "wait"
  /\ \A s \in Servers : serve[s] \in {"closed", "failed"} /\ shut[s] = "done"
  /\ ctxDone' = TRUE
  /\ result' = err
  /\ main' = "stopSync"
  /\ ticking' = FALSE
  /\ UNCHANGED <<stopChan, groupErr, serverVars, shutVars, tick, sync>>

(* g.Wait returns once all four goroutines have, and cancels the context.   *)
Waited ==
  /\ main = "wait"
  /\ \A s \in Servers : serve[s] \in {"closed", "failed"} /\ shut[s] = "done"
  /\ err' = groupErr
  /\ ctxDone' = TRUE
  /\ result' = groupErr
  /\ main' = "stopSync"
  /\ ticking' = FALSE
  /\ UNCHANGED <<stopChan, groupErr, serverVars, shut, shutErr, deadline, tick,
                 sync>>

(* syncChan <- true meets the receive of the sync goroutine; the deferred   *)
(* cancel follows and Start returns.                                        *)
StopSync ==
  /\ main = "stopSync"
  /\ sync = "select"
  /\ sync' = "stopped"
  /\ main' = "returned"
  /\ ctxDone' = TRUE
  /\ UNCHANGED <<result, stopChan, groupErr, serverVars, shutVars, ticking,
                 tick>>
------------------------------------------------------------------------------
(* ListenAndServe looks at inShutdown, then begins to open the listener.    *)
Open(s) ==
  /\ serve[s] = "launched" /\ ~closing[s]
  /\ serve' = [serve EXCEPT ![s] = "opening"]
  /\ UNCHANGED <<startVars, stopChan, groupVars, closing, active, shutVars,
                 syncVars>>

(* The listener is open, and Serve looks at inShutdown again. *)
Listen(s) ==
  /\ serve[s] = "opening" /\ ~closing[s]
  /\ serve' = [serve EXCEPT ![s] = "serving"]
  /\ UNCHANGED <<startVars, stopChan, groupVars, closing, active, shutVars,
                 syncVars>>

(* The address or the certificate cannot be used, though a Shutdown may     *)
(* have begun meanwhile; or Accept fails, and not because of a Shutdown.    *)
ServeFails(s) ==
  /\ serve[s] = "opening" \/ (serve[s] = "serving" /\ ~closing[s])
  /\ serve' = [serve EXCEPT ![s] = "failing"]
  /\ UNCHANGED <<startVars, stopChan, groupVars, closing, active, shutVars,
                 syncVars>>

(* The goroutine returns that error to the errgroup. *)
ServeReturns(s) ==
  /\ serve[s] = "failing"
  /\ serve' = [serve EXCEPT ![s] = "failed"]
  /\ GroupReturns("error")
  /\ UNCHANGED <<startVars, stopChan, closing, active, shutVars, syncVars>>

(* Mutant: http.ErrServerClosed is returned like any error. *)
ServerClosedIsError(s) ==
  /\ serve[s] \in {"launched", "opening", "serving"} /\ closing[s]
  /\ serve' = [serve EXCEPT ![s] = "closed"]
  /\ GroupReturns("error")
  /\ UNCHANGED <<startVars, stopChan, closing, active, shutVars, syncVars>>

(* ListenAndServe returns http.ErrServerClosed, which is no error here. *)
ServerClosed(s) ==
  /\ serve[s] \in {"launched", "opening", "serving"} /\ closing[s]
  /\ serve' = [serve EXCEPT ![s] = "closed"]
  /\ UNCHANGED <<startVars, stopChan, groupVars, closing, active, shutVars,
                 syncVars>>

ConnectionBusy(s) ==
  /\ serve[s] = "serving" /\ ~closing[s]
  /\ active[s] < MaxActive
  /\ active' = [active EXCEPT ![s] = @ + 1]
  /\ UNCHANGED <<startVars, stopChan, groupVars, serve, closing, shutVars,
                 syncVars>>

ConnectionIdle(s) ==
  /\ active[s] > 0
  /\ main # "returned"
  /\ active' = [active EXCEPT ![s] = @ - 1]
  /\ UNCHANGED <<startVars, stopChan, groupVars, serve, closing, shutVars,
                 syncVars>>

(* Shutdown closes the listener. *)
BeginShutdown(s) ==
  /\ shut[s] = "begin"
  /\ shut' = [shut EXCEPT ![s] = "poll"]
  /\ closing' = [closing EXCEPT ![s] = TRUE]
  /\ UNCHANGED <<startVars, stopChan, groupVars, serve, active, shutErr, err,
                 deadline, syncVars>>

(* err = Shutdown(...): the call returns e into the shared variable. *)
ShutdownReturns(s, e) ==
  /\ shut' = [shut EXCEPT ![s] = "check"]
  /\ shutErr' = [shutErr EXCEPT ![s] = e]
  /\ err' = e
  /\ UNCHANGED <<startVars, stopChan, groupVars, serverVars, deadline,
                 syncVars>>

(* Shutdown polls: it is done once no connection is in use. *)
Drained(s) ==
  /\ shut[s] = "poll" /\ active[s] = 0
  /\ ShutdownReturns(s, "nil")

StillBusy(s) ==
  /\ shut[s] = "poll" /\ active[s] > 0
  /\ shut' = [shut EXCEPT ![s] = "wait"]
  /\ UNCHANGED <<startVars, stopChan, groupVars, serverVars, shutErr, err,
                 deadline, syncVars>>

(* Between two polls it waits for its timer or for the end of shutdownCtx,  *)
(* and takes either when both have come.                                    *)
PollAgain(s) ==
  /\ shut[s] = "wait"
  /\ shut' = [shut EXCEPT ![s] = "poll"]
  /\ UNCHANGED <<startVars, stopChan, groupVars, serverVars, shutErr, err,
                 deadline, syncVars>>

(* Mutant: Shutdown is given the group's context, without the timeout. *)
GivesUpWithGroup(s) ==
  /\ shut[s] = "wait"
  /\ ctxDone
  /\ ShutdownReturns(s, "error")

GivesUp(s) ==
  /\ shut[s] = "wait"
  /\ ctxDone \/ deadline
  /\ ShutdownReturns(s, "error")

(* if err != nil: unsynchronised, so that the load may be served from the   *)
(* goroutine's own store or see the other goroutine's.                      *)
CheckShutdown(s) ==
  /\ shut[s] = "check"
  /\ \E seen \in {err, shutErr[s]} :
       IF seen = "error"
         THEN shut' = [shut EXCEPT ![s] = "return"] /\ UNCHANGED groupVars
         ELSE shut' = [shut EXCEPT ![s] = "done"] /\ GroupReturns("nil")
  /\ UNCHANGED <<startVars, stopChan, serverVars, shutErr, err, deadline,
                 syncVars>>

(* return err loads the shared variable once more. *)
ReturnShutdown(s) ==
  /\ shut[s] = "return"
  /\ shut' = [shut EXCEPT ![s] = "done"]
  /\ GroupReturns(err)
  /\ UNCHANGED <<startVars, stopChan, serverVars, shutErr, err, deadline,
                 syncVars>>

(* The timeout of shutdownCtx, which is created before the shutdowns. *)
DeadlinePasses ==
  /\ main = "wait" /\ ~deadline
  /\ deadline' = TRUE
  /\ UNCHANGED <<startVars, stopChan, groupVars, serverVars, shut, shutErr,
                 err, syncVars>>
------------------------------------------------------------------------------
(* The ticker fires.  It is made before the first listing, which may take   *)
(* any time, so that a tick may be there as soon as the goroutine is.       *)
Ticks ==
  /\ ticking /\ ~tick
  /\ tick' = TRUE
  /\ UNCHANGED <<startVars, stopChan, groupVars, serverVars, shutVars, ticking,
                 sync>>

TickerSync ==
  /\ sync = "select" /\ tick
  /\ tick' = FALSE
  /\ sync' = "run"
  /\ UNCHANGED <<startVars, stopChan, groupVars, serverVars, shutVars, ticking>>

(* The Graph call answers or fails; with the context done it fails at once. *)
SyncRunEnds ==
  /\ sync = "run"
  /\ sync' = "select"
  /\ UNCHANGED <<startVars, stopChan, groupVars, serverVars, shutVars, ticking,
                 tick>>

(* Mutant: the channel takes every signal. *)
SignalKept ==
  /\ main # "returned"
  /\ stopChan' = stopChan + 1
  /\ UNCHANGED <<startVars, groupVars, serverVars, shutVars, syncVars>>

(* SIGINT or SIGTERM, or SIGPIPE when a write meets a closed connection:    *)
(* signal.Notify drops what the channel cannot take.                        *)
Signal ==
  /\ main # "returned"
  /\ stopChan < 2
  /\ stopChan' = stopChan + 1
  /\ UNCHANGED <<startVars, groupVars, serverVars, shutVars, syncVars>>

MainStep ==
  \/ SyncStarts \/ SyncStartFails
  \/ HandlersReady \/ HandlersFail
  \/ \E s \in Servers : Launch(s)
  \/ Wake \/ LaunchShutdowns \/ Waited \/ StopSync

ServeStep(s) ==
  \/ Open(s) \/ Listen(s) \/ ServeFails(s) \/ ServeReturns(s)
  \/ ServerClosed(s)

ShutdownStep(s) ==
  \/ BeginShutdown(s) \/ Drained(s) \/ StillBusy(s) \/ PollAgain(s)
  \/ GivesUp(s) \/ CheckShutdown(s) \/ ReturnShutdown(s)

Next ==
  \/ MainStep
  \/ \E s \in Servers :
       ServeStep(s) \/ ShutdownStep(s) \/ ConnectionBusy(s) \/ ConnectionIdle(s)
  \/ DeadlinePasses
  \/ Ticks \/ TickerSync \/ SyncRunEnds
  \/ Signal

(* Goroutines that can run do, opening a listener comes to an end, the      *)
(* shutdown timer fires, a select offered its context's end again and again *)
(* takes it, and a Graph call whose context is done ends.  Nothing makes a  *)
(* connection become idle, a signal arrive, or another Graph call answer:   *)
(* that client has no timeout.                                              *)
Fairness ==
  /\ WF_vars(MainStep)
  /\ \A s \in Servers :
       /\ WF_vars(Open(s) \/ Listen(s) \/ ServeReturns(s) \/ ServerClosed(s))
       /\ WF_vars(ShutdownStep(s))
       /\ SF_vars(GivesUp(s))
  /\ WF_vars(DeadlinePasses)
  /\ WF_vars(ctxDone /\ SyncRunEnds)

Spec == Init /\ [][Next]_vars /\ Fairness
------------------------------------------------------------------------------
(* Start returns an error only when it could not start, when a server       *)
(* failed, or when connections were still in use as the five seconds ended: *)
(* the goroutines that share err pass on no error of their own making, and  *)
(* http.ErrServerClosed is none (proxy.go:131-201).                         *)
ErrorHasCause ==
  result = "error" =>
    \/ \A s \in Servers : serve[s] = "none"
    \/ \E s \in Servers : serve[s] = "failed"
    \/ deadline

(* Connections in use are cut short only by the timeout or by the failure   *)
(* of a server, whose context the shutdowns inherit (proxy.go:175): a       *)
(* signal alone leaves each server its five seconds.                        *)
DrainGetsItsTime ==
  (\E s \in Servers : shutErr[s] = "error") =>
    deadline \/ \E s \in Servers : serve[s] = "failed"

(* When Start returns it leaves no goroutine of its own behind: both        *)
(* servers and shutdowns have returned and the group sync has stopped, on   *)
(* the early returns too (proxy.go:99-126, 199-206).                        *)
NothingLeftRunning ==
  main = "returned" =>
    /\ \A s \in Servers : /\ serve[s] \in {"none", "closed", "failed"}
                          /\ shut[s] \in {"none", "done"}
    /\ sync \in {"none", "stopped"}

(* Once the servers have been started, a signal or the failure of either    *)
(* server makes Start return, though a connection may never become idle     *)
(* and a Graph call of the group sync may never answer (proxy.go:163-206).  *)
StopsEventually ==
  /\ (main = "select" /\ stopChan > 0) ~> (main = "returned")
  /\ \A s \in Servers : (serve[s] = "failed") ~> (main = "returned")

(* Where Start is, for one who does not see its goroutines. *)
Stage ==
  CASE main = "returned" -> "stopped"
    [] main = "select" -> "running"
    [] main \in {"shutdown", "wait"} -> "stopping"
    [] main = "stopSync" /\ \E s \in Servers : serve[s] # "none" -> "stopping"
    [] OTHER -> "starting"

(* A server whose listener is being opened as Shutdown begins may still     *)
(* break: it is new until ListenAndServe has returned.                      *)
ServerState(s) ==
  CASE serve[s] \in {"failing", "failed"} -> "broken"
    [] serve[s] \in {"none", "launched", "serving", "closed"} /\ closing[s] ->
         "closed"
    [] serve[s] = "serving" /\ ~closing[s] -> "open"
    [] OTHER -> "new"

(* What Start promises. *)
Promise == INSTANCE Service WITH
  stage <- Stage,
  asked <- stopChan > 0,
  server <- [s \in Servers |-> ServerState(s)],
  busy <- {s \in Servers : active[s] > 0},
  overdue <- deadline,
  outcome <- IF main = "returned" THEN result ELSE "none"

(* Start implements that promise: with four goroutines, a shared err, a     *)
(* context that ends early and a sync that has to be met, it stops only for *)
(* a reason, closes both servers for good, abandons connections only when   *)
(* the time is up or a server broke, and reports a broken server whatever   *)
(* the shutdowns write to err (proxy.go:84-207).                            *)
StopsInOrder == Promise!ServiceSafety

(* And it does not linger in any stage of the promise: it begins to stop    *)
(* when there is a reason, closes each server, and ends when nothing the    *)
(* promise names holds it up, though connections stay in use and a Graph    *)
(* call of the sync may never answer (proxy.go:163-207).                    *)
StopsPromptly == Promise!ServiceFairness

(* Stated by the log message "Server exited properly" (proxy.go:204) that   *)
(* precedes return nil: no shutdown has failed.                             *)
ExitedProperly ==
  result = "nil" => \A s \in Servers : shutErr[s] = "nil"
==============================================================================
