------------------------ MODULE ServerLifecycleProofs ------------------------
(***************************************************************************)
(* Proofs about ServerLifecycle, for any number of connections in use: the *)
(* types, what an error of Start is due to, that draining is not cut short *)
(* without a reason, that Start leaves nothing running, and that it        *)
(* implements Service.                                                     *)
(***************************************************************************)
EXTENDS ServerLifecycle, TLAPS

(* A reason to give up draining. *)
Cause == deadline \/ \E s \in Servers : serve[s] = "failed"

(* How far the servers and their shutdowns are when Start is at main. *)
ServersOK ==
  /\ main \in {"sync", "handlers", "metrics"} =>
       \A s \in Servers : serve[s] = "none"
  /\ main = "http" => serve["http"] = "none"
  /\ main \in {"sync", "handlers", "metrics", "http", "select", "shutdown"} =>
       \A s \in Servers : shut[s] = "none"
  /\ main \in {"stopSync", "returned"} =>
       \A s \in Servers : /\ serve[s] \in {"none", "closed", "failed"}
                          /\ shut[s] \in {"none", "done"}

(* How far the sync goroutine is. *)
SyncOK ==
  /\ main = "sync" => sync = "none"
  /\ main \notin {"sync", "returned"} => sync \in {"select", "run"}
  /\ main = "returned" => sync \in {"none", "stopped"}

(* Until g.Wait has returned the context ends only with a cause, and an     *)
(* error is in err, in a result of Shutdown or in the errgroup only with    *)
(* one.                                                                     *)
ErrorsOK ==
  /\ ctxDone /\ main \notin {"stopSync", "returned"} => Cause
  /\ groupErr = "error" \/ err = "error" => Cause
  /\ \A s \in Servers : shutErr[s] = "error" => Cause
  /\ main \notin {"stopSync", "returned"} => result = "none"
  /\ ErrorHasCause

LifecycleInv == TypeOK /\ ServersOK /\ SyncOK /\ ErrorsOK
------------------------------------------------------------------------------
(* A cause is never taken back. *)
LEMMA CauseStays ==
  ASSUME TypeOK, ServersOK, [Next]_vars, Cause
  PROVE  Cause'
<1> USE DEF Cause, TypeOK, startVars, groupVars, serverVars, shutVars, syncVars
<1>1. CASE MainStep
  <2>1. ASSUME NEW s \in Servers, Launch(s)
        PROVE  Cause'
    <3>1. serve[s] = "none"
      BY <2>1 DEF Launch, ServersOK, Servers
    <3> QED
      BY <2>1, <3>1 DEF Launch
  <2> QED
    BY <1>1, <2>1
       DEF MainStep, SyncStarts, SyncStartFails, HandlersReady, HandlersFail,
           Wake, LaunchShutdowns, Waited, StopSync
<1>2. ASSUME NEW s \in Servers, ServeStep(s)
      PROVE  Cause'
  BY <1>2 DEF ServeStep, Open, Listen, ServeFails, ServeReturns,
              ServerClosed
<1>3. ASSUME NEW s \in Servers, ShutdownStep(s)
      PROVE  Cause'
  BY <1>3 DEF ShutdownStep, BeginShutdown, Drained, StillBusy, PollAgain,
              GivesUp, ShutdownReturns, CheckShutdown, ReturnShutdown
<1>4. ASSUME NEW s \in Servers, ConnectionBusy(s) \/ ConnectionIdle(s)
      PROVE  Cause'
  BY <1>4 DEF ConnectionBusy, ConnectionIdle
<1>5. CASE DeadlinePasses \/ Ticks \/ TickerSync \/ SyncRunEnds \/ Signal
  BY <1>5 DEF DeadlinePasses, Ticks, TickerSync, SyncRunEnds, Signal
<1>6. CASE UNCHANGED vars
  BY <1>6 DEF vars
<1> QED
  BY <1>1, <1>2, <1>3, <1>4, <1>5, <1>6 DEF Next

(* Every step keeps the types (TypeOK is inductive).                        *)
LEMMA TypesStep ==
  ASSUME TypeOK, [Next]_vars
  PROVE  TypeOK'
<1> USE MaxActiveAssumption
    DEF TypeOK, Errors, startVars, groupVars, serverVars, shutVars, syncVars
<1>1. CASE \/ SyncStarts \/ SyncStartFails \/ HandlersReady \/ HandlersFail
           \/ Wake \/ LaunchShutdowns \/ Waited \/ StopSync
  <2>1. CASE SyncStarts \/ SyncStartFails
    BY <2>1 DEF SyncStarts, SyncStartFails
  <2>2. CASE HandlersReady \/ HandlersFail
    BY <2>2 DEF HandlersReady, HandlersFail
  <2>3. CASE Wake
    BY <2>3 DEF Wake
  <2>4. CASE LaunchShutdowns
    BY <2>4 DEF LaunchShutdowns
  <2>5. CASE Waited \/ StopSync
    BY <2>5 DEF Waited, StopSync
  <2> QED
    BY <1>1, <2>1, <2>2, <2>3, <2>4, <2>5
<1>2. ASSUME NEW s \in Servers, Launch(s)
      PROVE  TypeOK'
  BY <1>2 DEF Launch
<1>3. ASSUME NEW s \in Servers, ServeStep(s)
      PROVE  TypeOK'
  <2>1. CASE Open(s) \/ Listen(s) \/ ServeFails(s)
    BY <2>1 DEF Open, Listen, ServeFails
  <2>2. CASE ServeReturns(s)
    BY <2>2 DEF ServeReturns, GroupReturns
  <2>3. CASE ServerClosed(s)
    BY <2>3 DEF ServerClosed
  <2> QED
    BY <1>3, <2>1, <2>2, <2>3 DEF ServeStep
<1>4. ASSUME NEW s \in Servers, ShutdownStep(s)
      PROVE  TypeOK'
  <2>1. CASE BeginShutdown(s)
    BY <2>1 DEF BeginShutdown
  <2>5. CASE StillBusy(s) \/ PollAgain(s)
    BY <2>5 DEF StillBusy, PollAgain
  <2>2. CASE Drained(s) \/ GivesUp(s)
    BY <2>2 DEF Drained, GivesUp, ShutdownReturns
  <2>3. CASE CheckShutdown(s)
    BY <2>3 DEF CheckShutdown, GroupReturns
  <2>4. CASE ReturnShutdown(s)
    BY <2>4 DEF ReturnShutdown, GroupReturns
  <2> QED
    BY <1>4, <2>1, <2>2, <2>3, <2>4, <2>5 DEF ShutdownStep
<1>5. ASSUME NEW s \in Servers, ConnectionBusy(s) \/ ConnectionIdle(s)
      PROVE  TypeOK'
  BY <1>5 DEF ConnectionBusy, ConnectionIdle
<1>6. CASE DeadlinePasses \/ Ticks \/ TickerSync \/ SyncRunEnds \/ Signal
  <2>1. CASE DeadlinePasses
    BY <2>1 DEF DeadlinePasses
  <2>2. CASE Ticks
    BY <2>2 DEF Ticks
  <2>3. CASE TickerSync
    BY <2>3 DEF TickerSync
  <2>4. CASE SyncRunEnds
    BY <2>4 DEF SyncRunEnds
  <2>5. CASE Signal
    BY <2>5 DEF Signal
  <2> QED
    BY <1>6, <2>1, <2>2, <2>3, <2>4, <2>5
<1>7. CASE UNCHANGED vars
  BY <1>7 DEF vars
<1> QED
  BY <1>1, <1>2, <1>3, <1>4, <1>5, <1>6, <1>7 DEF Next, MainStep

(* Every step leaves the servers and their shutdowns no further than Start  *)
(* has brought them.                                                        *)
LEMMA ServersStep ==
  ASSUME TypeOK, ServersOK, [Next]_vars
  PROVE  ServersOK'
<1> USE DEF TypeOK, ServersOK, Servers, startVars, groupVars, serverVars,
            shutVars, syncVars
<1>1. CASE \/ SyncStarts \/ SyncStartFails \/ HandlersReady \/ HandlersFail
           \/ Wake \/ LaunchShutdowns \/ Waited \/ StopSync
  BY <1>1 DEF SyncStarts, SyncStartFails, HandlersReady, HandlersFail, Wake,
              LaunchShutdowns, Waited, StopSync
<1>2. ASSUME NEW s \in Servers, Launch(s)
      PROVE  ServersOK'
  BY <1>2 DEF Launch
<1>3. ASSUME NEW s \in Servers, ServeStep(s)
      PROVE  ServersOK'
  BY <1>3 DEF ServeStep, Open, Listen, ServeFails, ServeReturns,
              ServerClosed
<1>4. ASSUME NEW s \in Servers, ShutdownStep(s)
      PROVE  ServersOK'
  <2>1. CASE BeginShutdown(s) \/ StillBusy(s) \/ PollAgain(s)
    BY <2>1 DEF BeginShutdown, StillBusy, PollAgain
  <2>2. CASE Drained(s) \/ GivesUp(s)
    BY <2>2 DEF Drained, GivesUp, ShutdownReturns
  <2>3. CASE CheckShutdown(s) \/ ReturnShutdown(s)
    BY <2>3 DEF CheckShutdown, ReturnShutdown
  <2> QED
    BY <1>4, <2>1, <2>2, <2>3 DEF ShutdownStep
<1>5. ASSUME NEW s \in Servers, ConnectionBusy(s) \/ ConnectionIdle(s)
      PROVE  ServersOK'
  BY <1>5 DEF ConnectionBusy, ConnectionIdle
<1>6. CASE DeadlinePasses \/ Ticks \/ TickerSync \/ SyncRunEnds \/ Signal
  BY <1>6 DEF DeadlinePasses, Ticks, TickerSync, SyncRunEnds, Signal
<1>7. CASE UNCHANGED vars
  BY <1>7 DEF vars
<1> QED
  BY <1>1, <1>2, <1>3, <1>4, <1>5, <1>6, <1>7 DEF Next, MainStep

(* Every step leaves the sync goroutine running exactly while Start needs   *)
(* it.                                                                      *)
LEMMA SyncStep ==
  ASSUME TypeOK, SyncOK, [Next]_vars
  PROVE  SyncOK'
<1> USE DEF SyncOK, startVars, groupVars, serverVars, shutVars, syncVars
<1>1. CASE \/ SyncStarts \/ SyncStartFails \/ HandlersReady \/ HandlersFail
           \/ Wake \/ LaunchShutdowns \/ Waited \/ StopSync
  BY <1>1 DEF SyncStarts, SyncStartFails, HandlersReady, HandlersFail, Wake,
              LaunchShutdowns, Waited, StopSync
<1>2. ASSUME NEW s \in Servers, Launch(s)
      PROVE  SyncOK'
  BY <1>2 DEF Launch, Servers
<1>3. ASSUME NEW s \in Servers,
             \/ ServeStep(s) \/ ShutdownStep(s)
             \/ ConnectionBusy(s) \/ ConnectionIdle(s)
      PROVE  SyncOK'
  BY <1>3 DEF ServeStep, Open, Listen, ServeFails, ServeReturns,
              ServerClosed, ShutdownStep, BeginShutdown, Drained, StillBusy, PollAgain, GivesUp,
              ShutdownReturns, CheckShutdown, ReturnShutdown, ConnectionBusy,
              ConnectionIdle
<1>4. CASE DeadlinePasses \/ Ticks \/ TickerSync \/ SyncRunEnds \/ Signal
  BY <1>4 DEF DeadlinePasses, Ticks, TickerSync, SyncRunEnds, Signal
<1>5. CASE UNCHANGED vars
  BY <1>5 DEF vars
<1> QED
  BY <1>1, <1>2, <1>3, <1>4, <1>5 DEF Next, MainStep

(* No step makes an error, or ends the context, without a cause: the        *)
(* goroutines that share err only pass errors of Shutdown on.               *)
LEMMA ErrorsStep ==
  ASSUME LifecycleInv, [Next]_vars
  PROVE  ErrorsOK'
<1> USE DEF LifecycleInv, ErrorsOK, ErrorHasCause, startVars, groupVars,
            serverVars, shutVars, syncVars
<1>0. Cause => Cause'
  BY CauseStays
<1>1. CASE SyncStarts \/ HandlersReady \/ Wake \/ LaunchShutdowns \/ StopSync
  BY <1>1, <1>0 DEF SyncStarts, HandlersReady, Wake, LaunchShutdowns, StopSync
<1>2. CASE SyncStartFails \/ HandlersFail
  BY <1>2, <1>0 DEF SyncStartFails, HandlersFail, ServersOK
<1>3. CASE Waited
  <2>1. groupErr = "error" => deadline \/ \E s \in Servers : serve[s] = "failed"
    BY DEF Cause
  <2> QED
    BY <1>3, <1>0, <2>1 DEF Waited, Cause
<1>4. ASSUME NEW s \in Servers, Launch(s)
      PROVE  ErrorsOK'
  <2>1. main \notin {"stopSync", "returned"} /\ result = "none"
    BY <1>4 DEF Launch, Servers
  <2> QED
    BY <1>4, <1>0, <2>1 DEF Launch
<1>5. ASSUME NEW s \in Servers, ServeReturns(s)
      PROVE  ErrorsOK'
  <2>1. Cause' /\ UNCHANGED <<main, result, err, shutErr>>
    BY <1>5 DEF ServeReturns, Cause, TypeOK
  <2> QED
    BY <2>1 DEF Cause
<1>6. ASSUME NEW s \in Servers,
             Open(s) \/ Listen(s) \/ ServeFails(s) \/ ServerClosed(s)
      PROVE  ErrorsOK'
  <2>1. UNCHANGED <<main, result, ctxDone, groupErr, err, shutErr>>
    BY <1>6 DEF Open, Listen, ServeFails, ServerClosed
  <2>2. result = "error" => Cause
    BY <1>6 DEF Open, Listen, ServeFails, ServerClosed, Cause
  <2> QED
    BY <1>0, <2>1, <2>2 DEF Cause
<1>7. ASSUME NEW s \in Servers, ShutdownStep(s)
      PROVE  ErrorsOK'
  <2>0. UNCHANGED <<main, result, serve, deadline>>
    BY <1>7 DEF ShutdownStep, BeginShutdown, Drained, StillBusy, PollAgain,
                GivesUp, ShutdownReturns, CheckShutdown, ReturnShutdown
  <2>1. CASE BeginShutdown(s) \/ StillBusy(s) \/ PollAgain(s)
    BY <1>0, <2>0, <2>1 DEF BeginShutdown, StillBusy, PollAgain
  <2>2. CASE Drained(s)
    BY <1>0, <2>0, <2>2 DEF Drained, ShutdownReturns, TypeOK
  <2>3. CASE GivesUp(s)
    <3>1. main \notin {"stopSync", "returned"}
      BY <2>3 DEF GivesUp, ServersOK
    <3>2. Cause
      BY <2>3, <3>1 DEF GivesUp, Cause
    <3> QED
      BY <1>0, <2>0, <2>3, <3>2 DEF GivesUp, ShutdownReturns
  <2>4. CASE CheckShutdown(s)
    BY <1>0, <2>0, <2>4 DEF CheckShutdown, GroupReturns
  <2>5. CASE ReturnShutdown(s)
    BY <1>0, <2>0, <2>5 DEF ReturnShutdown, GroupReturns
  <2> QED
    BY <1>7, <2>1, <2>2, <2>3, <2>4, <2>5 DEF ShutdownStep
<1>8. ASSUME NEW s \in Servers, ConnectionBusy(s) \/ ConnectionIdle(s)
      PROVE  ErrorsOK'
  BY <1>8, <1>0 DEF ConnectionBusy, ConnectionIdle
<1>9. CASE DeadlinePasses \/ Ticks \/ TickerSync \/ SyncRunEnds \/ Signal
  BY <1>9, <1>0 DEF DeadlinePasses, Ticks, TickerSync, SyncRunEnds, Signal
<1>10. CASE UNCHANGED vars
  BY <1>10 DEF vars, Cause
<1> QED
  BY <1>1, <1>2, <1>3, <1>4, <1>5, <1>6, <1>7, <1>8, <1>9, <1>10
     DEF Next, MainStep, ServeStep
------------------------------------------------------------------------------
(* The inductive invariant: where every goroutine is when Start is where it *)
(* is, and that an error or the end of the context has a cause.             *)
THEOREM Invariant == Spec => []LifecycleInv
<1>1. Init => LifecycleInv
  <2> SUFFICES ASSUME Init PROVE LifecycleInv
    OBVIOUS
  <2>0. active \in [Servers -> 0..MaxActive] /\ stopChan \in 0..2
    BY MaxActiveAssumption DEF Init
  <2>1. TypeOK
    BY <2>0 DEF Init, TypeOK, Errors
  <2>2. ServersOK /\ SyncOK
    BY DEF Init, ServersOK, SyncOK, Servers
  <2>3. ErrorsOK
    BY DEF Init, ErrorsOK, ErrorHasCause
  <2> QED
    BY <2>1, <2>2, <2>3 DEF LifecycleInv
<1>2. LifecycleInv /\ [Next]_vars => LifecycleInv'
  BY TypesStep, ServersStep, SyncStep, ErrorsStep DEF LifecycleInv
<1> QED
  BY <1>1, <1>2, PTL DEF Spec

(* The variables of Start keep their types: the channel never holds more    *)
(* than two signals (proxy.go:88).                                          *)
THEOREM TypeCorrect == Spec => []TypeOK
<1>1. LifecycleInv => TypeOK
  BY DEF LifecycleInv
<1> QED
  BY <1>1, Invariant, PTL

(* Start returns an error only for a cause: it could not start, a server    *)
(* failed, or the five seconds were over (proxy.go:131-201).                *)
THEOREM ErrorsHaveCause == Spec => []ErrorHasCause
<1>1. LifecycleInv => ErrorHasCause
  BY DEF LifecycleInv, ErrorsOK
<1> QED
  BY <1>1, Invariant, PTL

(* A shutdown fails only after its five seconds or the failure of a server  *)
(* (proxy.go:175-195).                                                      *)
THEOREM DrainingGetsItsTime == Spec => []DrainGetsItsTime
<1>1. LifecycleInv => DrainGetsItsTime
  BY DEF LifecycleInv, ErrorsOK, Cause, DrainGetsItsTime
<1> QED
  BY <1>1, Invariant, PTL

(* When Start has returned, its goroutines have: both servers, both         *)
(* shutdowns and the group sync (proxy.go:99-126, 199-206).                 *)
THEOREM NothingIsLeftRunning == Spec => []NothingLeftRunning
<1>1. LifecycleInv => NothingLeftRunning
  BY DEF LifecycleInv, ServersOK, SyncOK, NothingLeftRunning
<1> QED
  BY <1>1, Invariant, PTL
------------------------------------------------------------------------------
(* ServerLifecycle implements the safety part of Service: each step of      *)
(* Start, of its goroutines and of its clients is a step of the promise, or *)
(* changes nothing it speaks of.                                            *)


(* A server is closing from the beginning of its Shutdown on, its           *)
(* connections are idle once Shutdown has returned nil, and a failure stays *)
(* in the errgroup until Start returns it.                                  *)
PromiseOK ==
  /\ \A s \in Servers :
       /\ closing[s] <=> shut[s] \notin {"none", "begin"}
       /\ serve[s] = "closed" => closing[s]
       /\ serve[s] = "none" => shut[s] = "none"
       /\ shut[s] \in {"check", "return", "done"} /\ shutErr[s] = "nil"
            => active[s] = 0
       /\ serve[s] = "failed" => groupErr = "error"
       /\ main \in {"select", "shutdown", "wait"} => serve[s] # "none"
  /\ main = "http" => serve["metrics"] # "none"
  /\ deadline => main \in {"wait", "stopSync", "returned"}
  /\ main \in {"stopSync", "returned"} /\ (\E s \in Servers : serve[s] # "none")
       => /\ result = groupErr
          /\ \A s \in Servers : serve[s] # "none" /\ shut[s] = "done"
  /\ main \in {"stopSync", "returned"} /\ (\A s \in Servers : serve[s] = "none")
       => result = "error"

PromiseInv == LifecycleInv /\ PromiseOK

(* The states of the servers, as the mapping computes them. *)
Server == [s \in Servers |-> ServerState(s)]

Busy == {s \in Servers : active[s] > 0}

Outcome == IF main = "returned" THEN result ELSE "none"
------------------------------------------------------------------------------
(* Nothing has begun in the initial state. *)
LEMMA PromiseInit == Init => PromiseOK
BY DEF Init, PromiseOK

(* Every step keeps what the mapping needs. *)
LEMMA PromiseStep ==
  ASSUME LifecycleInv, PromiseOK, [Next]_vars
  PROVE  PromiseOK'
<1> USE DEF LifecycleInv, TypeOK, Errors, startVars, groupVars, serverVars,
            shutVars, syncVars
<1>1. CASE SyncStarts \/ SyncStartFails \/ HandlersReady \/ HandlersFail
  BY <1>1 DEF PromiseOK, ServersOK, SyncStarts, SyncStartFails, HandlersReady,
              HandlersFail
<1>2. ASSUME NEW s \in Servers, Launch(s)
      PROVE  PromiseOK'
  <2>1. CASE s = "metrics"
    BY <1>2, <2>1 DEF PromiseOK, ServersOK, Launch, Servers
  <2>2. CASE s = "http"
    BY <1>2, <2>2 DEF PromiseOK, ServersOK, Launch, Servers
  <2> QED
    BY <2>1, <2>2 DEF Servers
<1>3. CASE Wake \/ LaunchShutdowns
  BY <1>3 DEF PromiseOK, ServersOK, Wake, LaunchShutdowns
<1>4. CASE Waited
  BY <1>4 DEF PromiseOK, Waited, Servers
<1>5. CASE StopSync
  BY <1>5 DEF PromiseOK, StopSync
<1>6. ASSUME NEW s \in Servers, ServeStep(s)
      PROVE  PromiseOK'
  <2>1. main \notin {"stopSync", "returned"}
    BY <1>6 DEF ServersOK, ServeStep, Open, Listen, ServeFails, ServeReturns,
              ServerClosed
  <2>2. CASE Open(s)
    BY <2>1, <2>2 DEF PromiseOK, Open
  <2>5. CASE Listen(s)
    BY <2>1, <2>5 DEF PromiseOK, Listen
  <2>6. CASE ServeFails(s)
    BY <2>1, <2>6 DEF PromiseOK, ServeFails
  <2>3. CASE ServeReturns(s)
    BY <2>1, <2>3 DEF PromiseOK, ServeReturns, GroupReturns
  <2>4. CASE ServerClosed(s)
    BY <2>1, <2>4 DEF PromiseOK, ServerClosed
  <2> QED
    BY <1>6, <2>2, <2>3, <2>4, <2>5, <2>6 DEF ServeStep
<1>7. ASSUME NEW s \in Servers, ShutdownStep(s)
      PROVE  PromiseOK'
  <2>1. main \notin {"stopSync", "returned"}
    BY <1>7 DEF ServersOK, ShutdownStep, BeginShutdown, Drained, StillBusy,
                PollAgain, GivesUp, CheckShutdown, ReturnShutdown
  <2>2. CASE BeginShutdown(s)
    BY <2>1, <2>2 DEF PromiseOK, BeginShutdown
  <2>3. CASE StillBusy(s) \/ PollAgain(s)
    BY <2>1, <2>3 DEF PromiseOK, StillBusy, PollAgain
  <2>4. CASE Drained(s) \/ GivesUp(s)
    BY <2>1, <2>4 DEF PromiseOK, Drained, GivesUp, ShutdownReturns
  <2>5. CASE CheckShutdown(s)
    BY <2>1, <2>5 DEF PromiseOK, CheckShutdown, GroupReturns
  <2>6. CASE ReturnShutdown(s)
    BY <2>1, <2>6 DEF PromiseOK, ReturnShutdown, GroupReturns
  <2> QED
    BY <1>7, <2>2, <2>3, <2>4, <2>5, <2>6 DEF ShutdownStep
<1>8. ASSUME NEW s \in Servers, ConnectionBusy(s) \/ ConnectionIdle(s)
      PROVE  PromiseOK'
  <2>1. CASE ConnectionBusy(s)
    BY <2>1, MaxActiveAssumption DEF PromiseOK, ConnectionBusy
  <2>2. CASE ConnectionIdle(s)
    <3>1. /\ UNCHANGED <<main, result, groupErr, serve, closing, shut, shutErr,
                         deadline>>
          /\ \A q \in Servers : active[q] = 0 => active'[q] = 0
      BY <2>2, MaxActiveAssumption DEF ConnectionIdle
    <3> QED
      BY <3>1 DEF PromiseOK
  <2> QED
    BY <1>8, <2>1, <2>2
<1>9. CASE DeadlinePasses \/ Ticks \/ TickerSync \/ SyncRunEnds \/ Signal
  BY <1>9 DEF PromiseOK, DeadlinePasses, Ticks, TickerSync, SyncRunEnds, Signal
<1>10. CASE UNCHANGED vars
  BY <1>10 DEF PromiseOK, vars
<1> QED
  BY <1>1, <1>2, <1>3, <1>4, <1>5, <1>6, <1>7, <1>8, <1>9, <1>10
  DEF Next, MainStep

(* The invariant holds of every reachable state. *)
LEMMA PromiseInvariant == Spec => []PromiseInv
<1>1. PromiseInv <=> LifecycleInv /\ PromiseOK
  BY DEF PromiseInv
<1>2. LifecycleInv /\ PromiseOK /\ [Next]_vars => PromiseOK'
  BY PromiseStep
<1> QED
  BY <1>1, <1>2, PromiseInit, Invariant, PTL DEF Spec
------------------------------------------------------------------------------
Mapped == Promise!ServiceNext \/ UNCHANGED Promise!serviceVars

(* A step changes the promise's functions only with what they are computed  *)
(* from.                                                                    *)
LEMMA SameServers ==
  ASSUME UNCHANGED <<serve, closing>>
  PROVE  /\ Server' = Server
         /\ \A s \in Servers : ServerState(s)' = ServerState(s)
BY DEF Server, ServerState

(* The steps of the main goroutine. *)
LEMMA MainStepMaps ==
  ASSUME PromiseInv, MainStep
  PROVE  Mapped
<1> USE DEF Mapped, PromiseInv, LifecycleInv, startVars, groupVars, serverVars,
            shutVars, syncVars
<1>1. CASE SyncStarts \/ HandlersReady \/ HandlersFail
  <2>1. UNCHANGED <<stopChan, serve, closing, active, deadline>>
    BY <1>1 DEF SyncStarts, HandlersReady, HandlersFail
  <2>2. Stage = "starting" /\ Stage' = "starting"
    BY <1>1 DEF SyncStarts, HandlersReady, HandlersFail, Stage, ServersOK
  <2>3. main # "returned" /\ main' # "returned"
    BY <1>1 DEF SyncStarts, HandlersReady, HandlersFail
  <2> QED
    BY <2>1, <2>2, <2>3, SameServers DEF Promise!serviceVars, Server
<1>2. CASE SyncStartFails \/ (StopSync /\ Stage = "starting")
  <2>1. UNCHANGED <<stopChan, serve, closing, active, deadline>>
    BY <1>2 DEF SyncStartFails, StopSync
  <2>2. /\ Stage = "starting" /\ Stage' = "stopped"
        /\ \A s \in Servers : serve[s] = "none"
    BY <1>2 DEF SyncStartFails, StopSync, Stage, ServersOK
  <2>3. main # "returned" /\ main' = "returned" /\ result' = "error"
    BY <1>2, <2>2 DEF SyncStartFails, StopSync, PromiseOK
  <2>4. \A s \in Servers : ServerState(s) = "new"
    <3>1. \A s \in Servers : shut[s] = "none" /\ ~closing[s]
      BY <1>2, <2>2 DEF SyncStartFails, StopSync, ServersOK, PromiseOK
    <3> QED
      BY <2>2, <3>1 DEF ServerState
  <2>5. Promise!GiveUp
    BY <2>1, <2>2, <2>3, <2>4, SameServers DEF Promise!GiveUp, Server
  <2> QED
    BY <2>5 DEF Promise!ServiceNext
<1>3. ASSUME NEW s \in Servers, Launch(s)
      PROVE  Mapped
  <2>1. UNCHANGED <<stopChan, closing, active, deadline>>
    BY <1>3 DEF Launch
  <2>2. main = s /\ main' # "returned" /\ serve[s] = "none"
    BY <1>3 DEF Launch, ServersOK, Servers
  <2>3. \A q \in Servers : ServerState(q)' = ServerState(q)
    BY <1>3, <2>2 DEF Launch, ServerState, TypeOK
  <2>4. Stage = "starting" /\ Stage' = IF s = "metrics" THEN "starting"
                                                        ELSE "running"
    BY <1>3 DEF Launch, Stage, Servers
  <2>5. CASE s = "metrics"
    BY <2>1, <2>2, <2>3, <2>4, <2>5 DEF Promise!serviceVars, Servers
  <2>6. CASE s # "metrics"
    <3>1. Promise!Started
      BY <2>1, <2>2, <2>3, <2>4, <2>6 DEF Promise!Started, Servers
    <3> QED
      BY <3>1 DEF Promise!ServiceNext
  <2> QED
    BY <2>5, <2>6
<1>4. CASE Wake
  <2>1. /\ main = "select" /\ main' = "shutdown"
        /\ UNCHANGED <<serve, closing, active, deadline>>
    BY <1>4 DEF Wake
  <2>2. Stage = "running" /\ Stage' = "stopping"
    BY <2>1 DEF Stage
  <2>3. \/ stopChan > 0 /\ ((stopChan' > 0) = FALSE
                             \/ (stopChan' > 0) = (stopChan > 0))
        \/ (stopChan' > 0) = (stopChan > 0) /\ Promise!Broken
    <3>1. CASE stopChan > 0 /\ stopChan' > 0
      BY <3>1
    <3>2. CASE stopChan > 0 /\ ~(stopChan' > 0)
      BY <3>2
    <3>3. CASE ctxDone /\ UNCHANGED stopChan
      <4>1. PICK s \in Servers : serve[s] = "failed"
        BY <2>1, <3>3 DEF ErrorsOK, Cause, PromiseOK
      <4>2. ServerState(s) = "broken"
        BY <4>1 DEF ServerState
      <4> QED
        BY <3>3, <4>2 DEF Promise!Broken
    <3> QED
      BY <1>4, <3>1, <3>2, <3>3 DEF Wake
  <2>4. Promise!BeginStop
    BY <2>1, <2>2, <2>3, SameServers DEF Promise!BeginStop
  <2> QED
    BY <2>4 DEF Promise!ServiceNext
<1>5. CASE LaunchShutdowns \/ Waited
  <2>1. UNCHANGED <<stopChan, serve, closing, active, deadline>>
    BY <1>5 DEF LaunchShutdowns, Waited
  <2>2. Stage = "stopping" /\ Stage' = "stopping"
    BY <1>5 DEF LaunchShutdowns, Waited, Stage, Servers
  <2>3. main # "returned" /\ main' # "returned"
    BY <1>5 DEF LaunchShutdowns, Waited
  <2> QED
    BY <2>1, <2>2, <2>3, SameServers DEF Promise!serviceVars
<1>6. CASE StopSync /\ Stage # "starting"
  <2>1. UNCHANGED <<stopChan, serve, closing, active, deadline, result>>
    BY <1>6 DEF StopSync
  <2>2. main = "stopSync" /\ main' = "returned"
    BY <1>6 DEF StopSync
  <2>3. /\ Stage = "stopping" /\ Stage' = "stopped"
        /\ \E s \in Servers : serve[s] # "none"
    BY <1>6, <2>2 DEF Stage
  <2>4. /\ result = groupErr /\ result \in {"nil", "error"}
        /\ \A s \in Servers : /\ serve[s] \in {"closed", "failed"}
                              /\ shut[s] = "done" /\ closing[s]
    BY <2>2, <2>3 DEF PromiseOK, ServersOK, TypeOK, Errors
  <2>5. \A s \in Servers :
          /\ ServerState(s) \in {"broken", "closed"}
          /\ ServerState(s) = "broken" <=> serve[s] = "failed"
    BY <2>4 DEF ServerState
  <2>6. Promise!Broken <=> \E s \in Servers : serve[s] = "failed"
    BY <2>5 DEF Promise!Broken
  <2>7. Promise!Broken => result = "error"
    BY <2>4, <2>6 DEF PromiseOK
  <2>8. result = "error" => deadline \/ Promise!Broken
    BY <2>4, <2>6 DEF ErrorsOK, Cause
  <2>9. {s \in Servers : active[s] > 0} = {} \/ deadline \/ Promise!Broken
    <3> SUFFICES ASSUME ~deadline, ~Promise!Broken, NEW s \in Servers
                 PROVE  ~(active[s] > 0)
      OBVIOUS
    <3>1. shutErr[s] = "nil"
      BY <2>6 DEF ErrorsOK, Cause, TypeOK, Errors
    <3> QED
      BY <2>4, <3>1 DEF PromiseOK
  <2>10. Promise!Stop(result)
    BY <2>1, <2>2, <2>3, <2>5, <2>7, <2>8, <2>9, SameServers DEF Promise!Stop
  <2> QED
    BY <2>4, <2>10 DEF Promise!ServiceNext
<1> QED
  BY <1>1, <1>2, <1>3, <1>4, <1>5, <1>6 DEF MainStep

(* The steps of the goroutines that serve.  A server that is closing is     *)
(* closed already for the promise, unless its listener is being opened.     *)
LEMMA ServeStepMaps ==
  ASSUME PromiseInv, NEW s \in Servers, ServeStep(s)
  PROVE  Mapped
<1> USE DEF Mapped, PromiseInv, LifecycleInv, startVars, groupVars, serverVars,
            shutVars, syncVars
<1>1. /\ UNCHANGED <<main, result, stopChan, closing, active, deadline>>
      /\ main \notin {"stopSync", "returned"}
      /\ \A q \in Servers \ {s} : serve'[q] = serve[q]
      /\ serve[s] \in {"launched", "opening", "serving", "failing"}
      /\ s \in DOMAIN serve
  BY DEF ServeStep, Open, Listen, ServeFails, ServeReturns, ServerClosed,
         ServersOK, TypeOK
<1>2. Stage' = Stage /\ Stage # "stopped" /\ Outcome' = Outcome
  BY <1>1 DEF Stage, Outcome
<1>3. Server' = [Server EXCEPT ![s] = ServerState(s)']
  BY <1>1 DEF Server, ServerState
<1>4. CASE Listen(s)
  <2>1. ServerState(s) = "new" /\ ServerState(s)' = "open"
    BY <1>1, <1>4 DEF Listen, ServerState, TypeOK
  <2>2. Promise!Open(s)
    BY <1>1, <1>2, <1>3, <2>1 DEF Promise!Open, Server, Outcome
  <2> QED
    BY <2>2 DEF Promise!ServiceNext
<1>5. CASE ServeFails(s)
  <2>1. ServerState(s) \in {"new", "open"} /\ ServerState(s)' = "broken"
    BY <1>1, <1>5 DEF ServeFails, ServerState, TypeOK
  <2>2. Promise!Break(s)
    BY <1>1, <1>2, <1>3, <2>1 DEF Promise!Break, Server, Outcome
  <2> QED
    BY <2>2 DEF Promise!ServiceNext
<1>6. CASE ServerClosed(s) /\ serve[s] = "opening"
  <2>1. ServerState(s) = "new" /\ ServerState(s)' = "closed"
    BY <1>1, <1>6 DEF ServerClosed, ServerState, TypeOK
  <2>2. Stage = "stopping"
    BY <1>1, <1>6 DEF ServerClosed, PromiseOK, ServersOK, Stage, TypeOK
  <2>3. Promise!Close(s)
    BY <1>1, <1>2, <1>3, <2>1, <2>2 DEF Promise!Close, Server, Outcome
  <2> QED
    BY <2>3 DEF Promise!ServiceNext
<1>7. CASE \/ Open(s) \/ ServeReturns(s)
           \/ ServerClosed(s) /\ serve[s] # "opening"
  <2>1. ServerState(s)' = ServerState(s)
    BY <1>1, <1>7 DEF Open, ServeReturns, ServerClosed, ServerState, TypeOK
  <2>2. Server' = Server
    BY <1>3, <2>1 DEF Server
  <2> QED
    BY <1>1, <1>2, <2>2 DEF Promise!serviceVars, Server, Outcome
<1> QED
  BY <1>4, <1>5, <1>6, <1>7 DEF ServeStep

(* The steps of the goroutines that shut down: only the first of each is    *)
(* seen.                                                                    *)
LEMMA ShutdownStepMaps ==
  ASSUME PromiseInv, NEW s \in Servers, ShutdownStep(s)
  PROVE  Mapped
<1> USE DEF Mapped, PromiseInv, LifecycleInv, startVars, groupVars, serverVars,
            shutVars, syncVars
<1>1. /\ UNCHANGED <<main, result, stopChan, serve, active, deadline>>
      /\ main = "wait"
  BY DEF ShutdownStep, BeginShutdown, Drained, StillBusy, PollAgain, GivesUp,
         ShutdownReturns, CheckShutdown, ReturnShutdown, ServersOK, TypeOK
<1>2. Stage' = Stage /\ Stage = "stopping" /\ Outcome' = Outcome
  BY <1>1 DEF Stage, Outcome
<1>3. CASE BeginShutdown(s)
  <2>1. /\ ~closing[s] /\ closing'[s] /\ serve[s] # "closed"
        /\ \A q \in Servers \ {s} : closing'[q] = closing[q]
    BY <1>3 DEF BeginShutdown, PromiseOK, TypeOK
  <2>2. Server' = [Server EXCEPT ![s] = ServerState(s)']
    BY <1>1, <2>1 DEF Server, ServerState
  <2>3. CASE serve[s] \in {"opening", "failing", "failed"}
    <3>1. ServerState(s)' = ServerState(s)
      BY <1>1, <2>1, <2>3 DEF ServerState
    <3>2. Server' = Server
      BY <2>2, <3>1 DEF Server
    <3> QED
      BY <1>1, <1>2, <3>2 DEF Promise!serviceVars, Server, Outcome
  <2>4. CASE serve[s] \notin {"opening", "failing", "failed"}
    <3>1. ServerState(s) \in {"new", "open"} /\ ServerState(s)' = "closed"
      BY <1>1, <2>1, <2>4 DEF ServerState, TypeOK
    <3>2. Promise!Close(s)
      BY <1>1, <1>2, <2>2, <3>1 DEF Promise!Close, Server, Outcome
    <3> QED
      BY <3>2 DEF Promise!ServiceNext
  <2> QED
    BY <2>3, <2>4
<1>4. CASE ~BeginShutdown(s)
  <2>1. UNCHANGED closing
    BY <1>4 DEF ShutdownStep, Drained, StillBusy, PollAgain, GivesUp,
                ShutdownReturns, CheckShutdown, ReturnShutdown
  <2> QED
    BY <1>1, <1>2, <2>1, SameServers DEF Promise!serviceVars, Server, Outcome
<1> QED
  BY <1>3, <1>4

(* Connections, signals, time and the group sync. *)
LEMMA OtherStepMaps ==
  ASSUME PromiseInv,
         \/ \E s \in Servers : ConnectionBusy(s) \/ ConnectionIdle(s)
         \/ DeadlinePasses \/ Ticks \/ TickerSync \/ SyncRunEnds \/ Signal
  PROVE  Mapped
<1> USE DEF Mapped, PromiseInv, LifecycleInv, startVars, groupVars, serverVars,
            shutVars, syncVars
<1>1. UNCHANGED <<main, result, serve, closing>>
  BY DEF ConnectionBusy, ConnectionIdle, DeadlinePasses, Ticks, TickerSync,
         SyncRunEnds, Signal
<1>2. /\ Stage' = Stage /\ (Stage = "stopped" <=> main = "returned")
      /\ Outcome' = Outcome /\ Server' = Server
  BY <1>1, SameServers DEF Stage, Outcome
<1>3. ASSUME NEW s \in Servers, ConnectionBusy(s)
      PROVE  Mapped
  <2>1. ServerState(s) = "open" /\ UNCHANGED <<stopChan, deadline>>
    BY <1>3 DEF ConnectionBusy, ServerState
  <2>2. Busy' = Busy \cup {s}
    BY <1>3, MaxActiveAssumption DEF ConnectionBusy, Busy, TypeOK
  <2>3. Promise!Use(s)
    BY <1>2, <2>1, <2>2 DEF Promise!Use, Server, Outcome, Busy
  <2> QED
    BY <2>3 DEF Promise!ServiceNext
<1>4. ASSUME NEW s \in Servers, ConnectionIdle(s)
      PROVE  Mapped
  <2>1. UNCHANGED <<stopChan, deadline>> /\ main # "returned"
    BY <1>4 DEF ConnectionIdle
  <2>2. \/ Busy' = Busy \ {s}
        \/ Busy' = Busy
    BY <1>4, MaxActiveAssumption DEF ConnectionIdle, Busy, TypeOK
  <2>3. CASE Busy' = Busy \ {s}
    <3>1. Promise!Finish(s)
      BY <1>2, <2>1, <2>3 DEF Promise!Finish, Server, Outcome, Busy
    <3> QED
      BY <3>1 DEF Promise!ServiceNext
  <2>4. CASE Busy' = Busy
    BY <1>2, <2>1, <2>4 DEF Promise!serviceVars, Server, Outcome, Busy
  <2> QED
    BY <2>2, <2>3, <2>4
<1>5. CASE DeadlinePasses
  <2>1. /\ Stage = "stopping" /\ ~deadline /\ deadline'
        /\ UNCHANGED <<stopChan, active>>
    BY <1>5 DEF DeadlinePasses, Stage
  <2>2. Promise!TimeIsUp
    BY <1>2, <1>5, <2>1 DEF DeadlinePasses, Promise!TimeIsUp, Server, Outcome
  <2> QED
    BY <2>2 DEF Promise!ServiceNext
<1>6. CASE Signal
  <2>1. main # "returned" /\ UNCHANGED <<deadline, active>>
    BY <1>6 DEF Signal
  <2>2. (stopChan' > 0) = TRUE
    BY <1>6 DEF Signal, TypeOK
  <2>3. Promise!Ask
    BY <1>2, <2>1, <2>2 DEF Promise!Ask, Server, Outcome
  <2> QED
    BY <2>3 DEF Promise!ServiceNext
<1>7. CASE Ticks \/ TickerSync \/ SyncRunEnds
  <2>1. UNCHANGED <<stopChan, deadline, active>>
    BY <1>7 DEF Ticks, TickerSync, SyncRunEnds
  <2> QED
    BY <1>2, <2>1 DEF Promise!serviceVars, Server, Outcome
<1> QED
  BY <1>3, <1>4, <1>5, <1>6, <1>7

(* Every step of Start. *)
LEMMA StepMaps ==
  PromiseInv /\ [Next]_vars => [Promise!ServiceNext]_(Promise!serviceVars)
<1> SUFFICES ASSUME PromiseInv, [Next]_vars PROVE Mapped
  BY DEF Mapped
<1>1. CASE UNCHANGED vars
  <2>1. Stage' = Stage /\ UNCHANGED <<main, result, stopChan, active, deadline>>
    BY <1>1 DEF vars, Stage
  <2>2. UNCHANGED <<serve, closing>>
    BY <1>1 DEF vars
  <2> QED
    BY <2>1, <2>2, SameServers DEF Mapped, Promise!serviceVars, Server
<1> QED
  BY <1>1, MainStepMaps, ServeStepMaps, ShutdownStepMaps, OtherStepMaps DEF Next

(* Nothing has been opened, asked or returned at first. *)
LEMMA InitMaps == Init => Promise!ServiceInit
BY DEF Init, Promise!ServiceInit, Stage, ServerState

(* Whatever its goroutines, contexts and the shared err do, Start stops     *)
(* only for a reason, closes its servers for good, abandons connections     *)
(* only when it had to and reports every broken server, for any number of   *)
(* connections (proxy.go:84-207).                                           *)
THEOREM ImplementsService == Spec => StopsInOrder
  BY InitMaps, StepMaps, PromiseInvariant, PTL
  DEF Spec, StopsInOrder, Promise!ServiceSafety
==============================================================================
