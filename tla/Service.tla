------------------------------- MODULE Service -------------------------------
(***************************************************************************)
(* What proxy.Start promises whoever runs it, without its goroutines, its  *)
(* errgroup and its contexts: it stops only when asked or when a server    *)
(* broke, it then closes every server for good and leaves connections in   *)
(* use only when it had to, it reports every broken server and no error    *)
(* without a reason, and it does come to an end.  ServerLifecycle          *)
(* implements it.                                                          *)
(***************************************************************************)
CONSTANT Servers

VARIABLES
  stage,    \* "starting", "running", "stopping" or "stopped"
  asked,    \* a signal has come that has not been acted on
  server,   \* of each server: "new", "open", "broken" or "closed"
  busy,     \* the servers with connections in use
  overdue,  \* the time to drain connections is over
  outcome   \* "none", then "nil" or "error"

serviceVars == <<stage, asked, server, busy, overdue, outcome>>

Broken == \E s \in Servers : server[s] = "broken"

ServiceInit ==
  /\ stage = "starting" /\ asked = FALSE
  /\ server = [s \in Servers |-> "new"]
  /\ busy = {} /\ overdue = FALSE /\ outcome = "none"

Ask ==
  /\ stage # "stopped"
  /\ asked' = TRUE
  /\ UNCHANGED <<stage, server, busy, overdue, outcome>>

(* Nothing has been opened when the start fails. *)
GiveUp ==
  /\ stage = "starting"
  /\ \A s \in Servers : server[s] = "new"
  /\ stage' = "stopped" /\ outcome' = "error"
  /\ UNCHANGED <<asked, server, busy, overdue>>

Started ==
  /\ stage = "starting"
  /\ stage' = "running"
  /\ UNCHANGED <<asked, server, busy, overdue, outcome>>

(* The signal acted on may not have been the only one. *)
BeginStop ==
  /\ stage = "running"
  /\ asked \/ Broken
  /\ stage' = "stopping"
  /\ asked' = FALSE \/ UNCHANGED asked
  /\ UNCHANGED <<server, busy, overdue, outcome>>

Open(s) ==
  /\ stage # "stopped"
  /\ server[s] = "new"
  /\ server' = [server EXCEPT ![s] = "open"]
  /\ UNCHANGED <<stage, asked, busy, overdue, outcome>>

Break(s) ==
  /\ stage # "stopped"
  /\ server[s] \in {"new", "open"}
  /\ server' = [server EXCEPT ![s] = "broken"]
  /\ UNCHANGED <<stage, asked, busy, overdue, outcome>>

(* Servers are closed only to stop, also one that has not opened yet. *)
Close(s) ==
  /\ stage = "stopping"
  /\ server[s] \in {"new", "open"}
  /\ server' = [server EXCEPT ![s] = "closed"]
  /\ UNCHANGED <<stage, asked, busy, overdue, outcome>>

Use(s) ==
  /\ server[s] = "open"
  /\ busy' = busy \cup {s}
  /\ UNCHANGED <<stage, asked, server, overdue, outcome>>

Finish(s) ==
  /\ stage # "stopped"
  /\ busy' = busy \ {s}
  /\ UNCHANGED <<stage, asked, server, overdue, outcome>>

TimeIsUp ==
  /\ stage = "stopping" /\ ~overdue
  /\ overdue' = TRUE
  /\ UNCHANGED <<stage, asked, server, busy, outcome>>

Stop(o) ==
  /\ stage = "stopping"
  /\ \A s \in Servers : server[s] \in {"broken", "closed"}
  /\ busy = {} \/ overdue \/ Broken
  /\ Broken => o = "error"
  /\ o = "error" => overdue \/ Broken
  /\ stage' = "stopped" /\ outcome' = o
  /\ UNCHANGED <<asked, server, busy, overdue>>

ServiceNext ==
  \/ Ask \/ GiveUp \/ Started \/ BeginStop \/ TimeIsUp
  \/ \E s \in Servers : Open(s) \/ Break(s) \/ Close(s) \/ Use(s) \/ Finish(s)
  \/ \E o \in {"nil", "error"} : Stop(o)

(* Once there is a reason to stop, the end comes without the help of        *)
(* clients: connections may stay in use for ever.                           *)
ServiceFairness ==
  /\ WF_serviceVars(BeginStop)
  /\ \A s \in Servers : WF_serviceVars(Close(s))
  /\ WF_serviceVars(TimeIsUp)
  /\ WF_serviceVars(\E o \in {"nil", "error"} : Stop(o))

ServiceSafety == ServiceInit /\ [][ServiceNext]_serviceVars

ServiceSpec == ServiceSafety /\ ServiceFairness
==============================================================================
