------------------------------- MODULE Endpoints -------------------------------
(***************************************************************************)
(* The proxy's two listeners around one request and one probe: the way of  *)
(* a request through CORS, OIDC, the header rewriting of handler.proxy and *)
(* the reverse proxy to Kubernetes, /readyz and /healthz, and the service  *)
(* account token that New and Start read from a file which Kubernetes      *)
(* renews.  Who the user of a request is, is the subject of ProxyHandler.  *)
(***************************************************************************)
EXTENDS Naturals, SequencesExt, Loops, Headers

CONSTANTS
  CorsEnabled,   \* cfg.CorsEnabled
  Requests,      \* what clients may send
  Accepted,      \* the clients' tokens that pass the OIDC middleware
  Rejected,      \* and those that do not
  Bearers,       \* WebSocket protocols that carry a token
  Others,        \* all other WebSocket protocols
  Rules,         \* RBAC rules the proxy may be granted: verbs and resources
  Nil,           \* no request
  MaxTokens      \* bound: service account tokens Kubernetes issues

ClientTokens == Accepted \cup Rejected
Lines(S) == Seq(Seq(S))

(* The headers that are modelled, by the names a Connection header may name *)
(* them; a Connection header asks a proxy not to pass them on.              *)
HeaderNames == {"Authorization", "Protocol"} \cup ImpersonationHeaders

(* A header that is sent several times has several lines; of the            *)
(* impersonation headers, it matters only which there are.                  *)
RequestType == [preflight : BOOLEAN, connection : SUBSET HeaderNames,
                impersonates : SUBSET ImpersonationHeaders,
                authorization : Seq(ClientTokens), protocols : Lines(Others \cup Bearers)]
SentType == [impersonates : SUBSET ImpersonationHeaders,
             authorization : Seq(ClientTokens \cup 1 .. MaxTokens), protocols : Lines(Others)]

ASSUME EndpointsAssumption ==
  /\ CorsEnabled \in BOOLEAN /\ MaxTokens \in Nat \ {0}
  /\ Requests \subseteq RequestType /\ Nil \notin Requests
  /\ Accepted \cap Rejected = {} /\ Bearers \cap Others = {}
  /\ \A rule \in Rules : DOMAIN rule = {"verbs", "resources"}

VARIABLES
  pc,               \* how far the process has started
  issued,           \* the newest token, the one in the file
  expired,          \* Kubernetes accepts the tokens after this one
  healthToken,      \* the token of the health client
  kubernetesToken,  \* the token of the handlers
  rules,            \* what RBAC grants the proxy
  at,               \* where the request is
  request,          \* the request
  sent,             \* what Kubernetes was sent for it
  probe,            \* the probe under way
  health            \* the answers of /readyz and /healthz

tokens == <<issued, expired>>
process == <<pc, healthToken, kubernetesToken>>
path == <<at, request, sent>>
probes == <<probe, health>>
vars == <<pc, issued, expired, healthToken, kubernetesToken, rules, at, request, sent,
          probe, health>>

TypeOK ==
  /\ pc \in {"main", "created", "serving"}
  /\ issued \in 1 .. MaxTokens /\ expired \in 0 .. issued - 1
  /\ healthToken \in 0 .. issued /\ kubernetesToken \in 0 .. issued
  /\ rules \subseteq Rules
  /\ at \in {"idle", "cors", "oidc", "proxy", "upstream"}
  /\ request \in Requests \cup {Nil} /\ sent \in SentType \cup {Nil}
  /\ probe \in {"none", "readyz", "healthz"}
  /\ health \in [{"readyz", "healthz"} -> {"unknown", "ok", "error"}]

Init ==
  /\ pc = "main" /\ issued = 1 /\ expired = 0 /\ healthToken = 0 /\ kubernetesToken = 0
  /\ rules \in SUBSET Rules /\ at = "idle" /\ request = Nil /\ sent = Nil
  /\ probe = "none" /\ health = [p \in {"readyz", "healthz"} |-> "unknown"]

(* New: newHealthClient reads the token. *)
NewHealthClient ==
  /\ pc = "main" /\ pc' = "created" /\ healthToken' = issued
  /\ UNCHANGED <<tokens, kubernetesToken, rules, path, probes>>

(* Start, after the first group sync: newHandlers reads the token again.    *)
NewHandlers ==
  /\ pc = "created" /\ pc' = "serving" /\ kubernetesToken' = issued
  /\ UNCHANGED <<tokens, healthToken, rules, path, probes>>

(* The kubelet starts the container again, after a failed /healthz or a     *)
(* crash.                                                                   *)
Restart ==
  /\ pc' = "main" /\ healthToken' = 0 /\ kubernetesToken' = 0
  /\ at' = "idle" /\ request' = Nil /\ sent' = Nil
  /\ probe' = "none" /\ health' = [p \in DOMAIN health |-> "unknown"]
  /\ UNCHANGED <<tokens, rules>>

Renew ==
  /\ issued < MaxTokens /\ issued' = issued + 1
  /\ UNCHANGED <<process, expired, rules, path, probes>>

Expire ==
  /\ expired + 1 < issued /\ expired' = expired + 1
  /\ UNCHANGED <<process, issued, rules, path, probes>>

Grant(granted) ==
  /\ rules' = granted
  /\ UNCHANGED <<process, tokens, path, probes>>

Receive(r) ==
  /\ pc = "serving" /\ at = "idle"
  /\ at' = "cors" /\ request' = r /\ sent' = Nil
  /\ UNCHANGED <<process, tokens, rules, probes>>

GoTo(place) == at' = place /\ UNCHANGED <<process, tokens, rules, request, sent, probes>>

(* rs/cors answers a preflight request itself and passes any other on,      *)
(* whatever its origin.                                                     *)
Middleware ==
  at = "cors" /\ GoTo(IF CorsEnabled /\ request.preflight THEN "idle" ELSE "oidc")

(* The OIDC middleware looks at the first Authorization header only.        *)
CheckToken ==
  /\ at = "oidc"
  /\ GoTo(IF request.authorization # <<>> /\ Head(request.authorization) \in Accepted
          THEN "proxy" ELSE "idle")

(* The user may not be resolved, or have too many groups. *)
Refuse == at = "proxy" /\ GoTo("idle")

(* Mutant: a header with more than one protocol is not split. *)
StripUnsplit(line) == IF Len(line) = 1 /\ line[1] \in Bearers THEN <<>> ELSE line

(* Mutant: everything up to the token is removed. *)
StripFromStart(line) ==
  LET found == {i \in DOMAIN line : line[i] \in Bearers}
  IN IF found = {} THEN line ELSE SubSeq(line, Max(found) + 1, Len(line))

StripWebSocketBearer(line) == Without(line, Bearers)

(* Header.Get returns the first line of a header, "" if there is none, and  *)
(* Header.Del removes all of them.                                          *)
Get(lines) == IF lines = <<>> THEN <<>> ELSE Head(lines)

(* Mutant: the new Authorization header is added to the client's. *)
RewriteKeepingToken(r, groups) ==
  [impersonates |-> r.impersonates \cup {"User"} \cup groups,
   authorization |-> Append(r.authorization, kubernetesToken),
   protocols |-> <<StripWebSocketBearer(Get(r.protocols))>>]

(* What the handler makes of the headers, for a user with groups or none.   *)
Rewrite(r, groups) ==
  [impersonates |-> r.impersonates \cup {"User"} \cup groups,
   authorization |-> <<kubernetesToken>>,
   protocols |-> <<StripWebSocketBearer(Get(r.protocols))>>]

(* The reverse proxy then removes what the client's Connection header       *)
(* names, also when the handler has just set it.                            *)
ReverseProxy(r, headers) ==
  [impersonates |-> headers.impersonates \ r.connection,
   authorization |-> IF "Authorization" \in r.connection THEN <<>> ELSE headers.authorization,
   protocols |-> IF "Protocol" \in r.connection THEN <<>> ELSE headers.protocols]

Forward ==
  /\ at = "proxy" /\ ~Impersonates(request.impersonates)
  /\ at' = "upstream"
  /\ \E groups \in SUBSET {"Group"} : sent' = ReverseProxy(request, Rewrite(request, groups))
  /\ UNCHANGED <<process, tokens, rules, request, probes>>

(* Kubernetes answers, or handler.error does. *)
Answer == at = "upstream" /\ GoTo("idle")

Probe(endpoint) ==
  /\ pc = "serving" /\ probe = "none" /\ probe' = endpoint
  /\ UNCHANGED <<process, tokens, rules, path, health>>

ProbeAnswered(endpoint, ok) ==
  /\ probe = endpoint /\ probe' = "none"
  /\ health' = [health EXCEPT ![endpoint] = IF ok THEN "ok" ELSE "error"]
  /\ UNCHANGED <<process, tokens, rules, path>>

(* Mutant: the health client reads the token whenever it is asked. *)
ReadyWithTokenOfFile ==
  \E reached \in BOOLEAN :
    ProbeAnswered("readyz",
      /\ reached
      /\ \E rule \in rules : /\ "impersonate" \in rule.verbs
                             /\ {"users", "groups", "serviceaccounts"} \subseteq rule.resources)

(* health.ready: the SelfSubjectRulesReview with the health client's token  *)
(* succeeds and one of its rules has the verb and the resources the proxy   *)
(* needs.  A rule's apiGroups and resourceNames are not looked at: it may   *)
(* allow no more than to impersonate some users by name.                    *)
Ready ==
  \E reached \in BOOLEAN :
    ProbeAnswered("readyz",
      /\ reached /\ healthToken > expired
      /\ \E rule \in rules : /\ "impersonate" \in rule.verbs
                             /\ {"users", "groups", "serviceaccounts"} \subseteq rule.resources)

(* health.live: azure.valid asks the authorizer for a Graph token.          *)
Live ==
  \E token \in {"error", "invalid", "expired", "valid"} :
    ProbeAnswered("healthz", token = "valid")

Next ==
  \/ NewHealthClient \/ NewHandlers \/ Restart \/ Renew \/ Expire
  \/ \E granted \in SUBSET Rules : Grant(granted)
  \/ \E r \in Requests : Receive(r)
  \/ Middleware \/ CheckToken \/ Refuse \/ Forward \/ Answer
  \/ \E endpoint \in {"readyz", "healthz"} : Probe(endpoint)
  \/ Ready \/ Live

Spec == Init /\ [][Next]_vars
-----------------------------------------------------------------------------
(* However many Authorization headers a client sends, and whatever its      *)
(* Connection header names, Kubernetes sees no token of the client there.   *)
(* It sees the proxy's token and whom to impersonate, unless Connection     *)
(* names these headers, and of the client's own impersonation headers       *)
(* Impersonate-Uid at most; and all this only for a client whose first      *)
(* Authorization header is accepted (handlers.go:127-192).                  *)
NoClientToken ==
  sent # Nil =>
    /\ \A i \in DOMAIN sent.authorization : sent.authorization[i] \notin ClientTokens
    /\ request.connection = {} => /\ sent.authorization = <<kubernetesToken>>
                                 /\ "User" \in sent.impersonates
    /\ sent.impersonates \cap request.impersonates \subseteq {"Uid"}
    /\ request.authorization[1] \in Accepted

(* Kubernetes is offered the protocols of the first header line that carry  *)
(* no token, each as often and in the same order, and no others, unless the *)
(* client's Connection header names this header (util.go:119-137).          *)
ProtocolsKept ==
  sent # Nil /\ "Protocol" \notin request.connection =>
    LET old == IF request.protocols = <<>> THEN <<>> ELSE request.protocols[1]
        new == sent.protocols[1]
        kept == {i \in DOMAIN old : old[i] \in Others}
    IN /\ Len(sent.protocols) = 1 /\ Len(new) = Cardinality(kept)
       /\ \A i \in kept : new[Cardinality({j \in kept : j <= i})] = old[i]

(* Readiness is judged with a token that was read before the handlers' own, *)
(* from a file that is renewed meanwhile.  When /readyz answers ok, the     *)
(* handlers' token is nevertheless accepted (health.go:46, handlers.go:38). *)
ReadyMeansAccepted ==
  [][probe = "readyz" /\ probe' = "none" /\ health'["readyz"] = "ok" =>
       kubernetesToken > expired]_vars
==============================================================================
