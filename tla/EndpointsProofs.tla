--------------------------- MODULE EndpointsProofs ---------------------------
(***************************************************************************)
(* Proofs about the tokens, the readiness and the forwarded headers of     *)
(* Endpoints, for any number of tokens, any requests with headers of any   *)
(* length and any rules.                                                   *)
(***************************************************************************)
EXTENDS Endpoints, LoopsProofs

(* The health client's token is not newer than that of the handlers, since  *)
(* New comes before Start.                                                  *)
TokensOK ==
  /\ pc = "serving" => healthToken <= kubernetesToken /\ kubernetesToken # 0
  /\ probe # "none" => pc = "serving"

(* A request on its way passed every check before the place where it is.    *)
PassedChecks ==
  /\ at # "idle" => pc = "serving" /\ request \in Requests
  /\ at \in {"oidc", "proxy", "upstream"} => ~(CorsEnabled /\ request.preflight)
  /\ at \in {"proxy", "upstream"} => /\ request.authorization # <<>>
                                     /\ Head(request.authorization) \in Accepted
  /\ at \in {"cors", "oidc", "proxy"} => sent = Nil

(* What was sent was rewritten with the token of the handlers that sent it, *)
(* for a request that passed every check, and went through the reverse      *)
(* proxy.                                                                   *)
SentOK ==
  sent # Nil =>
    /\ pc = "serving" /\ request \in Requests
    /\ \E groups \in SUBSET {"Group"} :
         sent = ReverseProxy(request, Rewrite(request, groups))
    /\ ~Impersonates(request.impersonates) /\ ~(CorsEnabled /\ request.preflight)
    /\ request.authorization # <<>> /\ Head(request.authorization) \in Accepted

IInv == TypeOK /\ TokensOK /\ PassedChecks /\ SentOK

(* StripWebSocketBearer leaves the protocols that carry no token, each as   *)
(* often and in the same order.                                             *)
LEMMA StripKeeps ==
  ASSUME EndpointsAssumption, NEW line \in Seq(Others \cup Bearers)
  PROVE  LET kept == {i \in DOMAIN line : line[i] \in Others}
             new == StripWebSocketBearer(line)
         IN /\ new \in Seq(Others) /\ Len(new) = Cardinality(kept)
            /\ \A i \in kept : new[Cardinality({j \in kept : j <= i})] = line[i]
<1> DEFINE T == Others \cup Bearers
           kept == {i \in DOMAIN line : line[i] \in Others}
<1>1. T \ Bearers = Others
  BY DEF EndpointsAssumption
<1>2. /\ DOMAIN line = 1 .. Len(line) /\ Len(line) \in Nat
      /\ \A i \in 1 .. Len(line) : line[i] \in Others <=> line[i] \notin Bearers
  BY DEF EndpointsAssumption
<1>3. /\ kept = Kept(line, Bearers, Len(line))
      /\ \A i \in kept : {j \in kept : j <= i} = Kept(line, Bearers, i)
  BY <1>2 DEF Kept
<1>4. /\ Without(line, Bearers) \in Seq(T \ Bearers)
      /\ Len(Without(line, Bearers)) = Cardinality(Kept(line, Bearers, Len(line)))
      /\ \A i \in 1 .. Len(line) :
           line[i] \notin Bearers =>
             Without(line, Bearers)[Cardinality(Kept(line, Bearers, i))] = line[i]
  <2>1. line \in Seq(T)
    OBVIOUS
  <2> HIDE DEF T, kept
  <2> QED
    BY <2>1, WithoutKeeps
<1> QED
  BY <1>1, <1>2, <1>3, <1>4 DEF StripWebSocketBearer

(* What is made of a request has the type of what is sent.                  *)
LEMMA RewriteType ==
  ASSUME EndpointsAssumption, NEW r \in Requests, kubernetesToken \in 1 .. MaxTokens
  PROVE  /\ \A groups \in SUBSET {"Group"} :
              ReverseProxy(r, Rewrite(r, groups)) \in SentType
         /\ Get(r.protocols) \in Seq(Others \cup Bearers)
<1>1. r.protocols \in Seq(Seq(Others \cup Bearers))
  BY DEF EndpointsAssumption, RequestType, Lines
<1>2. Get(r.protocols) \in Seq(Others \cup Bearers)
  BY <1>1 DEF Get
<1>3. StripWebSocketBearer(Get(r.protocols)) \in Seq(Others)
  BY <1>2, StripKeeps
<1>4. <<kubernetesToken>> \in Seq(ClientTokens \cup 1 .. MaxTokens)
  OBVIOUS
<1>5. <<StripWebSocketBearer(Get(r.protocols))>> \in Lines(Others)
  BY <1>3 DEF Lines
<1>6. ASSUME NEW groups \in SUBSET {"Group"}
      PROVE  ReverseProxy(r, Rewrite(r, groups)) \in SentType
  <2>1. r.impersonates \in SUBSET ImpersonationHeaders
    BY DEF EndpointsAssumption, RequestType
  <2>2. (r.impersonates \cup {"User"} \cup groups) \ r.connection
          \in SUBSET ImpersonationHeaders
    BY <2>1 DEF ImpersonationHeaders
  <2>3. <<>> \in Seq(ClientTokens \cup 1 .. MaxTokens) /\ <<>> \in Lines(Others)
    BY DEF Lines
  <2> QED
    BY <1>4, <1>5, <2>2, <2>3 DEF ReverseProxy, Rewrite, SentType
<1> QED
  BY <1>2, <1>6

(* The invariant holds when the process starts. *)
LEMMA InitIInv == EndpointsAssumption /\ Init => IInv
BY DEF EndpointsAssumption, Init, IInv, TypeOK, TokensOK, PassedChecks, SentOK

(* What was sent stays as it is while the request and the tokens of the     *)
(* process do.                                                              *)
LEMMA SentStays ==
  ASSUME SentOK, UNCHANGED <<process, request, sent>>
  PROVE  SentOK'
BY DEF SentOK, process, Rewrite, ReverseProxy

(* Every step keeps the invariant. *)
LEMMA NextIInv ==
  ASSUME EndpointsAssumption, IInv, [Next]_vars
  PROVE  IInv'
<1> USE DEF IInv, TypeOK, TokensOK, PassedChecks, tokens, process, path, probes
<1>0. MaxTokens \in Nat
  BY DEF EndpointsAssumption
<1>1. CASE NewHealthClient
  BY <1>0, <1>1 DEF NewHealthClient, SentOK
<1>2. CASE NewHandlers
  BY <1>0, <1>2 DEF NewHandlers, SentOK
<1>3. CASE Restart
  BY <1>0, <1>3 DEF Restart, SentOK
<1>4. CASE Renew
  BY <1>0, <1>4, SentStays DEF Renew
<1>5. CASE Expire
  BY <1>0, <1>5, SentStays DEF Expire
<1>6. ASSUME NEW granted \in SUBSET Rules, Grant(granted) PROVE IInv'
  BY <1>0, <1>6, SentStays DEF Grant
<1>7. ASSUME NEW r \in Requests, Receive(r) PROVE IInv'
  BY <1>0, <1>7 DEF Receive, SentOK
<1>8. CASE Middleware
  BY <1>0, <1>8, SentStays DEF Middleware, GoTo
<1>9. CASE CheckToken
  BY <1>0, <1>9, SentStays DEF CheckToken, GoTo
<1>10. CASE Refuse \/ Answer
  BY <1>0, <1>10, SentStays DEF Refuse, Answer, GoTo
<1>11. CASE Forward
  <2>1. PICK groups \in SUBSET {"Group"} :
          sent' = ReverseProxy(request, Rewrite(request, groups))
    BY <1>11 DEF Forward
  <2>4. /\ request \in Requests /\ pc = "serving"
        /\ UNCHANGED <<process, request>> /\ ~Impersonates(request.impersonates)
    BY <1>11 DEF Forward
  <2>2. sent' \in SentType
    BY <1>0, <2>1, <2>4, RewriteType
  <2>3. SentOK'
    BY <1>11, <2>1, <2>4 DEF Forward, SentOK, Rewrite, ReverseProxy
  <2> QED
    BY <1>0, <1>11, <2>2, <2>3 DEF Forward
<1>12. ASSUME NEW endpoint \in {"readyz", "healthz"}, Probe(endpoint) PROVE IInv'
  BY <1>0, <1>12, SentStays DEF Probe
<1>13. CASE Ready
  BY <1>0, <1>13, SentStays DEF Ready, ProbeAnswered
<1>14. CASE Live
  BY <1>0, <1>14, SentStays DEF Live, ProbeAnswered
<1>15. CASE UNCHANGED vars
  BY <1>0, <1>15, SentStays DEF vars
<1> QED
  BY <1>1, <1>2, <1>3, <1>4, <1>5, <1>6, <1>7, <1>8, <1>9, <1>10, <1>11, <1>12, <1>13, <1>14,
     <1>15 DEF Next

(* The order in which the tokens are read, and what was checked before a    *)
(* request is sent, hold in every reachable state.                          *)
THEOREM Invariant == Spec => []IInv
<1>1. Init => IInv
  BY InitIInv, EndpointsAssumption
<1>2. IInv /\ [Next]_vars => IInv'
  BY NextIInv, EndpointsAssumption
<1> QED
  BY <1>1, <1>2, PTL DEF Spec

(* The two tokens are read at different times from a file that changes, and *)
(* may expire one without the other; an ok of /readyz still speaks for the  *)
(* token that requests are forwarded with.                                  *)
THEOREM ReadinessIsMeant == Spec => ReadyMeansAccepted
<1> DEFINE Answered == probe = "readyz" /\ probe' = "none" /\ health'["readyz"] = "ok"
<1>1. ASSUME IInv, Next, Answered PROVE Ready
  <2>1. ~Restart
    BY <1>1 DEF Restart, IInv, TypeOK, TokensOK
  <2>2. CASE UNCHANGED probe
    BY <1>1, <2>2
  <2>3. CASE \E endpoint \in {"readyz", "healthz"} : Probe(endpoint)
    BY <1>1, <2>3 DEF Probe
  <2>4. CASE Live
    BY <1>1, <2>4 DEF Live, ProbeAnswered
  <2> QED
    BY <1>1, <2>1, <2>2, <2>3, <2>4
    DEF Next, NewHealthClient, NewHandlers, Renew, Expire, Grant, Receive, Middleware,
        CheckToken, Refuse, Forward, Answer, GoTo, probes
<1>2. ASSUME IInv, Ready, Answered PROVE kubernetesToken > expired
  <2>1. PICK reached \in BOOLEAN :
          ProbeAnswered("readyz",
            /\ reached /\ healthToken > expired
            /\ \E rule \in rules : /\ "impersonate" \in rule.verbs
                                   /\ {"users", "groups", "serviceaccounts"} \subseteq rule.resources)
    BY <1>2 DEF Ready
  <2>2. healthToken > expired
    BY <1>2, <2>1 DEF ProbeAnswered, IInv, TypeOK, TokensOK
  <2> QED
    BY <1>2, <2>2 DEF IInv, TypeOK, TokensOK
<1>3. IInv /\ [Next]_vars => [Answered => kubernetesToken > expired]_vars
  BY <1>1, <1>2
<1> QED
  BY <1>3, Invariant, PTL DEF Spec, ReadyMeansAccepted

(* Every variable has its type, and what is sent has no protocol with a     *)
(* token in it.                                                             *)
THEOREM TypeCorrect == Spec => []TypeOK
<1>1. IInv => TypeOK
  BY DEF IInv
<1> QED
  BY <1>1, Invariant, PTL

(* Kubernetes is offered exactly the protocols of the first header line     *)
(* that carry no token, for header lines of every length, unless Connection *)
(* names the header.                                                        *)
THEOREM ProtocolsAreKept == Spec => []ProtocolsKept
<1>1. ASSUME IInv PROVE ProtocolsKept
  <2> SUFFICES ASSUME sent # Nil, "Protocol" \notin request.connection
               PROVE  ProtocolsKept
    BY DEF ProtocolsKept
  <2> DEFINE line == Get(request.protocols)
             new == StripWebSocketBearer(line)
  <2>1. request \in Requests /\ kubernetesToken \in 1 .. MaxTokens
    BY <1>1, EndpointsAssumption DEF IInv, TypeOK, TokensOK, SentOK, EndpointsAssumption
  <2>2. line \in Seq(Others \cup Bearers)
    BY <2>1, RewriteType, EndpointsAssumption
  <2>3. LET kept == {i \in DOMAIN line : line[i] \in Others}
        IN /\ Len(new) = Cardinality(kept)
           /\ \A i \in kept : new[Cardinality({j \in kept : j <= i})] = line[i]
    BY <2>2, StripKeeps, EndpointsAssumption
  <2>4. sent.protocols = <<new>>
    BY <1>1 DEF IInv, SentOK, Rewrite, ReverseProxy
  <2> DEFINE old == IF request.protocols = <<>> THEN <<>> ELSE request.protocols[1]
  <2>5. line = old
    BY <2>1, EndpointsAssumption DEF Get, EndpointsAssumption, RequestType, Lines
  <2>6. Len(sent.protocols) = 1 /\ sent.protocols[1] = new
    BY <2>4
  <2> HIDE DEF line, new, old
  <2>7. LET kept == {i \in DOMAIN old : old[i] \in Others}
        IN /\ Len(sent.protocols[1]) = Cardinality(kept)
           /\ \A i \in kept : sent.protocols[1][Cardinality({j \in kept : j <= i})] = old[i]
    BY <2>3, <2>5, <2>6
  <2> QED
    BY <2>6, <2>7 DEF ProtocolsKept, old
<1> QED
  BY <1>1, Invariant, PTL
==============================================================================
