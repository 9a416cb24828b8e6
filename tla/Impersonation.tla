---------------------------- MODULE Impersonation ----------------------------
(***************************************************************************)
(* What the proxy promises of every request it passes on, without its      *)
(* cache, its sync or Graph: between the arrival of a request and its      *)
(* forwarding the proxy decides once on an identity to impersonate, and    *)
(* that identity belongs to the request's own token, is within the group   *)
(* limit, and was true recently, both when the decision is taken and when  *)
(* the request leaves.  ProxyHandler implements it.                        *)
(***************************************************************************)
EXTENDS Claims, FiniteSets

CONSTANTS Requests, MaxGroupCount

VARIABLES
  status,    \* "idle", "received", "decided" or "upstream"
  token,     \* the token of the request
  imp,       \* the impersonation headers the client sent of its own
  identity   \* the identity decided on, until the request has left

requestVars == <<status, token, imp, identity>>

promiseVars == <<now, directoryVars, requestVars>>

(* The identity of the principal of t, under a name one of its tokens bore. *)
Owns(t, u) ==
  /\ u.ObjectID = t.oid
  /\ \E x \in Tokens : /\ Valid(x) /\ x.sub = t.sub
                       /\ u.Username = Username(x)
                       /\ u.Type = UserType(x)

(* Each of its groups was one of the principal's at most m ago, and bore a  *)
(* name with the prefix at most n ago.                                      *)
TrueWithin(u, m, n) ==
  \A group \in u.Groups :
    /\ group.Name \in PrefixedNames
    /\ now - LastMember(u.ObjectID, group.ObjectID) <= m
    /\ now - LastNamed(group.ObjectID, group.Name) <= n

PromiseInit ==
  /\ now = 0
  /\ DirectoryInit
  /\ status = [r \in Requests |-> "idle"]
  /\ token = [r \in Requests |-> Nil]
  /\ imp = [r \in Requests |-> {}]
  /\ identity = [r \in Requests |-> Nil]

Receive(r, t, headers) ==
  /\ status[r] = "idle"
  /\ status' = [status EXCEPT ![r] = "received"]
  /\ token' = [token EXCEPT ![r] = t]
  /\ imp' = [imp EXCEPT ![r] = headers]
  /\ UNCHANGED identity

(* A request may be refused until its identity is decided, never after. *)
Refuse(r) ==
  /\ status[r] = "received"
  /\ status' = [status EXCEPT ![r] = "idle"]
  /\ token' = [token EXCEPT ![r] = Nil]
  /\ imp' = [imp EXCEPT ![r] = {}]
  /\ UNCHANGED identity

Decide(r, u) ==
  /\ status[r] = "received"
  /\ Valid(token[r]) /\ ~Impersonates(imp[r])
  /\ Owns(token[r], u)
  /\ Cardinality(u.Groups) < MaxGroupCount
  /\ TrueWithin(u, SyncInterval + MaxLatency,
                   2 * SyncInterval + 2 * MaxLatency)
  /\ status' = [status EXCEPT ![r] = "decided"]
  /\ identity' = [identity EXCEPT ![r] = u]
  /\ UNCHANGED <<token, imp>>

(* The request leaves with the identity, which has aged by one handler run. *)
Send(r) ==
  /\ status[r] = "decided"
  /\ TrueWithin(identity[r], SyncInterval + 2 * MaxLatency,
                             2 * SyncInterval + 3 * MaxLatency)
  /\ status' = [status EXCEPT ![r] = "upstream"]
  /\ identity' = [identity EXCEPT ![r] = Nil]
  /\ UNCHANGED <<token, imp>>

Respond(r) ==
  /\ status[r] = "upstream"
  /\ status' = [status EXCEPT ![r] = "idle"]
  /\ token' = [token EXCEPT ![r] = Nil]
  /\ imp' = [imp EXCEPT ![r] = {}]
  /\ UNCHANGED identity

PromiseStep(r) ==
  \/ \E t \in Tokens, headers \in HeaderSets : Receive(r, t, headers)
  \/ Refuse(r)
  \/ \E u \in UserModel : Decide(r, u)
  \/ Send(r)
  \/ Respond(r)

WorldStep ==
  \/ DirectoryNext /\ UNCHANGED now
  \/ now' = now + 1 /\ UNCHANGED directoryVars

PromiseNext ==
  \/ (\E r \in Requests : PromiseStep(r)) /\ UNCHANGED <<now, directoryVars>>
  \/ WorldStep /\ UNCHANGED requestVars

PromiseSpec == PromiseInit /\ [][PromiseNext]_promiseVars
==============================================================================
