----------------------------- MODULE ProxyHandler -----------------------------
(***************************************************************************)
(* handler.proxy (handlers.go) serving concurrent requests beside the      *)
(* group synchronisation.  A request is authenticated by the OIDC          *)
(* middleware, its user is taken from the cache or resolved through Graph  *)
(* and the cached groups, and it is forwarded with impersonation headers.  *)
(*                                                                         *)
(* A request slot of Requests is one handler goroutine; it is reused once  *)
(* its request has been answered.                                          *)
(***************************************************************************)
EXTENDS GroupSync, Claims, FiniteSets

CONSTANTS
  Requests,        \* slots of concurrent requests
  MaxGroupCount,   \* cfg.AzureADMaxGroupCount
  GroupIdentifier  \* cfg.GroupIdentifier, checked by getGroupIdentifier

(* Users and groups share one map, whose values are type-asserted.          *)
ASSUME KeysAssumption == Subs \cap Groups = {} /\ Nil \notin Subs

ASSUME ConfigAssumption ==
  /\ MaxGroupCount \in Int
  /\ GroupIdentifier \in {"NAME", "OBJECTID"}

VARIABLES
  pc,       \* "idle", "arrived", "graph", "groups", "proxy" or "upstream"
  token,    \* the token a request carries
  imp,      \* the impersonation headers the client sent of its own
  started,  \* when the request arrived
  pending,  \* the groups of groupsResponse getGroups has not looked up yet
  user      \* the local variable user, Nil before it is assigned

handlerVars == <<pc, token, imp, started, pending, user>>

vars == <<allSyncVars, handlerVars>>

UserItem == [val : UserModel, exp : Int]

TypeOK ==
  /\ SyncTypeOK
  /\ DOMAIN cache \subseteq Groups \cup Subs
  /\ \A s \in Subs \cap DOMAIN cache : cache[s] \in UserItem
  /\ pc \in [Requests -> {"idle", "arrived", "graph", "groups", "proxy",
                          "upstream"}]
  /\ token \in [Requests -> Tokens \cup {Nil}]
  /\ imp \in [Requests -> SUBSET ImpersonationHeaders]
  /\ started \in [Requests -> Time]
  /\ pending \in [Requests -> SUBSET Groups]
  /\ user \in [Requests -> UserModel \cup {Nil}]

Init ==
  /\ SyncInit
  /\ pc = [r \in Requests |-> "idle"]
  /\ token = [r \in Requests |-> Nil]
  /\ imp = [r \in Requests |-> {}]
  /\ started = [r \in Requests |-> 0]
  /\ pending = [r \in Requests |-> {}]
  /\ user = [r \in Requests |-> Nil]
------------------------------------------------------------------------------
Admitted(r) == Valid(token[r])

(* The request is answered and its locals are gone. *)
Answer(r) ==
  /\ pc' = [pc EXCEPT ![r] = "idle"]
  /\ token' = [token EXCEPT ![r] = Nil]
  /\ imp' = [imp EXCEPT ![r] = {}]
  /\ started' = [started EXCEPT ![r] = 0]
  /\ pending' = [pending EXCEPT ![r] = {}]
  /\ user' = [user EXCEPT ![r] = Nil]

Arrive(r, t, headers) ==
  /\ phase = "serving"
  /\ pc[r] = "idle"
  /\ pc' = [pc EXCEPT ![r] = "arrived"]
  /\ token' = [token EXCEPT ![r] = t]
  /\ imp' = [imp EXCEPT ![r] = headers]
  /\ started' = [started EXCEPT ![r] = now]
  /\ UNCHANGED <<pending, user, cache>>

(* 401: the OIDC middleware or its claims validation refuses the token. *)
Unauthorized(r) ==
  /\ pc[r] = "arrived"
  /\ ~token[r].accepted
  /\ Answer(r)
  /\ UNCHANGED cache

(* 500: the sub or the oid claim is missing. *)
RejectClaims(r) ==
  /\ pc[r] = "arrived"
  /\ token[r].accepted /\ ~ClaimsOK(token[r])
  /\ Answer(r)
  /\ UNCHANGED cache

(* 403: the client sends impersonation headers, all kinds of them but one;  *)
(* checked after the cache lookup, whether or not it found the user.        *)
RejectImpersonation(r) ==
  /\ pc[r] = "arrived"
  /\ Admitted(r) /\ Impersonates(imp[r])
  /\ Answer(r)
  /\ UNCHANGED cache

(* Mutant: a hit renews the entry, a sliding expiration. *)
UseCachedUserAndRenew(r) ==
  /\ pc[r] = "arrived"
  /\ Admitted(r) /\ ~Impersonates(imp[r])
  /\ Found(token[r].sub)
  /\ user' = [user EXCEPT ![r] = Lookup(token[r].sub)]
  /\ cache' = Stored(token[r].sub, Lookup(token[r].sub))
  /\ pc' = [pc EXCEPT ![r] = "proxy"]
  /\ UNCHANGED <<token, imp, started, pending>>

(* Mutant: the headers are checked only when the lookup misses. *)
UseCachedUserUnchecked(r) ==
  /\ pc[r] = "arrived"
  /\ Admitted(r)
  /\ Found(token[r].sub)
  /\ user' = [user EXCEPT ![r] = Lookup(token[r].sub)]
  /\ pc' = [pc EXCEPT ![r] = "proxy"]
  /\ UNCHANGED <<token, imp, started, pending, cache>>

(* The lookup found the user. *)
UseCachedUser(r) ==
  /\ pc[r] = "arrived"
  /\ Admitted(r) /\ ~Impersonates(imp[r])
  /\ Found(token[r].sub)
  /\ user' = [user EXCEPT ![r] = Lookup(token[r].sub)]
  /\ pc' = [pc EXCEPT ![r] = "proxy"]
  /\ UNCHANGED <<token, imp, started, pending, cache>>

(* The lookup missed: getGroups sends ListGroupMemberships to Graph. *)
AskGraph(r) ==
  /\ pc[r] = "arrived"
  /\ Admitted(r) /\ ~Impersonates(imp[r])
  /\ ~Found(token[r].sub)
  /\ pc' = [pc EXCEPT ![r] = "graph"]
  /\ UNCHANGED <<token, imp, started, pending, user, cache>>

(* Mutant: the response is kept where concurrent requests overwrite it. *)
GraphAnswersShared(r) ==
  LET t == token[r] IN
  /\ pc[r] = "graph"
  /\ (t.oid \in ServicePrincipals) <=> (UserType(t) = "ServicePrincipal")
  /\ \E q \in Requests :
       /\ pc[q] = "graph"
       /\ pending' = [pending EXCEPT ![r] = Memberships(token[q].oid)]
  /\ user' = [user EXCEPT ![r] = [Username |-> Username(t), ObjectID |-> t.oid,
                                  Groups |-> {}, Type |-> UserType(t)]]
  /\ pc' = [pc EXCEPT ![r] = "groups"]
  /\ UNCHANGED <<token, imp, started, cache>>

(* Graph answers only at the endpoint of the principal's kind. *)
GraphAnswers(r) ==
  LET t == token[r] IN
  /\ pc[r] = "graph"
  /\ (t.oid \in ServicePrincipals) <=> (UserType(t) = "ServicePrincipal")
  /\ pending' = [pending EXCEPT ![r] = Memberships(t.oid)]
  /\ user' = [user EXCEPT ![r] = [Username |-> Username(t), ObjectID |-> t.oid,
                                  Groups |-> {}, Type |-> UserType(t)]]
  /\ pc' = [pc EXCEPT ![r] = "groups"]
  /\ UNCHANGED <<token, imp, started, cache>>

(* 403 "Unable to get user": Graph fails, or has no such principal there. *)
GraphFails(r) ==
  /\ pc[r] = "graph"
  /\ Answer(r)
  /\ UNCHANGED cache

(* One getGroup of the loop of getGroups: a group not in the cache is left  *)
(* out of the user.                                                         *)
LookupGroup(r, g) ==
  /\ pc[r] = "groups"
  /\ g \in pending[r]
  /\ pending' = [pending EXCEPT ![r] = @ \ {g}]
  /\ user' = IF Found(g)
               THEN [user EXCEPT ![r].Groups = @ \cup {Lookup(g)}]
               ELSE user
  /\ UNCHANGED <<pc, token, imp, started, cache>>

TooManyGroups(r) == Cardinality(user[r].Groups) > MaxGroupCount - 1

(* Mutant: the user is cached before its groups are counted. *)
RejectTooManyCached(r) ==
  /\ pc[r] = "groups" /\ pending[r] = {}
  /\ TooManyGroups(r)
  /\ Answer(r)
  /\ cache' = Stored(token[r].sub, user[r])

(* 403 "Too many groups". *)
RejectTooMany(r) ==
  /\ pc[r] = "groups" /\ pending[r] = {}
  /\ TooManyGroups(r)
  /\ Answer(r)
  /\ UNCHANGED cache

(* Mutant: the user is cached under the object id. *)
StoreUserByObjectID(r) ==
  /\ pc[r] = "groups" /\ pending[r] = {}
  /\ ~TooManyGroups(r)
  /\ cache' = Stored(token[r].oid, user[r])
  /\ pc' = [pc EXCEPT ![r] = "proxy"]
  /\ UNCHANGED <<token, imp, started, pending, user>>

(* Mutant: the claims are kept where concurrent requests overwrite them. *)
StoreUserShared(r) ==
  /\ pc[r] = "groups" /\ pending[r] = {}
  /\ ~TooManyGroups(r)
  /\ \E q \in Requests :
       /\ pc[q] # "idle" /\ Admitted(q)
       /\ cache' = Stored(token[q].sub, user[r])
  /\ pc' = [pc EXCEPT ![r] = "proxy"]
  /\ UNCHANGED <<token, imp, started, pending, user>>

(* setUser under the sub claim, then the headers are rewritten. *)
StoreUser(r) ==
  /\ pc[r] = "groups" /\ pending[r] = {}
  /\ ~TooManyGroups(r)
  /\ cache' = Stored(token[r].sub, user[r])
  /\ pc' = [pc EXCEPT ![r] = "proxy"]
  /\ UNCHANGED <<token, imp, started, pending, user>>

(* The Impersonate-Group headers of a request about to be forwarded. *)
ImpersonateGroups(r) ==
  {IF GroupIdentifier = "NAME" THEN group.Name ELSE group.ObjectID :
     group \in user[r].Groups}

(* p.ServeHTTP: the reverse proxy gets the request with its headers, and    *)
(* the handler no longer uses its user.                                     *)
Forward(r) ==
  /\ pc[r] = "proxy"
  /\ pc' = [pc EXCEPT ![r] = "upstream"]
  /\ started' = [started EXCEPT ![r] = 0]
  /\ user' = [user EXCEPT ![r] = Nil]
  /\ UNCHANGED <<token, imp, pending, cache>>

(* The response is copied to the client, or the error handler writes a 500. *)
UpstreamAnswers(r) ==
  /\ pc[r] = "upstream"
  /\ Answer(r)
  /\ UNCHANGED cache
------------------------------------------------------------------------------
HandlerStep(r) ==
  \/ \E t \in Tokens, headers \in HeaderSets : Arrive(r, t, headers)
  \/ Unauthorized(r)
  \/ RejectClaims(r)
  \/ RejectImpersonation(r)
  \/ UseCachedUser(r)
  \/ AskGraph(r)
  \/ GraphAnswers(r)
  \/ GraphFails(r)
  \/ \E g \in pending[r] : LookupGroup(r, g)
  \/ RejectTooMany(r)
  \/ StoreUser(r)
  \/ Forward(r)
  \/ UpstreamAnswers(r)

(* From its arrival until ServeHTTP a request takes at most MaxLatency. *)
Busy(r) == pc[r] \in {"arrived", "graph", "groups", "proxy"}

HandlersInTime == \A r \in Requests : Busy(r) => now < started[r] + MaxLatency

Next ==
  \/ (\E r \in Requests : HandlerStep(r))
       /\ UNCHANGED <<now, directoryVars, syncVars>>
  \/ (SyncStep \/ EnvironmentStep) /\ UNCHANGED handlerVars
  \/ HandlersInTime /\ SyncInTime /\ ClockAdvances /\ UNCHANGED handlerVars

Spec == Init /\ [][Next]_vars
------------------------------------------------------------------------------
(* A request is forwarded only with groups the principal was a member of    *)
(* at most one cache lifetime and two handler runs ago (handlers.go:120     *)
(* serves what handlers.go:153 cached), whatever was revoked meanwhile.     *)
MembershipBounded ==
  \A r \in Requests : pc[r] = "proxy" =>
    \A group \in user[r].Groups :
      now - LastMember(user[r].ObjectID, group.ObjectID)
        <= SyncInterval + 2 * MaxLatency

(* The two cache lifetimes add up: a forwarded user holds group names that  *)
(* were in force, with the prefix, at most two intervals and three runs ago *)
(* (azure_groups.go:51 caches the name, handlers.go:153 a user with it).    *)
NamesBounded ==
  \A r \in Requests : pc[r] = "proxy" =>
    \A group \in user[r].Groups :
      /\ group.Name \in PrefixedNames
      /\ now - LastNamed(group.ObjectID, group.Name)
           <= 2 * SyncInterval + 3 * MaxLatency

(* No request is forwarded with MaxGroupCount groups or more, and no user   *)
(* with so many is ever cached, where no check would be made of it again    *)
(* (handlers.go:137-158).  MaxGroupCount is the first number the code       *)
(* refuses, as in handlers_test.go:417-429, while the comment at            *)
(* handlers.go:146 says "more than the configured limit".                   *)
GroupLimit ==
  /\ \A r \in Requests : pc[r] = "proxy" =>
       Cardinality(ImpersonateGroups(r)) < MaxGroupCount
  /\ \A s \in Subs : Found(s) =>
       Cardinality(Lookup(s).Groups) < MaxGroupCount

(* What a request impersonates belongs to the principal of its own token,   *)
(* under a username an accepted token of that principal carried, however    *)
(* the requests of several principals interleave on the shared cache.       *)
OwnIdentity ==
  \A r \in Requests : pc[r] = "proxy" =>
    /\ user[r].ObjectID = token[r].oid
    /\ \E t \in Tokens :
         /\ Valid(t) /\ t.sub = token[r].sub
         /\ user[r].Username = Username(t)
         /\ user[r].Type = UserType(t)

(* Only an authenticated request that brought no user, group or extra of    *)
(* its own to impersonate reaches Graph, the cached user or the reverse     *)
(* proxy (handlers.go:127-134); an Impersonate-Uid header does not stop it. *)
ImpersonationRefused ==
  \A r \in Requests : pc[r] \in {"graph", "groups", "proxy", "upstream"} =>
    Admitted(r) /\ ~Impersonates(imp[r])

(* A resolution between two syncs the last of which succeeded leaves out no *)
(* group of the principal that was listed: the caches of groups and of      *)
(* users, with the same lifetime, do not run dry under a resolution that    *)
(* meets an entry renewed a whole interval ago (azure_user.go:37).          *)
ListedGroupsKept ==
  [][\A r \in Requests, group \in listed :
       (/\ LookupGroup(r, group.ObjectID)
        /\ phase = "serving" /\ ~SyncRunning /\ ~tickPending /\ lastSyncOK)
         => group \in user'[r].Groups]_vars

(* How far a request is, for one who sees neither cache nor Graph. *)
PromisedStatus(r) ==
  CASE pc[r] \in {"arrived", "graph", "groups"} -> "received"
    [] pc[r] = "proxy" -> "decided"
    [] OTHER -> pc[r]

(* What the proxy promises of the requests it forwards. *)
Promise == INSTANCE Impersonation WITH
  status <- [r \in Requests |-> PromisedStatus(r)],
  identity <- [r \in Requests |-> IF pc[r] = "proxy" THEN user[r] ELSE Nil]

(* The handler implements that promise: whatever the cache, the sync, Graph *)
(* and other requests do in between, a request is decided on once, with an  *)
(* identity of its own token that was true recently, is never refused after *)
(* it, and leaves with that identity before it is out of date               *)
(* (handlers.go:107-194).                                                   *)
ForwardsAsPromised == Promise!PromiseSpec
==============================================================================
