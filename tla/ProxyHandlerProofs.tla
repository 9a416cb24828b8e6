-------------------------- MODULE ProxyHandlerProofs --------------------------
(***************************************************************************)
(* Proofs about ProxyHandler, for any number of concurrent requests, every *)
(* set of tokens, groups and principals, and every interval and latency:   *)
(* type correctness, the bounds on how stale a forwarded user may be,      *)
(* whose identity a request carries, and that Impersonation is implemented. *)
(***************************************************************************)
EXTENDS ProxyHandler, GroupSyncProofs, FiniteSetTheorems

(* Every group of u was a group of its principal at m or later, under a     *)
(* name with the prefix that was in force at n or later.                    *)
FreshUser(u, m, n) ==
  \A group \in u.Groups :
    /\ group.Name \in PrefixedNames
    /\ LastMember(u.ObjectID, group.ObjectID) >= m
    /\ LastNamed(group.ObjectID, group.Name) >= n

(* u was resolved for a valid token with the sub claim s. *)
BelongsTo(u, s) ==
  \E t \in Tokens :
    /\ Valid(t) /\ t.sub = s
    /\ u.ObjectID = t.oid
    /\ u.Username = Username(t)
    /\ u.Type = UserType(t)

WithinLimit(u) ==
  IsFiniteSet(u.Groups) /\ Cardinality(u.Groups) < MaxGroupCount

(* A cached user was resolved within one handler run of being stored, from  *)
(* cached names.                                                            *)
CachedUsersOK ==
  \A s \in Subs \cap DOMAIN cache :
    /\ FreshUser(cache[s].val,
                 cache[s].exp - SyncInterval - MaxLatency,
                 cache[s].exp - 2 * SyncInterval - 2 * MaxLatency)
    /\ BelongsTo(cache[s].val, s)
    /\ WithinLimit(cache[s].val)

(* A request keeps to its latency. *)
RequestInTime(r) ==
  /\ started[r] <= now
  /\ Busy(r) => now <= started[r] + MaxLatency

(* Past the header check a request is authenticated and without headers of  *)
(* its own.                                                                 *)
RequestChecked(r) ==
  /\ pc[r] # "idle" => token[r] \in Tokens
  /\ pc[r] \in {"graph", "groups", "proxy", "upstream"} =>
       Valid(token[r]) /\ ~Impersonates(imp[r])

(* A user being resolved: what Graph answered is from this request. *)
ResolvingOK(r) ==
  pc[r] = "groups" =>
    /\ user[r] \in UserModel
    /\ BelongsTo(user[r], token[r].sub)
    /\ IsFiniteSet(user[r].Groups)
    /\ FreshUser(user[r], started[r], started[r] - SyncInterval - MaxLatency)
    /\ \A g \in pending[r] : LastMember(user[r].ObjectID, g) >= started[r]

(* A user about to be forwarded, from the cache or just resolved. *)
ResolvedOK(r) ==
  pc[r] = "proxy" =>
    /\ user[r] \in UserModel
    /\ BelongsTo(user[r], token[r].sub)
    /\ WithinLimit(user[r])
    /\ FreshUser(user[r], started[r] - SyncInterval - MaxLatency,
                 started[r] - 2 * SyncInterval - 2 * MaxLatency)

RequestOK(r) ==
  RequestInTime(r) /\ RequestChecked(r) /\ ResolvingOK(r) /\ ResolvedOK(r)

HandlerInv == CachedUsersOK /\ \A r \in Requests : RequestOK(r)

Inv == TypeOK /\ SyncInv /\ HandlerInv
------------------------------------------------------------------------------
(* Two keys of the shared map never meet. *)
LEMMA KeysDisjoint == \A s \in Subs : s \notin Groups /\ s # Nil
BY KeysAssumption

(* The claims of a valid token. *)
LEMMA ValidClaims ==
  ASSUME NEW t \in Tokens, Valid(t)
  PROVE  /\ t.sub \in Subs /\ t.oid \in Principals
         /\ Username(t) \in Usernames \cup Principals
         /\ UserType(t) \in {"NormalUser", "ServicePrincipal"}
BY TokensAssumption DEF Valid, ClaimsOK, Username, UserType

(* Nothing is cached or under way in the initial state. *)
LEMMA InitInv == Init => Inv
<1> SUFFICES ASSUME Init PROVE Inv
  OBVIOUS
<1>1. SyncInv
  BY SyncInitInv DEF Init
<1>2. cache = [k \in {} |-> Nil] /\ now = 0
  BY DEF Init, SyncInit
<1>3. TypeOK
  BY <1>1, <1>2 DEF Init, TypeOK, SyncInv, Time
<1>4. HandlerInv
  BY <1>2, ClockConstants
  DEF Init, HandlerInv, CachedUsersOK, RequestOK, RequestInTime,
      RequestChecked, ResolvingOK, ResolvedOK, Busy
<1> QED
  BY <1>1, <1>3, <1>4 DEF Inv
------------------------------------------------------------------------------
(* The steps of the sync, of the directory and of the clock.                *)

(* They change no entry of a user, except for taking it away. *)
LEMMA SyncKeepsUsers ==
  ASSUME TypeOK, SyncNext
  PROVE  \A k \in DOMAIN cache' :
           k \notin Groups => k \in DOMAIN cache /\ cache'[k] = cache[k]
<1>1. ASSUME NEW group \in toStore, StoreGroup(group)
      PROVE  \A k \in DOMAIN cache' :
               k \notin Groups => k \in DOMAIN cache /\ cache'[k] = cache[k]
  BY <1>1 DEF StoreGroup, Stored, TypeOK, SyncTypeOK, GroupModel
<1>2. CASE DeleteExpired
  BY <1>2 DEF DeleteExpired
<1> QED
  BY <1>1, <1>2
  DEF SyncNext, SyncStep, EnvironmentStep, ListGroups, ListGroupsFails,
      SyncDone, TickerSync, ClockAdvances

(* No key appears in the map but a group's. *)
LEMMA SyncKeys ==
  ASSUME TypeOK, SyncNext
  PROVE  DOMAIN cache' \subseteq Groups \cup Subs
BY SyncKeepsUsers DEF TypeOK

(* Every variable keeps its type. *)
LEMMA SyncKeepsTypes ==
  ASSUME TypeOK, SyncNext, UNCHANGED handlerVars
  PROVE  TypeOK'
<1>1. SyncTypeOK'
  BY SyncTypes DEF TypeOK
<1>2. \A s \in Subs \cap DOMAIN cache' : cache'[s] \in UserItem
  BY SyncKeepsUsers, KeysDisjoint DEF TypeOK
<1> QED
  BY <1>1, <1>2, SyncKeys DEF TypeOK, handlerVars

(* The last moments after the step, for groups and principals of before it. *)
LastNamedNext(g, n) == IF displayName'[g] = n THEN now' ELSE namedUntil'[g][n]

LastMemberNext(p, g) == IF g \in memberOf'[p] THEN now' ELSE memberUntil'[p][g]

FreshNext(u, m, n) ==
  \A group \in u.Groups :
    /\ group.Name \in PrefixedNames
    /\ LastMemberNext(u.ObjectID, group.ObjectID) >= m
    /\ LastNamedNext(group.ObjectID, group.Name) >= n

(* A user that was fresh enough stays so, since withdrawals only add to the *)
(* past.                                                                    *)
LEMMA FreshStays ==
  ASSUME TypeOK, SyncInv, SyncNext
  PROVE  /\ \A u \in UserModel, m, n \in Int :
              FreshUser(u, m, n) => FreshNext(u, m, n)
         /\ \A p \in Principals, g \in Groups :
              /\ LastMember(p, g) \in Int /\ LastMemberNext(p, g) \in Int
              /\ LastMemberNext(p, g) >= LastMember(p, g)
<1>1. \A g \in Groups, n \in Names :
        /\ LastNamed(g, n) \in Int /\ LastNamedNext(g, n) \in Int
        /\ LastNamedNext(g, n) >= LastNamed(g, n)
  BY LastNeverMovesBack, SyncTypes
  DEF SyncInv, SyncTypeOK, DirectoryTypeOK, LastNamed, LastNamedNext, Time
<1>2. \A p \in Principals, g \in Groups :
        /\ LastMember(p, g) \in Int /\ LastMemberNext(p, g) \in Int
        /\ LastMemberNext(p, g) >= LastMember(p, g)
  BY LastNeverMovesBack, SyncTypes
  DEF SyncInv, SyncTypeOK, DirectoryTypeOK, LastMember, LastMemberNext, Time
<1>3. ASSUME NEW u \in UserModel, NEW m \in Int, NEW n \in Int,
             FreshUser(u, m, n)
      PROVE  FreshNext(u, m, n)
  <2> SUFFICES ASSUME NEW group \in u.Groups
               PROVE  /\ group.Name \in PrefixedNames
                      /\ LastMemberNext(u.ObjectID, group.ObjectID) >= m
                      /\ LastNamedNext(group.ObjectID, group.Name) >= n
    BY DEF FreshNext
  <2>1. /\ group.Name \in Names /\ group.ObjectID \in Groups
        /\ u.ObjectID \in Principals
    BY DEF UserModel, GroupModel
  <2>2. /\ group.Name \in PrefixedNames
        /\ LastMember(u.ObjectID, group.ObjectID) >= m
        /\ LastNamed(group.ObjectID, group.Name) >= n
    BY <1>3 DEF FreshUser
  <2> QED
    BY <1>1, <1>2, <2>1, <2>2
<1> QED
  BY <1>2, <1>3

(* A cached user stays as fresh as its expiration says. *)
LEMMA SyncKeepsCachedUsers ==
  ASSUME TypeOK, SyncInv, CachedUsersOK, SyncNext
  PROVE  CachedUsersOK'
<1> SUFFICES ASSUME NEW s \in Subs \cap DOMAIN cache'
             PROVE  /\ FreshNext(cache'[s].val,
                         cache'[s].exp - SyncInterval - MaxLatency,
                         cache'[s].exp - 2 * SyncInterval - 2 * MaxLatency)
                    /\ BelongsTo(cache'[s].val, s)
                    /\ WithinLimit(cache'[s].val)
  BY DEF CachedUsersOK, FreshUser, FreshNext, BelongsTo, WithinLimit,
         LastNamed, LastMember, LastNamedNext, LastMemberNext
<1>1. s \in DOMAIN cache /\ cache'[s] = cache[s]
  BY SyncKeepsUsers, KeysDisjoint
<1>2. /\ cache[s].val \in UserModel
      /\ cache[s].exp - SyncInterval - MaxLatency \in Int
      /\ cache[s].exp - 2 * SyncInterval - 2 * MaxLatency \in Int
  BY <1>1, ClockConstants DEF TypeOK, UserItem
<1> QED
  BY <1>1, <1>2, FreshStays DEF CachedUsersOK

(* A request stays in order while others act. *)
LEMMA SyncKeepsRequests ==
  ASSUME Inv, SyncNext, UNCHANGED handlerVars,
         now' = now \/ (HandlersInTime /\ now' = now + 1),
         NEW r \in Requests
  PROVE  RequestOK(r)'
<1> USE ClockConstants
<1>1. /\ started[r] \in Int /\ now \in Int /\ RequestOK(r)
      /\ TypeOK /\ SyncInv
  BY DEF Inv, TypeOK, SyncTypeOK, HandlerInv, Time
<1>2. RequestInTime(r)'
  BY <1>1 DEF RequestOK, RequestInTime, HandlersInTime, Busy, handlerVars
<1>3. RequestChecked(r)'
  BY <1>1 DEF RequestOK, RequestChecked, handlerVars
<1>4. ResolvingOK(r)'
  <2> SUFFICES ASSUME pc[r] = "groups"
               PROVE  /\ user[r] \in UserModel
                      /\ BelongsTo(user[r], token[r].sub)
                      /\ IsFiniteSet(user[r].Groups)
                      /\ FreshNext(user[r], started[r],
                                   started[r] - SyncInterval - MaxLatency)
                      /\ \A g \in pending[r] :
                           LastMemberNext(user[r].ObjectID, g) >= started[r]
    BY DEF ResolvingOK, FreshUser, FreshNext, BelongsTo, LastNamed, LastMember,
           LastNamedNext, LastMemberNext, handlerVars
  <2>1. /\ user[r] \in UserModel /\ user[r].ObjectID \in Principals
        /\ BelongsTo(user[r], token[r].sub)
        /\ IsFiniteSet(user[r].Groups)
        /\ FreshUser(user[r], started[r], started[r] - SyncInterval - MaxLatency)
        /\ \A g \in pending[r] : g \in Groups
                                 /\ LastMember(user[r].ObjectID, g) >= started[r]
    BY <1>1 DEF RequestOK, ResolvingOK, UserModel, TypeOK
  <2>2. FreshNext(user[r], started[r], started[r] - SyncInterval - MaxLatency)
    BY <1>1, <2>1, FreshStays
  <2>3. \A g \in pending[r] : LastMemberNext(user[r].ObjectID, g) >= started[r]
    BY <1>1, <2>1, FreshStays
  <2> QED
    BY <2>1, <2>2, <2>3
<1>5. ResolvedOK(r)'
  <2> SUFFICES ASSUME pc[r] = "proxy"
               PROVE  /\ user[r] \in UserModel
                      /\ BelongsTo(user[r], token[r].sub)
                      /\ WithinLimit(user[r])
                      /\ FreshNext(user[r],
                           started[r] - SyncInterval - MaxLatency,
                           started[r] - 2 * SyncInterval - 2 * MaxLatency)
    BY DEF ResolvedOK, FreshUser, FreshNext, BelongsTo, WithinLimit, LastNamed,
           LastMember, LastNamedNext, LastMemberNext, handlerVars
  <2> QED
    BY <1>1, FreshStays DEF RequestOK, ResolvedOK
<1> QED
  BY <1>2, <1>3, <1>4, <1>5 DEF RequestOK

(* Together: no step of another part of the system breaks the invariant. *)
LEMMA SyncKeepsInv ==
  ASSUME Inv, SyncNext, UNCHANGED handlerVars,
         now' = now \/ (HandlersInTime /\ now' = now + 1)
  PROVE  Inv'
<1>1. TypeOK' /\ SyncInv' /\ CachedUsersOK'
  BY SyncKeepsTypes, SyncInvStep, SyncKeepsCachedUsers DEF Inv, HandlerInv
<1>2. \A r \in Requests : RequestOK(r)'
  BY SyncKeepsRequests
<1> QED
  BY <1>1, <1>2 DEF Inv, HandlerInv
------------------------------------------------------------------------------
(* The steps of a handler.  They leave the clock, the directory and the     *)
(* sync alone.                                                              *)

handlerFrame == <<now, directoryVars, syncVars>>

LocalsTypeOK ==
  /\ pc \in [Requests -> {"idle", "arrived", "graph", "groups", "proxy",
                          "upstream"}]
  /\ token \in [Requests -> Tokens \cup {Nil}]
  /\ imp \in [Requests -> SUBSET ImpersonationHeaders]
  /\ started \in [Requests -> Time]
  /\ pending \in [Requests -> SUBSET Groups]
  /\ user \in [Requests -> UserModel \cup {Nil}]

(* The locals of every other request are untouched. *)
OthersUntouched(r) ==
  \A q \in Requests \ {r} :
    /\ pc'[q] = pc[q] /\ token'[q] = token[q] /\ imp'[q] = imp[q]
    /\ started'[q] = started[q] /\ pending'[q] = pending[q]
    /\ user'[q] = user[q]

(* What a step of the request r has to be shown to do to its locals. *)
GoodStep(r) == LocalsTypeOK' /\ OthersUntouched(r) /\ RequestOK(r)'

(* A handler's step changes no last moment. *)
LEMMA SameMoments ==
  ASSUME UNCHANGED handlerFrame
  PROVE  /\ \A g, n : LastNamedNext(g, n) = LastNamed(g, n)
         /\ \A p, g : LastMemberNext(p, g) = LastMember(p, g)
         /\ \A u, m, n : FreshNext(u, m, n) <=> FreshUser(u, m, n)
         /\ now' = now
<1>1. UNCHANGED <<now, displayName, memberOf, namedUntil, memberUntil>>
  BY DEF handlerFrame, directoryVars
<1> QED
  BY <1>1 DEF LastNamedNext, LastNamed, LastMemberNext, LastMember, FreshNext,
              FreshUser

(* Another request is as it was. *)
LEMMA OthersStayOK ==
  ASSUME Inv, UNCHANGED handlerFrame, NEW r \in Requests, OthersUntouched(r),
         NEW q \in Requests \ {r}
  PROVE  RequestOK(q)'
<1>1. /\ pc'[q] = pc[q] /\ token'[q] = token[q] /\ imp'[q] = imp[q]
      /\ started'[q] = started[q] /\ pending'[q] = pending[q]
      /\ user'[q] = user[q]
  BY DEF OthersUntouched
<1>2. RequestOK(q) /\ now' = now
  BY DEF Inv, HandlerInv, handlerFrame
<1>3. RequestInTime(q)' /\ RequestChecked(q)'
  BY <1>1, <1>2 DEF RequestOK, RequestInTime, RequestChecked, Busy
<1>4. ResolvingOK(q)'
  <2> SUFFICES ASSUME pc[q] = "groups"
               PROVE  /\ user[q] \in UserModel
                      /\ BelongsTo(user[q], token[q].sub)
                      /\ IsFiniteSet(user[q].Groups)
                      /\ FreshNext(user[q], started[q],
                                   started[q] - SyncInterval - MaxLatency)
                      /\ \A g \in pending[q] :
                           LastMemberNext(user[q].ObjectID, g) >= started[q]
    BY <1>1 DEF ResolvingOK, FreshUser, FreshNext, BelongsTo, LastNamed,
                LastMember, LastNamedNext, LastMemberNext
  <2> QED
    BY <1>2, SameMoments DEF RequestOK, ResolvingOK
<1>5. ResolvedOK(q)'
  <2> SUFFICES ASSUME pc[q] = "proxy"
               PROVE  /\ user[q] \in UserModel
                      /\ BelongsTo(user[q], token[q].sub)
                      /\ WithinLimit(user[q])
                      /\ FreshNext(user[q],
                           started[q] - SyncInterval - MaxLatency,
                           started[q] - 2 * SyncInterval - 2 * MaxLatency)
    BY <1>1 DEF ResolvedOK, FreshUser, FreshNext, BelongsTo, WithinLimit,
                LastNamed, LastMember, LastNamedNext, LastMemberNext
  <2> QED
    BY <1>2, SameMoments DEF RequestOK, ResolvedOK
<1> QED
  BY <1>3, <1>4, <1>5 DEF RequestOK

(* A good step that leaves the cache alone keeps the invariant. *)
LEMMA GoodStepKeepsInv ==
  ASSUME Inv, UNCHANGED handlerFrame, UNCHANGED cache, NEW r \in Requests,
         GoodStep(r)
  PROVE  Inv'
<1>1. UNCHANGED allSyncVars
  BY DEF handlerFrame, allSyncVars
<1>2. SyncInv' /\ SyncTypeOK'
  BY <1>1, SyncInvStep DEF Inv, SyncInv
<1>3. TypeOK'
  BY <1>2 DEF Inv, TypeOK, GoodStep, LocalsTypeOK
<1>4. CachedUsersOK'
  <2> SUFFICES ASSUME NEW s \in Subs \cap DOMAIN cache
               PROVE  /\ FreshNext(cache[s].val,
                           cache[s].exp - SyncInterval - MaxLatency,
                           cache[s].exp - 2 * SyncInterval - 2 * MaxLatency)
                      /\ BelongsTo(cache[s].val, s)
                      /\ WithinLimit(cache[s].val)
    BY DEF CachedUsersOK, FreshUser, FreshNext, BelongsTo, WithinLimit,
           LastNamed, LastMember, LastNamedNext, LastMemberNext
  <2> QED
    BY SameMoments DEF Inv, HandlerInv, CachedUsersOK
<1>5. \A q \in Requests : RequestOK(q)'
  BY OthersStayOK DEF GoodStep
<1> QED
  BY <1>2, <1>3, <1>4, <1>5 DEF Inv, HandlerInv

(* An answered request holds nothing. *)
LEMMA AnswerIsGood ==
  ASSUME Inv, UNCHANGED handlerFrame, NEW r \in Requests, Answer(r)
  PROVE  GoodStep(r)
<1>1. /\ LocalsTypeOK' /\ OthersUntouched(r)
      /\ pc'[r] = "idle" /\ started'[r] = 0
  BY DEF Inv, TypeOK, LocalsTypeOK, Answer, OthersUntouched, Time
<1>2. now' \in Nat
  BY DEF Inv, TypeOK, SyncTypeOK, handlerFrame, Time
<1>3. RequestOK(r)'
  BY <1>1, <1>2 DEF RequestOK, RequestInTime, RequestChecked, ResolvingOK,
                    ResolvedOK, Busy
<1> QED
  BY <1>1, <1>3 DEF GoodStep

(* A request starts its latency when it arrives. *)
LEMMA ArriveIsGood ==
  ASSUME Inv, UNCHANGED handlerFrame, NEW r \in Requests,
         NEW t \in Tokens, NEW headers \in HeaderSets,
         Arrive(r, t, headers)
  PROVE  GoodStep(r)
<1>0. headers \in SUBSET ImpersonationHeaders
  BY HeaderSetsAssumption
<1>1. /\ LocalsTypeOK' /\ OthersUntouched(r)
      /\ pc'[r] = "arrived" /\ started'[r] = now /\ token'[r] = t
  BY <1>0 DEF Inv, TypeOK, SyncTypeOK, LocalsTypeOK, Arrive, OthersUntouched
<1>2. now' = now /\ now \in Nat
  BY DEF Inv, TypeOK, SyncTypeOK, handlerFrame, Time
<1>3. RequestOK(r)'
  BY <1>1, <1>2, ClockConstants
  DEF RequestOK, RequestInTime, RequestChecked, ResolvingOK, ResolvedOK, Busy
<1> QED
  BY <1>1, <1>3 DEF GoodStep

(* Only a checked request goes on to Graph. *)
LEMMA AskGraphIsGood ==
  ASSUME Inv, UNCHANGED handlerFrame, NEW r \in Requests, AskGraph(r)
  PROVE  GoodStep(r)
<1>1. /\ LocalsTypeOK' /\ OthersUntouched(r)
      /\ pc[r] = "arrived" /\ Valid(token[r]) /\ ~Impersonates(imp[r])
      /\ pc'[r] = "graph" /\ started'[r] = started[r]
      /\ token'[r] = token[r] /\ imp'[r] = imp[r]
  BY DEF Inv, TypeOK, LocalsTypeOK, AskGraph, Admitted, OthersUntouched
<1>2. RequestOK(r) /\ now' = now
  BY DEF Inv, HandlerInv, handlerFrame
<1>3. RequestOK(r)'
  BY <1>1, <1>2 DEF RequestOK, RequestInTime, RequestChecked, ResolvingOK,
                    ResolvedOK, Busy
<1> QED
  BY <1>1, <1>3 DEF GoodStep

(* A user found in the cache has not expired, and so is fresh enough. *)
LEMMA UseCachedUserIsGood ==
  ASSUME Inv, UNCHANGED handlerFrame, NEW r \in Requests, UseCachedUser(r)
  PROVE  GoodStep(r)
<1> USE ClockConstants
<1> DEFINE s == token[r].sub
           u == cache[s].val
           e == cache[s].exp
<1>1. /\ pc[r] = "arrived" /\ Valid(token[r]) /\ ~Impersonates(imp[r])
      /\ s \in DOMAIN cache /\ ~(now > e)
  BY DEF UseCachedUser, Admitted, Found, Expired, Inv, TypeOK
<1>2. token[r] \in Tokens /\ RequestOK(r)
  BY <1>1 DEF Inv, HandlerInv, RequestOK, RequestChecked
<1>3. s \in Subs
  BY <1>1, <1>2, ValidClaims
<1>4. u \in UserModel /\ e \in Int
  BY <1>1, <1>3 DEF Inv, TypeOK, UserItem
<1>5. /\ FreshUser(u, e - SyncInterval - MaxLatency,
                   e - 2 * SyncInterval - 2 * MaxLatency)
      /\ BelongsTo(u, s) /\ WithinLimit(u)
  BY <1>1, <1>3 DEF Inv, HandlerInv, CachedUsersOK
<1>6. /\ LocalsTypeOK' /\ OthersUntouched(r)
      /\ pc'[r] = "proxy" /\ user'[r] = u /\ token'[r] = token[r]
      /\ started'[r] = started[r] /\ imp'[r] = imp[r]
  BY <1>4 DEF Inv, TypeOK, LocalsTypeOK, UseCachedUser, OthersUntouched, Lookup
<1>7. /\ started[r] \in Int /\ now \in Int /\ started[r] <= now
      /\ started[r] + MaxLatency >= now
  BY <1>1, <1>2 DEF Inv, TypeOK, SyncTypeOK, Time, RequestOK, RequestInTime,
                    Busy
<1>8. FreshUser(u, started[r] - SyncInterval - MaxLatency,
                started[r] - 2 * SyncInterval - 2 * MaxLatency)
  <2> SUFFICES ASSUME NEW group \in u.Groups
               PROVE  /\ group.Name \in PrefixedNames
                      /\ LastMember(u.ObjectID, group.ObjectID)
                           >= started[r] - SyncInterval - MaxLatency
                      /\ LastNamed(group.ObjectID, group.Name)
                           >= started[r] - 2 * SyncInterval - 2 * MaxLatency
    BY DEF FreshUser
  <2>1. /\ group.Name \in Names /\ group.ObjectID \in Groups
        /\ u.ObjectID \in Principals
    BY <1>4 DEF UserModel, GroupModel
  <2>2. /\ LastMember(u.ObjectID, group.ObjectID) \in Int
        /\ LastNamed(group.ObjectID, group.Name) \in Int
    BY <2>1 DEF Inv, TypeOK, SyncTypeOK, DirectoryTypeOK, LastMember, LastNamed,
                Time
  <2> HIDE DEF u, e
  <2> QED
    BY <1>1, <1>4, <1>5, <1>7, <2>2 DEF FreshUser
<1>9. RequestInTime(r)' /\ RequestChecked(r)' /\ ResolvingOK(r)'
  BY <1>1, <1>2, <1>6
  DEF handlerFrame, RequestOK, RequestInTime, RequestChecked, ResolvingOK, Busy
<1>10. ResolvedOK(r)'
  <2>1. FreshNext(u, started[r] - SyncInterval - MaxLatency,
                  started[r] - 2 * SyncInterval - 2 * MaxLatency)
    BY <1>8, SameMoments
  <2> HIDE DEF u, s
  <2> QED
    BY <1>4, <1>5, <1>6, <2>1
    DEF s, ResolvedOK, FreshUser, FreshNext, BelongsTo, WithinLimit, LastNamed,
        LastMember, LastNamedNext, LastMemberNext
<1> QED
  BY <1>6, <1>9, <1>10 DEF GoodStep, RequestOK

(* What Graph answers is true at that moment, after the request began. *)
LEMMA GraphAnswersIsGood ==
  ASSUME Inv, UNCHANGED handlerFrame, NEW r \in Requests, GraphAnswers(r)
  PROVE  GoodStep(r)
<1> USE ClockConstants
<1> DEFINE t == token[r]
           u == [Username |-> Username(t), ObjectID |-> t.oid,
                 Groups |-> {}, Type |-> UserType(t)]
<1>1. pc[r] = "graph" /\ RequestOK(r)
  BY DEF GraphAnswers, Inv, HandlerInv
<1>2. t \in Tokens /\ Valid(t) /\ ~Impersonates(imp[r])
  BY <1>1 DEF RequestOK, RequestChecked
<1>3. u \in UserModel
  BY <1>2, ValidClaims DEF UserModel
<1>4. /\ Memberships(t.oid) \subseteq Groups
      /\ \A g \in Memberships(t.oid) : LastMember(t.oid, g) = now
  BY <1>2, ValidClaims
  DEF Inv, TypeOK, SyncTypeOK, DirectoryTypeOK, Memberships, LastMember
<1>5. /\ LocalsTypeOK' /\ OthersUntouched(r)
      /\ pc'[r] = "groups" /\ user'[r] = u /\ token'[r] = t
      /\ started'[r] = started[r] /\ imp'[r] = imp[r]
      /\ pending'[r] = Memberships(t.oid)
  BY <1>3, <1>4 DEF Inv, TypeOK, LocalsTypeOK, GraphAnswers, OthersUntouched
<1>6. RequestInTime(r)' /\ RequestChecked(r)' /\ ResolvedOK(r)'
  BY <1>1, <1>2, <1>5
  DEF handlerFrame, RequestOK, RequestInTime, RequestChecked, ResolvedOK, Busy
<1>7. ResolvingOK(r)'
  <2>1. BelongsTo(u, t.sub) /\ IsFiniteSet(u.Groups) /\ u.Groups = {}
    BY <1>2, FS_EmptySet DEF BelongsTo
  <2>2. \A g \in Memberships(t.oid) : LastMemberNext(u.ObjectID, g) >= started[r]
    BY <1>1, <1>4, SameMoments
    DEF RequestOK, RequestInTime, Inv, TypeOK, SyncTypeOK, Time
  <2> HIDE DEF u
  <2> QED
    BY <1>3, <1>5, <2>1, <2>2
    DEF ResolvingOK, BelongsTo, FreshUser, LastMember, LastMemberNext
<1> QED
  BY <1>5, <1>6, <1>7 DEF GoodStep, RequestOK

(* A group found in the cache bore its name within the cache's lifetime and *)
(* a run of the sync; one that is not found is left out.                    *)
LEMMA LookupGroupIsGood ==
  ASSUME Inv, UNCHANGED handlerFrame, NEW r \in Requests,
         NEW g \in pending[r], LookupGroup(r, g)
  PROVE  GoodStep(r)
<1> USE ClockConstants
<1> DEFINE u == user[r]
           a == started[r]
           v == IF Found(g) THEN [u EXCEPT !.Groups = @ \cup {cache[g].val}]
                            ELSE u
<1>1. /\ pc[r] = "groups" /\ RequestOK(r)
      /\ a \in Int /\ now \in Int /\ a <= now
  BY DEF LookupGroup, Inv, HandlerInv, TypeOK, SyncTypeOK, Time, RequestOK,
         RequestInTime
<1>2. /\ u \in UserModel /\ BelongsTo(u, token[r].sub) /\ IsFiniteSet(u.Groups)
      /\ FreshUser(u, a, a - SyncInterval - MaxLatency)
      /\ \A h \in pending[r] : LastMember(u.ObjectID, h) >= a
  BY <1>1 DEF RequestOK, ResolvingOK
<1>3. g \in Groups /\ pending[r] \subseteq Groups
  BY DEF Inv, TypeOK
<1>4. ASSUME Found(g)
      PROVE  /\ cache[g].val \in GroupModel /\ cache[g].val.ObjectID = g
             /\ cache[g].val.Name \in PrefixedNames
             /\ LastNamed(g, cache[g].val.Name) >= a - SyncInterval - MaxLatency
  <2>1. /\ g \in DOMAIN cache /\ ~(now > cache[g].exp)
        /\ cache[g].val \in GroupModel /\ cache[g].exp \in Int
    BY <1>3, <1>4 DEF Found, Expired, Inv, SyncInv, SyncTypeOK, GroupItem
  <2>2. LastNamed(g, cache[g].val.Name) \in Int
    BY <1>3, <2>1 DEF Inv, SyncInv, SyncTypeOK, DirectoryTypeOK, LastNamed,
                      GroupModel, Time
  <2> QED
    BY <1>1, <1>3, <2>1, <2>2 DEF Inv, SyncInv, EntriesOK
<1>5. /\ v \in UserModel /\ v.ObjectID = u.ObjectID
      /\ v.Username = u.Username /\ v.Type = u.Type
      /\ v.Groups = IF Found(g) THEN u.Groups \cup {cache[g].val} ELSE u.Groups
  BY <1>2, <1>4 DEF UserModel
<1>6. /\ OthersUntouched(r)
      /\ pc'[r] = pc[r] /\ token'[r] = token[r] /\ imp'[r] = imp[r]
      /\ started'[r] = a /\ pending'[r] = pending[r] \ {g} /\ user'[r] = v
  BY DEF LookupGroup, Lookup, OthersUntouched, Inv, TypeOK
<1>7. LocalsTypeOK'
  <2>1. user' \in [Requests -> UserModel \cup {Nil}]
    <3>1. user' = [user EXCEPT ![r] = v]
      BY DEF LookupGroup, Lookup, Inv, TypeOK
    <3> HIDE DEF v
    <3> QED
      BY <1>5, <3>1 DEF Inv, TypeOK
  <2>2. pending' \in [Requests -> SUBSET Groups]
    BY DEF LookupGroup, Inv, TypeOK
  <2> QED
    BY <2>1, <2>2 DEF LookupGroup, LocalsTypeOK, Inv, TypeOK
<1>8. RequestInTime(r)' /\ RequestChecked(r)' /\ ResolvedOK(r)'
  BY <1>1, <1>6 DEF handlerFrame, RequestOK, RequestInTime, RequestChecked,
                    ResolvedOK, Busy
<1>9. ResolvingOK(r)'
  <2>1. BelongsTo(v, token[r].sub)
    <3> HIDE DEF v, u
    <3> QED
      BY <1>2, <1>5 DEF BelongsTo
  <2>2. IsFiniteSet(v.Groups)
    BY <1>2, <1>5, FS_AddElement
  <2>3. FreshNext(v, a, a - SyncInterval - MaxLatency)
    <3> SUFFICES ASSUME NEW group \in v.Groups
                 PROVE  /\ group.Name \in PrefixedNames
                        /\ LastMember(u.ObjectID, group.ObjectID) >= a
                        /\ LastNamed(group.ObjectID, group.Name)
                             >= a - SyncInterval - MaxLatency
      BY <1>5, SameMoments DEF FreshNext
    <3>1. CASE group \in u.Groups
      BY <1>2, <3>1 DEF FreshUser
    <3>2. CASE Found(g) /\ group = cache[g].val
      BY <1>2, <1>4, <3>2
    <3> QED
      BY <1>5, <3>1, <3>2
  <2>4. \A h \in pending[r] \ {g} : LastMemberNext(v.ObjectID, h) >= a
    BY <1>2, <1>5, SameMoments
  <2> HIDE DEF v
  <2> QED
    BY <1>5, <1>6, <2>1, <2>2, <2>3, <2>4
    DEF ResolvingOK, BelongsTo, FreshUser, FreshNext, LastNamed, LastNamedNext,
        LastMember, LastMemberNext
<1> QED
  BY <1>6, <1>7, <1>8, <1>9 DEF GoodStep, RequestOK

(* A forwarded request keeps nothing of its user. *)
LEMMA ForwardIsGood ==
  ASSUME Inv, UNCHANGED handlerFrame, NEW r \in Requests, Forward(r)
  PROVE  GoodStep(r)
<1>1. /\ LocalsTypeOK' /\ OthersUntouched(r)
      /\ pc[r] = "proxy" /\ pc'[r] = "upstream" /\ started'[r] = 0
      /\ token'[r] = token[r] /\ imp'[r] = imp[r]
  BY DEF Inv, TypeOK, LocalsTypeOK, Forward, OthersUntouched, Time
<1>2. RequestOK(r) /\ now' \in Nat
  BY DEF Inv, HandlerInv, handlerFrame, TypeOK, SyncTypeOK, Time
<1>3. RequestOK(r)'
  BY <1>1, <1>2 DEF RequestOK, RequestInTime, RequestChecked, ResolvingOK,
                    ResolvedOK, Busy
<1> QED
  BY <1>1, <1>3 DEF GoodStep

(* A user is cached, and forwarded, within the limit and one handler run of *)
(* the moment Graph answered.                                               *)
LEMMA StoreUserKeepsInv ==
  ASSUME Inv, UNCHANGED handlerFrame, NEW r \in Requests, StoreUser(r)
  PROVE  Inv'
<1> USE ClockConstants
<1> DEFINE u == user[r]
           a == started[r]
           key == token[r].sub
           e == now + SyncInterval
<1>1. /\ pc[r] = "groups" /\ RequestOK(r) /\ ~TooManyGroups(r)
      /\ cache' = Stored(key, u)
      /\ a \in Int /\ now \in Int /\ a <= now /\ now <= a + MaxLatency
  BY DEF StoreUser, Inv, HandlerInv, TypeOK, SyncTypeOK, Time, RequestOK,
         RequestInTime, Busy
<1>2. /\ u \in UserModel /\ BelongsTo(u, key) /\ IsFiniteSet(u.Groups)
      /\ FreshUser(u, a, a - SyncInterval - MaxLatency)
  BY <1>1 DEF RequestOK, ResolvingOK
<1>3. WithinLimit(u)
  BY <1>1, <1>2, FS_CardinalityType, ConfigAssumption
  DEF TooManyGroups, WithinLimit
<1>4. key \in Subs /\ key \notin Groups
  BY <1>1, ValidClaims, KeysDisjoint DEF RequestOK, RequestChecked
<1>5. /\ \A k \in DOMAIN cache' :
           \/ k = key /\ cache'[k] = [val |-> u, exp |-> e]
           \/ k # key /\ k \in DOMAIN cache /\ cache'[k] = cache[k]
      /\ DOMAIN cache' = DOMAIN cache \cup {key}
  BY <1>1 DEF Stored
<1>6. /\ OthersUntouched(r) /\ LocalsTypeOK'
      /\ pc'[r] = "proxy" /\ token'[r] = token[r] /\ imp'[r] = imp[r]
      /\ started'[r] = a /\ user'[r] = u
  BY DEF StoreUser, OthersUntouched, LocalsTypeOK, Inv, TypeOK
<1>7. SyncInv'
  <2>1. \A g \in Groups \cap DOMAIN cache' :
          g \in DOMAIN cache /\ cache'[g] = cache[g]
    BY <1>4, <1>5
  <2>2. UNCHANGED <<now, directoryVars, syncVars>>
    BY DEF handlerFrame
  <2>3. SyncTypeOK'
    BY <2>1, <2>2 DEF Inv, SyncInv, SyncTypeOK, DirectoryTypeOK, directoryVars,
                      syncVars
  <2>4. HistoryOK' /\ RunInTime' /\ ToStoreOK'
    BY <2>2 DEF Inv, SyncInv, HistoryOK, RunInTime, SyncRunning, ToStoreOK,
                LastNamed, directoryVars, syncVars
  <2>5. EntriesOK'
    BY <2>1, <2>2 DEF Inv, SyncInv, EntriesOK, LastNamed, directoryVars
  <2> QED
    BY <2>3, <2>4, <2>5 DEF SyncInv
<1>8. TypeOK'
  <2>1. [val |-> u, exp |-> e] \in UserItem
    BY <1>1, <1>2 DEF UserItem
  <2>2. \A s \in Subs \cap DOMAIN cache' : cache'[s] \in UserItem
    BY <1>5, <2>1 DEF Inv, TypeOK
  <2>3. DOMAIN cache' \subseteq Groups \cup Subs
    BY <1>4, <1>5 DEF Inv, TypeOK
  <2> QED
    BY <1>6, <1>7, <2>2, <2>3 DEF SyncInv, TypeOK, LocalsTypeOK
<1>9. \A group \in u.Groups :
        /\ group.Name \in PrefixedNames
        /\ LastMember(u.ObjectID, group.ObjectID) >= a
        /\ LastNamed(group.ObjectID, group.Name) >= a - SyncInterval - MaxLatency
        /\ LastMember(u.ObjectID, group.ObjectID) \in Int
        /\ LastNamed(group.ObjectID, group.Name) \in Int
  BY <1>2 DEF FreshUser, UserModel, GroupModel, Inv, TypeOK, SyncTypeOK,
              DirectoryTypeOK, LastMember, LastNamed, Time
<1>10. FreshUser(u, e - SyncInterval - MaxLatency,
                 e - 2 * SyncInterval - 2 * MaxLatency)
  BY <1>1, <1>9 DEF FreshUser
<1>11. FreshUser(u, a - SyncInterval - MaxLatency,
                 a - 2 * SyncInterval - 2 * MaxLatency)
  BY <1>1, <1>9 DEF FreshUser
<1>12. CachedUsersOK'
  <2> SUFFICES ASSUME NEW s \in Subs \cap DOMAIN cache'
               PROVE  /\ FreshNext(cache'[s].val,
                           cache'[s].exp - SyncInterval - MaxLatency,
                           cache'[s].exp - 2 * SyncInterval - 2 * MaxLatency)
                      /\ BelongsTo(cache'[s].val, s)
                      /\ WithinLimit(cache'[s].val)
    BY DEF CachedUsersOK, FreshUser, FreshNext, BelongsTo, WithinLimit,
           LastNamed, LastMember, LastNamedNext, LastMemberNext
  <2>1. CASE s = key
    <3>1. cache'[s].val = u /\ cache'[s].exp = e
      BY <1>5, <2>1
    <3> HIDE DEF u, e
    <3> QED
      BY <1>2, <1>3, <1>10, <2>1, <3>1, SameMoments
  <2>2. CASE s # key
    <3>1. s \in DOMAIN cache /\ cache'[s] = cache[s]
      BY <1>5, <2>2
    <3> QED
      BY <3>1, SameMoments DEF Inv, HandlerInv, CachedUsersOK
  <2> QED
    BY <2>1, <2>2
<1>13. RequestOK(r)'
  <2>1. RequestInTime(r)' /\ RequestChecked(r)' /\ ResolvingOK(r)'
    BY <1>1, <1>6 DEF handlerFrame, RequestOK, RequestInTime, RequestChecked,
                      ResolvingOK, Busy
  <2>2. FreshNext(u, a - SyncInterval - MaxLatency,
                  a - 2 * SyncInterval - 2 * MaxLatency)
    BY <1>11, SameMoments
  <2>3. ResolvedOK(r)'
    <3> HIDE DEF u
    <3> QED
      BY <1>2, <1>3, <1>6, <2>2
      DEF ResolvedOK, BelongsTo, WithinLimit, FreshUser, FreshNext, LastNamed,
          LastNamedNext, LastMember, LastMemberNext
  <2> QED
    BY <2>1, <2>3 DEF RequestOK
<1>14. \A q \in Requests : RequestOK(q)'
  BY <1>6, <1>13, OthersStayOK
<1> QED
  BY <1>7, <1>8, <1>12, <1>14 DEF Inv, HandlerInv
(* Every step of a handler keeps the invariant. *)
LEMMA HandlerKeepsInv ==
  ASSUME Inv, UNCHANGED handlerFrame, NEW r \in Requests, HandlerStep(r)
  PROVE  Inv'
<1>1. ASSUME NEW t \in Tokens, NEW headers \in HeaderSets, Arrive(r, t, headers)
      PROVE  Inv'
  BY <1>1, ArriveIsGood, GoodStepKeepsInv DEF Arrive
<1>2. ASSUME Answer(r), UNCHANGED cache PROVE Inv'
  BY <1>2, AnswerIsGood, GoodStepKeepsInv
<1>3. CASE Unauthorized(r)
  BY <1>2, <1>3 DEF Unauthorized
<1>4. CASE RejectClaims(r)
  BY <1>2, <1>4 DEF RejectClaims
<1>5. CASE RejectImpersonation(r)
  BY <1>2, <1>5 DEF RejectImpersonation
<1>6. CASE UseCachedUser(r)
  BY <1>6, UseCachedUserIsGood, GoodStepKeepsInv DEF UseCachedUser
<1>7. CASE AskGraph(r)
  BY <1>7, AskGraphIsGood, GoodStepKeepsInv DEF AskGraph
<1>8. CASE GraphAnswers(r)
  BY <1>8, GraphAnswersIsGood, GoodStepKeepsInv DEF GraphAnswers
<1>9. CASE GraphFails(r)
  BY <1>2, <1>9 DEF GraphFails
<1>10. ASSUME NEW g \in pending[r], LookupGroup(r, g) PROVE Inv'
  BY <1>10, LookupGroupIsGood, GoodStepKeepsInv DEF LookupGroup
<1>11. CASE RejectTooMany(r)
  BY <1>2, <1>11 DEF RejectTooMany
<1>12. CASE StoreUser(r)
  BY <1>12, StoreUserKeepsInv
<1>13. CASE Forward(r)
  BY <1>13, ForwardIsGood, GoodStepKeepsInv DEF Forward
<1>14. CASE UpstreamAnswers(r)
  BY <1>2, <1>14 DEF UpstreamAnswers
<1> QED
  BY <1>1, <1>3, <1>4, <1>5, <1>6, <1>7, <1>8, <1>9, <1>10, <1>11, <1>12,
     <1>13, <1>14 DEF HandlerStep

(* And so does every step of the proxy. *)
LEMMA InvStep == Inv /\ [Next]_vars => Inv'
<1> SUFFICES ASSUME Inv, [Next]_vars PROVE Inv'
  OBVIOUS
<1>1. ASSUME NEW r \in Requests, HandlerStep(r),
             UNCHANGED <<now, directoryVars, syncVars>>
      PROVE  Inv'
  BY <1>1, HandlerKeepsInv DEF handlerFrame
<1>2. CASE (SyncStep \/ EnvironmentStep) /\ UNCHANGED handlerVars
  <2>1. SyncNext
    BY <1>2 DEF SyncNext
  <2>2. now' = now
    BY <1>2 DEF SyncStep, EnvironmentStep, ListGroups, ListGroupsFails,
                StoreGroup, SyncDone, TickerSync, DeleteExpired
  <2> QED
    BY <1>2, <2>1, <2>2, SyncKeepsInv
<1>3. CASE HandlersInTime /\ SyncInTime /\ ClockAdvances /\ UNCHANGED handlerVars
  <2>1. SyncNext /\ now' = now + 1
    BY <1>3 DEF SyncNext, ClockAdvances
  <2> QED
    BY <1>3, <2>1, SyncKeepsInv
<1>4. CASE UNCHANGED vars
  <2>1. UNCHANGED handlerFrame /\ UNCHANGED cache /\ UNCHANGED handlerVars
    BY <1>4 DEF vars, allSyncVars, handlerFrame
  <2>2. SyncInv' /\ SyncTypeOK'
    BY <1>4, SyncInvStep DEF Inv, SyncInv, vars
  <2>3. UNCHANGED <<pc, token, imp, started, pending, user>>
    BY <2>1 DEF handlerVars
  <2>4. TypeOK'
    BY <2>1, <2>2, <2>3 DEF Inv, TypeOK
  <2>5. \A r \in Requests : GoodStep(r)
    <3> SUFFICES ASSUME NEW r \in Requests PROVE GoodStep(r)
      OBVIOUS
    <3>1. LocalsTypeOK' /\ OthersUntouched(r)
      BY <2>3 DEF Inv, TypeOK, LocalsTypeOK, OthersUntouched
    <3>2. RequestOK(r)'
      BY <2>1, <2>3, SameMoments
      DEF Inv, HandlerInv, RequestOK, RequestInTime, RequestChecked,
          ResolvingOK, ResolvedOK, Busy, BelongsTo, WithinLimit, FreshUser,
          FreshNext, LastNamed, LastMember, LastNamedNext, LastMemberNext
    <3> QED
      BY <3>1, <3>2 DEF GoodStep
  <2>6. CachedUsersOK'
    BY <2>1, SameMoments
    DEF Inv, HandlerInv, CachedUsersOK, BelongsTo, WithinLimit, FreshUser,
        FreshNext, LastNamed, LastMember, LastNamedNext, LastMemberNext
  <2> QED
    BY <2>2, <2>4, <2>5, <2>6 DEF Inv, HandlerInv, GoodStep
<1> QED
  BY <1>1, <1>2, <1>3, <1>4 DEF Next
------------------------------------------------------------------------------
(* The inductive invariant holds of every reachable state of the proxy. *)
THEOREM Invariant == Spec => []Inv
  BY InitInv, InvStep, PTL DEF Spec

(* Every variable of the proxy keeps its type: the map holds groups under   *)
(* group ids and users under sub claims, so that the type assertions of     *)
(* getUser and getGroup never fail (cache_memory.go:23, cache_memory.go:41).*)
THEOREM TypeCorrect == Spec => []TypeOK
<1>1. Inv => TypeOK
  BY DEF Inv
<1> QED
  BY <1>1, Invariant, PTL

(* The invariant bounds the age of forwarded memberships.                   *)
LEMMA InvBoundsMembership == Inv => MembershipBounded
<1> SUFFICES ASSUME Inv, NEW r \in Requests, pc[r] = "proxy",
                    NEW group \in user[r].Groups
             PROVE  now - LastMember(user[r].ObjectID, group.ObjectID)
                      <= SyncInterval + 2 * MaxLatency
  BY DEF MembershipBounded
<1>1. /\ RequestOK(r) /\ user[r] \in UserModel
      /\ LastMember(user[r].ObjectID, group.ObjectID)
           >= started[r] - SyncInterval - MaxLatency
  BY DEF Inv, HandlerInv, RequestOK, ResolvedOK, FreshUser
<1>2. now <= started[r] + MaxLatency /\ now \in Int /\ started[r] \in Int
  BY <1>1 DEF RequestOK, RequestInTime, Busy, Inv, TypeOK, SyncTypeOK, Time
<1>3. LastMember(user[r].ObjectID, group.ObjectID) \in Int
  BY <1>1 DEF UserModel, GroupModel, Inv, TypeOK, SyncTypeOK,
              DirectoryTypeOK, LastMember, Time
<1> QED
  BY <1>1, <1>2, <1>3, ClockConstants

(* However requests, syncs and revocations interleave, a request is         *)
(* forwarded only with groups its principal was a member of at most one     *)
(* cache lifetime and two handler runs ago (handlers.go:120-158).           *)
THEOREM MembershipIsBounded == Spec => []MembershipBounded
  BY InvBoundsMembership, Invariant, PTL

(* And the age of forwarded names.                                          *)
LEMMA InvBoundsNames == Inv => NamesBounded
<1> SUFFICES ASSUME Inv, NEW r \in Requests, pc[r] = "proxy",
                    NEW group \in user[r].Groups
             PROVE  /\ group.Name \in PrefixedNames
                    /\ now - LastNamed(group.ObjectID, group.Name)
                         <= 2 * SyncInterval + 3 * MaxLatency
  BY DEF NamesBounded
<1>1. /\ RequestOK(r) /\ user[r] \in UserModel
      /\ group.Name \in PrefixedNames
      /\ LastNamed(group.ObjectID, group.Name)
           >= started[r] - 2 * SyncInterval - 2 * MaxLatency
  BY DEF Inv, HandlerInv, RequestOK, ResolvedOK, FreshUser
<1>2. now <= started[r] + MaxLatency /\ now \in Int /\ started[r] \in Int
  BY <1>1 DEF RequestOK, RequestInTime, Busy, Inv, TypeOK, SyncTypeOK, Time
<1>3. LastNamed(group.ObjectID, group.Name) \in Int
  BY <1>1 DEF UserModel, GroupModel, Inv, TypeOK, SyncTypeOK,
              DirectoryTypeOK, LastNamed, Time
<1> QED
  BY <1>1, <1>2, <1>3, ClockConstants

(* The names a request is forwarded with were in force, with the prefix, at *)
(* most two cache lifetimes and three runs ago (azure_groups.go:51,         *)
(* handlers.go:153).                                                        *)
THEOREM NamesAreBounded == Spec => []NamesBounded
  BY InvBoundsNames, Invariant, PTL

(* No request is forwarded with MaxGroupCount groups or more, and none are  *)
(* cached with a user, whichever identifier the headers carry               *)
(* (handlers.go:137-158).                                                   *)
THEOREM GroupLimitHolds == Spec => []GroupLimit
<1>1. Inv => GroupLimit
  <2> SUFFICES ASSUME Inv PROVE GroupLimit
    OBVIOUS
  <2>1. ASSUME NEW r \in Requests, pc[r] = "proxy"
        PROVE  Cardinality(ImpersonateGroups(r)) < MaxGroupCount
    <3>1. WithinLimit(user[r])
      BY <2>1 DEF Inv, HandlerInv, RequestOK, ResolvedOK
    <3> DEFINE G == user[r].Groups
               id(group) == IF GroupIdentifier = "NAME" THEN group.Name
                                                        ELSE group.ObjectID
    <3>2. IsFiniteSet(G) /\ Cardinality(G) < MaxGroupCount
      BY <3>1 DEF WithinLimit
    <3>3. ImpersonateGroups(r) = {id(group) : group \in G}
      BY DEF ImpersonateGroups
    <3> HIDE DEF G, id
    <3> DEFINE I == {id(group) : group \in G}
    <3>4. IsFiniteSet(I) /\ Cardinality(I) <= Cardinality(G)
      <4> DEFINE f == [group \in G |-> id(group)]
      <4>1. f \in Surjection(G, I)
        BY DEF Surjection
      <4> QED
        BY <3>2, <4>1, FS_Surjection
    <3>5. Cardinality(I) \in Nat /\ Cardinality(G) \in Nat
      BY <3>2, <3>4, FS_CardinalityType
    <3> HIDE DEF I
    <3>6. ImpersonateGroups(r) = I
      BY <3>3 DEF I
    <3> QED
      BY <3>2, <3>4, <3>5, <3>6, ConfigAssumption
  <2>2. ASSUME NEW s \in Subs, Found(s)
        PROVE  Cardinality(Lookup(s).Groups) < MaxGroupCount
    BY <2>2 DEF Found, Lookup, Inv, HandlerInv, CachedUsersOK, WithinLimit
  <2> QED
    BY <2>1, <2>2 DEF GroupLimit
<1> QED
  BY <1>1, Invariant, PTL

(* A user in hand belongs to the token in hand.                             *)
LEMMA InvOwnIdentity == Inv => OwnIdentity
<1> SUFFICES ASSUME Inv, NEW r \in Requests, pc[r] = "proxy"
             PROVE  /\ user[r].ObjectID = token[r].oid
                    /\ \E t \in Tokens :
                         /\ Valid(t) /\ t.sub = token[r].sub
                         /\ user[r].Username = Username(t)
                         /\ user[r].Type = UserType(t)
  BY DEF OwnIdentity
<1>1. /\ BelongsTo(user[r], token[r].sub)
      /\ token[r] \in Tokens /\ Valid(token[r])
  BY DEF Inv, HandlerInv, RequestOK, ResolvedOK, RequestChecked
<1>2. PICK t \in Tokens : /\ Valid(t) /\ t.sub = token[r].sub
                          /\ user[r].ObjectID = t.oid
                          /\ user[r].Username = Username(t)
                          /\ user[r].Type = UserType(t)
  BY <1>1 DEF BelongsTo
<1>3. t.oid = token[r].oid
  BY <1>1, <1>2, TokensAssumption
<1> QED
  BY <1>2, <1>3

(* What a request impersonates is the principal of its own token, for every *)
(* interleaving of requests on the shared cache (handlers.go:116-158).      *)
THEOREM IdentityIsOwn == Spec => []OwnIdentity
  BY InvOwnIdentity, Invariant, PTL

(* Nothing is resolved, served from the cache or forwarded for a request    *)
(* that is not authenticated or brought an Impersonate-User, -Group or      *)
(* -Extra header of its own (handlers.go:127-134).                          *)
THEOREM ImpersonationIsRefused == Spec => []ImpersonationRefused
<1>1. Inv => ImpersonationRefused
  BY DEF Inv, HandlerInv, RequestOK, RequestChecked, ImpersonationRefused,
         Admitted
<1> QED
  BY <1>1, Invariant, PTL
------------------------------------------------------------------------------
(* A handler changes no entry of a group. *)
LEMMA HandlerKeepsGroups ==
  ASSUME Inv, NEW r \in Requests, HandlerStep(r)
  PROVE  \A g \in Groups : g \in DOMAIN cache =>
           g \in DOMAIN cache' /\ cache'[g] = cache[g]
<1>1. CASE StoreUser(r)
  <2>1. token[r].sub \notin Groups
    BY <1>1, ValidClaims, KeysDisjoint
    DEF StoreUser, Inv, HandlerInv, RequestOK, RequestChecked
  <2> QED
    BY <1>1, <2>1 DEF StoreUser, Stored
<1>2. CASE UNCHANGED cache
  BY <1>2
<1> QED
  BY <1>1, <1>2
  DEF HandlerStep, Arrive, Unauthorized, RejectClaims, RejectImpersonation,
      UseCachedUser, AskGraph, GraphAnswers, GraphFails, LookupGroup,
      RejectTooMany, Forward, UpstreamAnswers

(* What the last run stored stays beside the users of the handlers. *)
LEMMA ListedStoredKept ==
  ASSUME Inv, TicksInTime, ListedStored, [Next]_vars
  PROVE  TicksInTime' /\ ListedStored'
<1>1. CASE SyncNext
  BY <1>1, TicksStep, ListedStoredStep DEF Inv, SyncInv
<1>2. ASSUME NEW r \in Requests, HandlerStep(r),
             UNCHANGED <<now, directoryVars, syncVars>>
      PROVE  TicksInTime' /\ ListedStored'
  <2>1. listed \subseteq GroupModel /\ \A group \in GroupModel :
          group.ObjectID \in Groups
    BY DEF GroupModel, Inv, SyncInv, SyncTypeOK
  <2>2. ASSUME NEW group \in listed, StoredInRun(group)
        PROVE  StoredInRun(group)'
    BY <1>2, <2>1, <2>2, HandlerKeepsGroups DEF StoredInRun, syncVars
  <2> QED
    BY <1>2, <2>2 DEF TicksInTime, ListedStored, syncVars
<1>3. CASE UNCHANGED vars
  BY <1>3 DEF vars, allSyncVars, syncVars, TicksInTime, ListedStored,
              StoredInRun
<1> QED
  BY <1>1, <1>2, <1>3 DEF Next, SyncNext

(* Between two syncs the last of which succeeded, a resolution drops no     *)
(* listed group of its principal, in the presence of any number of other    *)
(* requests that write to the same map (azure_user.go:37).                  *)
THEOREM ListedGroupsAreKept == Spec => ListedGroupsKept
<1> DEFINE Listed == TicksInTime /\ ListedStored
<1>1. Init => Listed
  BY ClockConstants DEF Init, SyncInit, TicksInTime, ListedStored
<1>2. Inv /\ Listed /\ [Next]_vars => Listed'
  BY ListedStoredKept
<1>3. ASSUME Inv, Listed, NEW r \in Requests, NEW group \in listed,
             LookupGroup(r, group.ObjectID), ~SyncRunning, ~tickPending,
             lastSyncOK
      PROVE  group \in user'[r].Groups
  <2>1. StoredInRun(group) /\ group.ObjectID \in Groups
    BY <1>3 DEF ListedStored, SyncRunning, GroupModel, Inv, SyncInv, SyncTypeOK
  <2>2. ~Expired(cache[group.ObjectID])
    BY <1>3, <2>1, ClockConstants
    DEF StoredInRun, Expired, TicksInTime, Inv, SyncInv, SyncTypeOK, GroupItem,
        Time
  <2>3. Found(group.ObjectID) /\ Lookup(group.ObjectID) = group
    BY <2>1, <2>2 DEF StoredInRun, Found, Lookup
  <2>4. user[r] \in UserModel
    BY <1>3 DEF LookupGroup, Inv, HandlerInv, RequestOK, ResolvingOK
  <2>5. user' = [user EXCEPT ![r].Groups = @ \cup {group}]
    BY <1>3, <2>3 DEF LookupGroup
  <2>6. user'[r].Groups = user[r].Groups \cup {group}
    <3>1. DOMAIN user = Requests
      BY <1>3 DEF Inv, TypeOK
    <3> QED
      BY <2>4, <2>5, <3>1 DEF UserModel
  <2> QED
    BY <2>6
<1>4. Inv /\ Listed =>
        [\A r \in Requests, group \in listed :
           (/\ LookupGroup(r, group.ObjectID)
            /\ phase = "serving" /\ ~SyncRunning /\ ~tickPending /\ lastSyncOK)
             => group \in user'[r].Groups]_vars
  BY <1>3
<1> HIDE DEF Listed
<1> QED
  BY <1>1, <1>2, <1>4, Invariant, PTL DEF Spec, ListedGroupsKept
------------------------------------------------------------------------------
(* ProxyHandler implements Impersonation: each of its steps is one step of  *)
(* the promise, or changes nothing the promise speaks of.                   *)

(* The variables of the promise that the mapping computes. *)
Status == [r \in Requests |-> PromisedStatus(r)]

Identity == [r \in Requests |-> IF pc[r] = "proxy" THEN user[r] ELSE Nil]

(* A step of r that leaves the locals of the others alone changes the       *)
(* promise's functions at r only.                                           *)
LEMMA OneRequestChanges ==
  ASSUME NEW r \in Requests, OthersUntouched(r)
  PROVE  /\ Status' = [Status EXCEPT ![r] = PromisedStatus(r)']
         /\ Identity' = [Identity EXCEPT ![r] =
                           IF pc'[r] = "proxy" THEN user'[r] ELSE Nil]
<1>1. ASSUME NEW q \in Requests, q # r
      PROVE  PromisedStatus(q)' = PromisedStatus(q)
             /\ pc'[q] = pc[q] /\ user'[q] = user[q]
  BY <1>1 DEF OthersUntouched, PromisedStatus
<1> QED
  BY <1>1 DEF Status, Identity

(* A request that is answered before it was decided on is refused. *)
LEMMA AnswerIsRefusal ==
  ASSUME Inv, NEW r \in Requests, Answer(r),
         pc[r] \in {"arrived", "graph", "groups"}
  PROVE  Promise!Refuse(r)
<1>1. /\ OthersUntouched(r) /\ pc'[r] = "idle"
      /\ token' = [token EXCEPT ![r] = Nil]
      /\ imp' = [imp EXCEPT ![r] = {}]
  BY DEF Answer, OthersUntouched, Inv, TypeOK
<1>2. PromisedStatus(r) = "received" /\ PromisedStatus(r)' = "idle"
  BY <1>1 DEF PromisedStatus
<1>3. Status[r] = "received" /\ Identity[r] = Nil
  BY <1>2 DEF Status, Identity
<1>4. Status' = [Status EXCEPT ![r] = "idle"] /\ Identity' = Identity
  BY <1>1, <1>2, <1>3, OneRequestChanges DEF Identity
<1> QED
  BY <1>1, <1>3, <1>4 DEF Promise!Refuse, Status, Identity

(* Forwarding and answering a forwarded request.  ResolvedOK says what the  *)
(* user about to be sent was, and RequestInTime how long ago.               *)
LEMMA ForwardIsSend ==
  ASSUME Inv, NEW r \in Requests, Forward(r)
  PROVE  Promise!Send(r)
<1> USE ClockConstants
<1>1. /\ OthersUntouched(r) /\ pc[r] = "proxy" /\ pc'[r] = "upstream"
      /\ token' = token /\ imp' = imp
  BY DEF Forward, OthersUntouched, Inv, TypeOK
<1>2. PromisedStatus(r) = "decided" /\ PromisedStatus(r)' = "upstream"
  BY <1>1 DEF PromisedStatus
<1>3. Status[r] = "decided" /\ Identity[r] = user[r]
  BY <1>1, <1>2 DEF Status, Identity
<1>4. /\ Status' = [Status EXCEPT ![r] = "upstream"]
      /\ Identity' = [Identity EXCEPT ![r] = Nil]
  BY <1>1, <1>2, OneRequestChanges
<1>5. Promise!TrueWithin(Identity[r], SyncInterval + 2 * MaxLatency,
                                      2 * SyncInterval + 3 * MaxLatency)
  <2> SUFFICES ASSUME NEW group \in user[r].Groups
               PROVE  /\ group.Name \in PrefixedNames
                      /\ now - LastMember(user[r].ObjectID, group.ObjectID)
                           <= SyncInterval + 2 * MaxLatency
                      /\ now - LastNamed(group.ObjectID, group.Name)
                           <= 2 * SyncInterval + 3 * MaxLatency
    BY <1>3 DEF Promise!TrueWithin, Promise!LastMember, Promise!LastNamed,
                LastMember, LastNamed
  <2> QED
    BY <1>1, InvBoundsMembership, InvBoundsNames DEF MembershipBounded, NamesBounded
<1> QED
  BY <1>1, <1>3, <1>4, <1>5 DEF Promise!Send, Status, Identity

(* A response to a forwarded request. *)
LEMMA UpstreamAnswersIsRespond ==
  ASSUME Inv, NEW r \in Requests, UpstreamAnswers(r)
  PROVE  Promise!Respond(r)
<1>1. /\ OthersUntouched(r) /\ pc[r] = "upstream" /\ pc'[r] = "idle"
      /\ token' = [token EXCEPT ![r] = Nil]
      /\ imp' = [imp EXCEPT ![r] = {}]
  BY DEF UpstreamAnswers, Answer, OthersUntouched, Inv, TypeOK
<1>2. PromisedStatus(r) = "upstream" /\ PromisedStatus(r)' = "idle"
  BY <1>1 DEF PromisedStatus
<1>3. Status[r] = "upstream" /\ Identity[r] = Nil
  BY <1>1, <1>2 DEF Status, Identity
<1>4. Status' = [Status EXCEPT ![r] = "idle"] /\ Identity' = Identity
  BY <1>1, <1>2, <1>3, OneRequestChanges DEF Identity
<1> QED
  BY <1>1, <1>3, <1>4 DEF Promise!Respond, Status, Identity

(* The arrival of a request. *)
LEMMA ArriveIsReceive ==
  ASSUME Inv, NEW r \in Requests, NEW t \in Tokens, NEW headers \in HeaderSets,
         Arrive(r, t, headers)
  PROVE  Promise!Receive(r, t, headers)
<1>1. /\ OthersUntouched(r) /\ pc[r] = "idle" /\ pc'[r] = "arrived"
      /\ token' = [token EXCEPT ![r] = t]
      /\ imp' = [imp EXCEPT ![r] = headers]
  BY DEF Arrive, OthersUntouched, Inv, TypeOK
<1>2. PromisedStatus(r) = "idle" /\ PromisedStatus(r)' = "received"
  BY <1>1 DEF PromisedStatus
<1>3. Status[r] = "idle" /\ Identity[r] = Nil
  BY <1>1, <1>2 DEF Status, Identity
<1>4. Status' = [Status EXCEPT ![r] = "received"] /\ Identity' = Identity
  BY <1>1, <1>2, <1>3, OneRequestChanges DEF Identity
<1> QED
  BY <1>1, <1>3, <1>4 DEF Promise!Receive, Status, Identity

(* Asking Graph, its answer and the lookups of groups are steps of the      *)
(* mechanism only.                                                          *)
LEMMA ResolvingIsHidden ==
  ASSUME Inv, NEW r \in Requests, OthersUntouched(r),
         pc[r] \in {"arrived", "graph", "groups"},
         pc'[r] \in {"arrived", "graph", "groups"},
         UNCHANGED <<token, imp>>
  PROVE  UNCHANGED Promise!requestVars
<1>1. PromisedStatus(r) = "received" /\ PromisedStatus(r)' = "received"
  BY DEF PromisedStatus
<1>2. Status[r] = "received" /\ Identity[r] = Nil
  BY <1>1 DEF Status, Identity
<1>3. Status' = Status /\ Identity' = Identity
  BY <1>1, <1>2, OneRequestChanges DEF Status, Identity
<1> QED
  BY <1>3 DEF Promise!requestVars, Status, Identity

(* A request gets to "proxy" with the user u, who is recent enough. *)
LEMMA ResolvedIsDecide ==
  ASSUME Inv, NEW r \in Requests, OthersUntouched(r),
         pc[r] \in {"arrived", "graph", "groups"}, pc'[r] = "proxy",
         UNCHANGED <<token, imp>>,
         NEW u \in UserModel, user'[r] = u,
         token[r] \in Tokens, Valid(token[r]), ~Impersonates(imp[r]),
         BelongsTo(u, token[r].sub), WithinLimit(u),
         FreshUser(u, now - SyncInterval - MaxLatency,
                      now - 2 * SyncInterval - 2 * MaxLatency)
  PROVE  Promise!Decide(r, u)
<1> USE ClockConstants
<1>1. PromisedStatus(r) = "received" /\ PromisedStatus(r)' = "decided"
  BY DEF PromisedStatus
<1>2. Status[r] = "received"
  BY <1>1 DEF Status
<1>3. /\ Status' = [Status EXCEPT ![r] = "decided"]
      /\ Identity' = [Identity EXCEPT ![r] = u]
  BY <1>1, OneRequestChanges
<1>4. Promise!Owns(token[r], u)
  <2>1. PICK x \in Tokens : /\ Valid(x) /\ x.sub = token[r].sub
                            /\ u.ObjectID = x.oid
                            /\ u.Username = Username(x)
                            /\ u.Type = UserType(x)
    BY DEF BelongsTo
  <2>2. x.oid = token[r].oid
    BY <2>1, TokensAssumption
  <2> QED
    BY <2>1, <2>2
    DEF Promise!Owns, Promise!Valid, Promise!ClaimsOK, Promise!Username,
        Promise!UserType, Valid, ClaimsOK, Username, UserType
<1>5. Promise!TrueWithin(u, SyncInterval + MaxLatency,
                            2 * SyncInterval + 2 * MaxLatency)
  <2> SUFFICES ASSUME NEW group \in u.Groups
               PROVE  /\ group.Name \in PrefixedNames
                      /\ now - LastMember(u.ObjectID, group.ObjectID)
                           <= SyncInterval + MaxLatency
                      /\ now - LastNamed(group.ObjectID, group.Name)
                           <= 2 * SyncInterval + 2 * MaxLatency
    BY DEF Promise!TrueWithin, Promise!LastMember, Promise!LastNamed,
           LastMember, LastNamed
  <2>1. /\ LastMember(u.ObjectID, group.ObjectID) \in Int
        /\ LastNamed(group.ObjectID, group.Name) \in Int /\ now \in Int
    BY DEF UserModel, GroupModel, Inv, TypeOK, SyncTypeOK, DirectoryTypeOK,
           LastMember, LastNamed, Time
  <2> QED
    BY <2>1 DEF FreshUser
<1>6. Promise!Valid(token[r]) /\ ~Promise!Impersonates(imp[r])
  BY DEF Promise!Valid, Promise!ClaimsOK, Promise!Impersonates, Valid, ClaimsOK,
         Impersonates
<1>7. Promise!Cardinality(u.Groups) < MaxGroupCount
  BY DEF WithinLimit, Promise!Cardinality, Promise!IsFiniteSet, Cardinality,
         IsFiniteSet
<1> QED
  BY <1>2, <1>3, <1>4, <1>5, <1>6, <1>7 DEF Promise!Decide, Status, Identity

(* A cached user has not expired, so that it was cached at most one         *)
(* interval ago.                                                            *)
LEMMA UseCachedUserIsDecide ==
  ASSUME Inv, NEW r \in Requests, UseCachedUser(r)
  PROVE  \E u \in UserModel : Promise!Decide(r, u)
<1> USE ClockConstants
<1> DEFINE s == token[r].sub
           u == cache[s].val
           e == cache[s].exp
<1>1. /\ pc[r] = "arrived" /\ Valid(token[r]) /\ ~Impersonates(imp[r])
      /\ s \in DOMAIN cache /\ ~(now > e)
  BY DEF UseCachedUser, Admitted, Found, Expired, Inv, TypeOK
<1>2. token[r] \in Tokens
  BY <1>1 DEF Inv, HandlerInv, RequestOK, RequestChecked
<1>3. s \in Subs
  BY <1>1, <1>2, ValidClaims
<1>4. u \in UserModel /\ e \in Int /\ now \in Int
  BY <1>1, <1>3 DEF Inv, TypeOK, UserItem, SyncTypeOK, Time
<1>5. /\ FreshUser(u, e - SyncInterval - MaxLatency,
                   e - 2 * SyncInterval - 2 * MaxLatency)
      /\ BelongsTo(u, s) /\ WithinLimit(u)
  BY <1>1, <1>3 DEF Inv, HandlerInv, CachedUsersOK
<1>6. /\ OthersUntouched(r) /\ pc'[r] = "proxy" /\ user'[r] = u
      /\ UNCHANGED <<token, imp>>
  BY DEF Inv, TypeOK, UseCachedUser, OthersUntouched, Lookup
<1>7. FreshUser(u, now - SyncInterval - MaxLatency,
                   now - 2 * SyncInterval - 2 * MaxLatency)
  <2> HIDE DEF u, e
  <2> QED
    BY <1>1, <1>4, <1>5 DEF FreshUser, UserModel, GroupModel, Inv, TypeOK,
       SyncTypeOK, DirectoryTypeOK, LastMember, LastNamed, Time
<1> HIDE DEF u, e
<1>8. PICK v \in UserModel : v = u
  BY <1>4
<1>9. Promise!Decide(r, v)
  BY <1>1, <1>2, <1>5, <1>6, <1>7, <1>8, ResolvedIsDecide
<1> QED
  BY <1>9

(* A user just resolved is what Graph and the cached groups said since the  *)
(* request began.                                                           *)
LEMMA StoreUserIsDecide ==
  ASSUME Inv, NEW r \in Requests, StoreUser(r)
  PROVE  \E u \in UserModel : Promise!Decide(r, u)
<1> USE ClockConstants
<1> DEFINE u == user[r]
           a == started[r]
<1>1. /\ pc[r] = "groups" /\ RequestOK(r) /\ ~TooManyGroups(r)
      /\ a \in Int /\ now \in Int /\ a <= now /\ now <= a + MaxLatency
  BY DEF StoreUser, Inv, HandlerInv, TypeOK, SyncTypeOK, Time, RequestOK,
         RequestInTime, Busy
<1>2. /\ u \in UserModel /\ BelongsTo(u, token[r].sub) /\ IsFiniteSet(u.Groups)
      /\ FreshUser(u, a, a - SyncInterval - MaxLatency)
      /\ token[r] \in Tokens /\ Valid(token[r]) /\ ~Impersonates(imp[r])
  BY <1>1 DEF RequestOK, ResolvingOK, RequestChecked
<1>3. WithinLimit(u)
  BY <1>1, <1>2, FS_CardinalityType, ConfigAssumption
  DEF TooManyGroups, WithinLimit
<1>4. FreshUser(u, now - SyncInterval - MaxLatency,
                   now - 2 * SyncInterval - 2 * MaxLatency)
  <2> HIDE DEF u, a
  <2> QED
    BY <1>1, <1>2 DEF FreshUser, UserModel, GroupModel, Inv, TypeOK,
       SyncTypeOK, DirectoryTypeOK, LastMember, LastNamed, Time
<1>5. /\ OthersUntouched(r) /\ pc'[r] = "proxy" /\ user'[r] = u
      /\ UNCHANGED <<token, imp>>
  BY DEF Inv, TypeOK, StoreUser, OthersUntouched
<1> HIDE DEF u
<1>6. PICK v \in UserModel : v = u
  BY <1>2
<1>7. Promise!Decide(r, v)
  BY <1>1, <1>2, <1>3, <1>4, <1>5, <1>6, ResolvedIsDecide
<1> QED
  BY <1>7
------------------------------------------------------------------------------
Mapped(r) == Promise!PromiseStep(r) \/ UNCHANGED Promise!requestVars

(* Every step of a handler is a step of the promise or hidden. *)
LEMMA HandlerStepMaps ==
  ASSUME Inv, NEW r \in Requests, HandlerStep(r)
  PROVE  Mapped(r)
<1>1. ASSUME NEW t \in Tokens, NEW headers \in HeaderSets, Arrive(r, t, headers)
      PROVE  Mapped(r)
  BY <1>1, ArriveIsReceive DEF Mapped, Promise!PromiseStep
<1>2. ASSUME Answer(r), pc[r] \in {"arrived", "graph", "groups"} PROVE Mapped(r)
  BY <1>2, AnswerIsRefusal DEF Mapped, Promise!PromiseStep
<1>3. CASE \/ Unauthorized(r) \/ RejectClaims(r) \/ RejectImpersonation(r)
           \/ GraphFails(r) \/ RejectTooMany(r)
  BY <1>2, <1>3 DEF Unauthorized, RejectClaims, RejectImpersonation, GraphFails,
                    RejectTooMany
<1>4. CASE AskGraph(r)
  <2>1. /\ OthersUntouched(r) /\ pc[r] = "arrived" /\ pc'[r] = "graph"
        /\ UNCHANGED <<token, imp>>
    BY <1>4 DEF AskGraph, OthersUntouched, Inv, TypeOK
  <2> QED
    BY <2>1, ResolvingIsHidden DEF Mapped
<1>5. CASE GraphAnswers(r)
  <2>1. /\ OthersUntouched(r) /\ pc[r] = "graph" /\ pc'[r] = "groups"
        /\ UNCHANGED <<token, imp>>
    BY <1>5 DEF GraphAnswers, OthersUntouched, Inv, TypeOK
  <2> QED
    BY <2>1, ResolvingIsHidden DEF Mapped
<1>6. ASSUME NEW g \in pending[r], LookupGroup(r, g) PROVE Mapped(r)
  <2>1. /\ OthersUntouched(r) /\ pc[r] = "groups" /\ pc' = pc
        /\ UNCHANGED <<token, imp>>
    BY <1>6 DEF LookupGroup, OthersUntouched, Inv, TypeOK
  <2> QED
    BY <2>1, ResolvingIsHidden DEF Mapped
<1>7. CASE UseCachedUser(r) \/ StoreUser(r)
  <2>1. UserModel = Promise!UserModel
    BY DEF UserModel, GroupModel, Promise!UserModel, Promise!GroupModel
  <2> QED
    BY <1>7, <2>1, UseCachedUserIsDecide, StoreUserIsDecide
    DEF Mapped, Promise!PromiseStep
<1>8. CASE Forward(r)
  BY <1>8, ForwardIsSend DEF Mapped, Promise!PromiseStep
<1>9. CASE UpstreamAnswers(r)
  BY <1>9, UpstreamAnswersIsRespond DEF Mapped, Promise!PromiseStep
<1> QED
  BY <1>1, <1>3, <1>4, <1>5, <1>6, <1>7, <1>8, <1>9 DEF HandlerStep

(* Nor do the sync, the directory and the clock do more than the world of   *)
(* the promise.                                                             *)
LEMMA OtherStepMaps ==
  ASSUME SyncNext, UNCHANGED handlerVars
  PROVE  Promise!PromiseNext \/ UNCHANGED Promise!promiseVars
<1>1. UNCHANGED Promise!requestVars
  <2>1. UNCHANGED <<pc, token, imp, user>>
    BY DEF handlerVars
  <2>2. \A r \in Requests : PromisedStatus(r)' = PromisedStatus(r)
    BY <2>1 DEF PromisedStatus
  <2> QED
    BY <2>1, <2>2 DEF Promise!requestVars
<1>2. CASE UNCHANGED <<now, directoryVars>>
  BY <1>1, <1>2 DEF Promise!promiseVars, Promise!directoryVars, directoryVars
<1>3. CASE DirectoryNext /\ UNCHANGED now
  <2>1. Promise!DirectoryNext
    BY <1>3
    DEF DirectoryNext, Rename, Join, Leave, Promise!DirectoryNext,
        Promise!Rename, Promise!Join, Promise!Leave
  <2> QED
    BY <1>1, <1>3, <2>1 DEF Promise!PromiseNext, Promise!WorldStep
<1>4. CASE ClockAdvances
  BY <1>1, <1>4
  DEF ClockAdvances, Promise!PromiseNext, Promise!WorldStep, directoryVars,
      Promise!directoryVars
<1>5. \/ UNCHANGED <<now, directoryVars>>
      \/ DirectoryNext /\ UNCHANGED now
      \/ ClockAdvances
  BY DEF SyncNext, SyncStep, EnvironmentStep, ListGroups, ListGroupsFails,
         StoreGroup, SyncDone, TickerSync, DeleteExpired
<1> QED
  BY <1>2, <1>3, <1>4, <1>5

(* Nothing is promised of a request before it has arrived. *)
LEMMA InitMaps == Init => Promise!PromiseInit
BY DEF Init, SyncInit, PromisedStatus, Promise!PromiseInit,
       Promise!DirectoryInit, Promise!Never, DirectoryInit, Never

(* One step of the proxy, whichever it is. *)
LEMMA StepMaps ==
  Inv /\ [Next]_vars => [Promise!PromiseNext]_(Promise!promiseVars)
<1> SUFFICES ASSUME Inv, [Next]_vars
             PROVE  Promise!PromiseNext \/ UNCHANGED Promise!promiseVars
  OBVIOUS
<1>1. ASSUME NEW r \in Requests, HandlerStep(r),
             UNCHANGED <<now, directoryVars, syncVars>>
      PROVE  Promise!PromiseNext \/ UNCHANGED Promise!promiseVars
  BY <1>1, HandlerStepMaps
  DEF Mapped, Promise!PromiseNext, Promise!promiseVars, directoryVars,
      Promise!directoryVars
<1>2. CASE (SyncStep \/ EnvironmentStep) /\ UNCHANGED handlerVars
  BY <1>2, OtherStepMaps DEF SyncNext
<1>3. CASE HandlersInTime /\ SyncInTime /\ ClockAdvances /\ UNCHANGED handlerVars
  BY <1>3, OtherStepMaps DEF SyncNext
<1>4. CASE UNCHANGED vars
  <2>1. UNCHANGED <<pc, token, imp, user>> /\ UNCHANGED <<now, directoryVars>>
    BY <1>4 DEF vars, allSyncVars, handlerVars
  <2>2. \A r \in Requests : PromisedStatus(r)' = PromisedStatus(r)
    BY <2>1 DEF PromisedStatus
  <2> QED
    BY <2>1, <2>2 DEF Promise!promiseVars, Promise!requestVars,
                      Promise!directoryVars, directoryVars
<1> QED
  BY <1>1, <1>2, <1>3, <1>4 DEF Next

(* The proxy with its caches, its sync and its requests to Graph forwards   *)
(* requests as the promise says, for every value of the constants           *)
(* (handlers.go:107-194).                                                   *)
THEOREM ImplementsPromise == Spec => ForwardsAsPromised
  BY InitMaps, StepMaps, Invariant, PTL
  DEF Spec, ForwardsAsPromised, Promise!PromiseSpec
==============================================================================
