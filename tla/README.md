# Verification of azad-kube-proxy

azad-kube-proxy stands between `kubectl` and the Kubernetes API.  It checks an
Azure AD token, finds out the groups of its principal, and forwards the request
with `Impersonate-User` and `Impersonate-Group` headers under its own service
account.  A kubectl plugin, `kubectl azad-proxy`, discovers proxies, writes the
kubeconfig and hands out tokens.

This directory holds TLA+ models of the parts that decide *who* a request is
forwarded as, *what* of it Kubernetes sees, *when* the program stops, and what
the plugin finds and writes; abstract specifications of who is forwarded, of when
the program stops and of what the plugin's two files promise the processes that
share them, which the detailed models implement; TLC runs that check all of them
on small instances, and TLAPS proofs of nearly every safety property, and of all four
refinements as far as they are safety, for every instance.

## 1. Inventory

| Component | Source | State | Operations |
|---|---|---|---|
| Request handler | `internal/proxy/handlers.go`, `azure_internal.go`, `oidc.go` | none of its own; locals of each request | `proxy`, `error`, `readiness`, `liveness` |
| User resolution | `user.go`, `azure_user.go`, `azure_service_principal.go`, `models_user.go` | none | `getUser`, `getUserGroups`, two `getGroups` |
| Group synchronisation | `azure.go`, `azure_groups.go` | ticker, stop channel, one goroutine | `startSyncGroups`, `syncAzureADGroupsCache` |
| Memory cache | `cache_memory.go` | one go-cache map of users and groups | `getUser`, `setUser`, `getGroup`, `setGroup`, expiry |
| Server lifecycle | `proxy.go` | signal channel, errgroup, two servers, `err`, shutdown context | `New`, `Start` |
| Health checks | `health.go` | a service account token, read once | `newHealthClient`, `ready`, `live` |
| CORS middleware | `cors.go` | none | `middleware` |
| Metrics | `metrics*.go`, `proxy_metrics.go` | a request counter | `metricsHandler`, `getHandler` |
| Utilities | `util.go`, `models_cache.go` | none | file and string helpers, `stripWebSocketBearer` |
| Entry point | `cmd/azad-kube-proxy/main.go`, `config.go` | none | parse, `Start` |
| Login and token cache | `cmd/kubectl-azad-proxy/login.go`, `token.go` | the file `azad-proxy.json` | `Login`, `GetToken`, `SetToken` |
| Kubeconfig and menu | `generate.go`, `menu.go` | the kubeconfig file | `Generate`, `Merge`, `Menu` |
| Discovery | `discover.go` | none; locals of one run | `newDiscoverClient`, `Run`, `subscriptionDiscovery`, `getDiscoverData`, output |
| Plugin entry point, errors | `main.go`, `config.go`, `customerrors.go` | none | parse, error texts |

How they interact.  `Start` makes the group sync list the groups once, then
starts the servers.  Every request handler runs in its own goroutine; handlers
and the sync goroutine meet only in the memory cache, whose entries live for
one sync interval (`proxy.go:35`).  A handler that misses the cache asks Graph
for the principal's memberships and takes the *names* of those groups from the
cache, where the sync puts them.  `Start`'s goroutines meet in the errgroup's
context, in `stopChan`, in the unbuffered `syncChan` and in the variable `err`.
The service account token is a file that Kubernetes renews while the proxy
runs.  `New` reads it for the health client and `Start` reads it again, after
the first group sync, for the handlers; neither reads it a third time, so that
two components may hold two tokens until the container is restarted.
Logins are separate processes that meet only in `azad-proxy.json`, and runs of
`generate` and `menu` meet only in the kubeconfig.

What is hard here, and what makes each part correct:

- *Request handler, resolution, cache.*  Staleness adds up over two caches and
  two kinds of delay; concurrent resolutions of one user overwrite each other;
  the header check sits between the cache lookup and the resolution.  Correct
  means: the identity forwarded is the token's own, groups and names are not
  older than a stated bound, the group limit holds also for cached users.
- *Group sync.*  The lifetime of what it stores is its own period, a failed
  listing is ignored.  Correct means: groups do not vanish between two
  successful syncs, and names are not older than an interval and a run.
- *Lifecycle.*  Signals, failing servers, draining, a sync that hangs in Graph
  and a shared `err` interleave.  Correct means: `Start` returns, leaves no
  goroutine behind, drains unless there is a reason not to, and reports an
  error only for a cause.
- *Endpoints: middlewares, header rewriting, health.*  Two listeners judge and
  serve with tokens read at different times, and RBAC changes under them.  The
  client's token may come in several lines of one header and as a WebSocket
  protocol, and its `Connection` header makes the reverse proxy remove headers the
  handler has just set.  Correct means: Kubernetes never sees the client's token,
  the other protocols keep their order, and "ready" speaks for the token that
  requests are forwarded with.
- *Token cache.*  A file shared without a lock and written by truncation.
  Correct means: no expired token is handed out, a file that does not parse comes
  only from overlapping or interrupted writes, and a login loses no token but
  those that others have stored since it read the file.
- *Kubeconfig and menu.*  Load, check, a network call, then truncation and
  write, without a lock; the menu runs this twice with a prompt in between.
  Correct means: no entry of another cluster is lost and none is written over
  without consent, but for what other runs have written since this one read the
  file, and unless writes overlap or are cut off.
- *Discovery.*  Every request to Azure may fail, most failures end the run and
  some only a subscription; Go iterates the tags of a subscription in any order
  and the loop may return in the middle.  Correct means: the clusters printed
  are those of the first well-tagged subscription, all of them, whatever the
  order, and none is missed because of another.

The full list of hazards, each with its line and the properties that cover it,
is `PROJECT.json` "hazards".

## 2. Modules

| Module | Models | Extends |
|---|---|---|
| `Clock` | the time shared by all, `SyncInterval`, `MaxLatency` | |
| `MemoryCache` | `memoryCache` over go-cache | `Clock` |
| `AzureAD` | the directory: names and memberships that change at any time | `Clock` |
| `Headers` | the impersonation headers, and which of them `handler.proxy` refuses | |
| `Claims` | tokens and what `azure_internal.go` and `user.go` make of their claims; the impersonation headers that come with them | `AzureAD`, `Headers` |
| `GroupSync` | `startSyncGroups`, `syncAzureADGroupsCache` | `AzureAD`, `MemoryCache` |
| `ProxyHandler` | `handler.proxy` and user resolution, beside the sync | `GroupSync`, `Claims` |
| `Impersonation` | abstract: what the proxy promises of every request | `Claims` |
| `Loops` | the loop that filters a slice, shared by `stripWebSocketBearer` and discovery | |
| `Endpoints` | the way of one request through the middlewares, the header rewriting and the reverse proxy, the probes, the service account token | `Loops`, `Headers` |
| `ServerLifecycle` | `Start` | |
| `Service` | abstract: what `Start` promises whoever runs it | |
| `TokenCache` | concurrent `kubectl azad-proxy login` | |
| `TokenStore` | abstract: what the token cache promises the logins that share it | |
| `KubeConfig` | concurrent `kubectl azad-proxy generate` and `menu` | |
| `ConfigStore` | abstract: what `generate` and `menu` promise the runs that share a kubeconfig | |
| `Discover` | one run of `kubectl azad-proxy discover` | `Loops` |
| `GroupSyncProofs`, `EndpointsProofs`, `DiscoverProofs` | proofs about the module of that name | the module, `TLAPS` |
| `ProxyHandlerProofs`, `ServerLifecycleProofs`, `TokenCacheProofs`, `KubeConfigProofs` | the same, and that the module implements `Impersonation`, `Service`, `TokenStore`, `ConfigStore` | the module, `TLAPS` |
| `LoopsProofs` | what the loop of `Loops` returns, and that such loops are defined | `Loops`, `TLAPS` |
| `MC*` | instances for TLC | the module |

The correspondence of every definition with its lines is `PROJECT.json` "map".
What the reader should know beyond it:

**MemoryCache.**  `cache` is a function on the stored keys; `Found` is what
go-cache's `Get` returns (an entry is hidden once the clock is strictly past
its expiration), `Stored` the map after a `Set` with duration 0, which go-cache
replaces by the default expiration.  The janitor is the action `DeleteExpired`.

**AzureAD** is external.  `Rename` covers deletion and restoring (`Nil`).  The
variables `namedUntil` and `memberUntil` are history: the last moment at which
a withdrawn name or membership was in force, so that properties can say how old
a forwarded name is.

**GroupSync.**  A listing is one step (`ListGroups`): a Graph answer of several
pages is taken for a snapshot.  Storing is one step per group, so that handlers
see half-renewed caches.  `phase` is `Start` as the sync sees it.  The ticker's
channel holds one tick, and drops a tick nobody has taken.

**ProxyHandler.**  One slot of `Requests` is one goroutine; `pc` names the
point between two accesses to shared state: `arrived` (before the cache
lookup), `graph` (waiting for Graph), `groups` (the loop over
`getGroup`), `proxy` (about to call `ServeHTTP`), `upstream` (inside it).
`RejectImpersonation` merges the cache lookup, which has no effect, with the
header check after it.  A token is a record of what the code reads of it;
`accepted` is the verdict of the OIDC middleware.  `imp` is the set of
impersonation headers a request carries, by their kinds (`Headers`): the loop
of `handlers.go:127` refuses `Impersonate-User`, `Impersonate-Group` and
`Impersonate-Extra-...`; a client's `Impersonate-Uid` passes and is
forwarded.  A group missing in the cache is silently left out, as in the code.
The last step is the call of the reverse proxy; what that does to the
headers is in `Endpoints`.

**Impersonation** knows no cache, no sync and no Graph.  A request is received,
then refused or given *one* identity, then sent with it.  `Decide` says what that
identity may be: owned by the request's token (`Owns`), below the group limit,
and true within a bound (`TrueWithin`); a request with an impersonation header
that `handlers.go:127` refuses is never given one, and one that has been given
an identity is never refused.  The promise is about what the handler hands to
the reverse proxy.
`ProxyHandler` maps `pc` to `status` (`PromisedStatus`: everything before `proxy`
is "received"), and the user of a request at `proxy` to `identity`; the
property `ForwardsAsPromised` is that specification under the mapping.  Its
steps also say what the single properties cannot: a decision is not taken back,
nor changed between `StoreUser` and `ServeHTTP`.

**ServerLifecycle.**  The two servers are symmetric but for the order of their
start.  `ListenAndServe` is three steps: it looks at the flag that `Shutdown` sets
(`Open`), opens the listener, which may fail also when `Shutdown` has begun
meanwhile (`ServeFails`), and looks at the flag again (`Listen`).  A server is
"failing" until its goroutine has returned the error to the errgroup.  The ticker
is made before the first listing, so a tick may be pending as soon as the
sync goroutine runs.  `CheckShutdown` and `ReturnShutdown` are the two unsynchronised loads of
`err` after the store in `ShutdownReturns`: the first may see the goroutine's
own store or the shared variable.  `Shutdown` of net/http is modelled by
what it does: it closes the listeners, then polls until no connection is in use
or the context ends.

**Service** knows no goroutine, errgroup or context.  `ServerLifecycle` maps the
program counter of `Start` to `Stage`, and what happened to a server and its
goroutine to `ServerState`.  `StopsInOrder` is the safety of `Service`
(`ServiceSafety`): nothing closes before there is a reason to stop, `Start`
returns only when every server is closed for good and its connections are idle,
unless the time was up or a server broke, and a broken server is always
reported.  `StopsPromptly` is its fairness (`ServiceFairness`): once there is
a reason to stop, the end comes without the clients' help.

**Endpoints** has one slot for a request and one for a probe.  The tokens of
the service account are numbered in the order of issue: the file holds `issued`,
Kubernetes accepts those after `expired`, and does not expire the one in the
file.  `healthToken` and `kubernetesToken` are what `New` and `Start` read.
`Restart` is the kubelet's (the chart has a `livenessProbe`, and none for
`/readyz`).  A header is the sequence of its lines, a line of
`Sec-WebSocket-Protocol` the sequence of its protocols; of the impersonation
headers it counts which there are.  `Refuse` stands for all that `ProxyHandler`
models between the token and the rewriting.  `Rewrite` is what the handler makes
of the headers, `ReverseProxy` (external) what Go's reverse proxy then leaves of
them: it removes every header that the client's `Connection` header names, also
those the handler has just set.  `Connection: Authorization` therefore makes
the proxy forward a request without its token, and `Connection:
Impersonate-User` one that impersonates nobody; that Kubernetes sees the
proxy's token and an `Impersonate-User` is claimed only of requests without such
a header (`NoClientToken`).  `Ready` is judged when the review is answered, so
that `ReadyMeansAccepted` speaks of that moment, as a readiness answer has to.
It speaks of the token only: `health.go:80-86` looks at the verbs and resources
of a rule and not at its `apiGroups` and `resourceNames`, so that an ok does
not mean that every user may be impersonated.

**TokenCache.**  Loading is one step because the file is never removed; opening
with truncation and writing are two.  Writing over what another login has
written since may leave the tail of a longer map (`torn`).  The file may be there
from before, whole or cut off.  `obtained`, `missed`, `undone` and `raced` are
history.  `raced` is set when two writes overlap or one is cut off, and by
nothing else.  `missed[p]` are the clusters whose tokens others have changed in
the file since `p` read it; when `p` writes, it sets them back to what it
read, and they are `undone` until a login that has not missed them stores
another token.

**TokenStore** knows no file, no copy in memory and no truncation: a login reads
the store, then takes the lasting token stored for its cluster *at that moment*
(`Take`) or, when there is none that lasts, stores a new one (`Renew`), each in
one step as far as the clusters go that nobody has changed since it read; those
it has missed it may set back (`BecomesBut`), and if its own is among them it
may hand out an older token or replace one that lasts.  No token expires in a
login's hand (`Tick`).  Nothing is promised of the store once it is `spoilt`.
`TokenCache` maps the map in the file to `store`, the logins that hold what they
have read to `readers`, the token of a login that is about to print it to
`handed`, and `raced` to `spoilt`.  `AtomicUnlessMissed` is that specification
under the mapping.  It says what `TokensKept` and `HandedOutUnexpired` do
not: `GetToken` decides by a copy of the file that may be old, and the decision
is still the right one when the login acts on it, unless another login has
changed that very cluster.

**KubeConfig.**  A kubeconfig is a function of section and name, because the
overwrite checks look at three sections; an absent and an empty file are both
the configuration without entries, as they are to `Generate`.  `Load` is
`Generate` up to its checks, `Dial` what follows in memory, and the write is
split as in `TokenCache`.  The menu's `Overwrite` sends the run back to
`generate`, because `Generate` loads the file anew.  `settled`,
`missed`, `raced` and `consent` are history, `missed` and `raced` as in
`TokenCache`; a run that reads while another writes has missed everything.  Whether the dial fails is a free choice,
so that `insecureSkipVerify` is left out.

**ConfigStore** knows no sections, no file and no copy in memory: a run asks for
one cluster (`Ask`), its user may agree that this one is written over (`Agree`),
and the whole entry is set in one step (`Set`), over nothing or with consent, or
the run ends without a trace (`Leave`).  That holds for the clusters no other
run has changed since this one read: those it has missed a `Set` may put back,
and its own it may then write over without consent, because nothing in the
code looks at the file again.  `KubeConfig` maps the three sections to one entry
per cluster (`Entries`), with a write under way counting as not begun
(`Current`), the client of a run past the choice of its cluster to `asked`,
`consent` to `agreed`, and `raced` to `spoilt`.  `AtomicUnlessMissed` is that
specification under the mapping.  Beyond `EntriesKept` and
`OverwritesWithConsent` it says that a cluster is set in all of the sections or
in none, and that a Yes counts only for the cluster it was given about.

**Discover.**  What Azure answers to a request is chosen when it is made, so that
a run meets every combination of answers and failures.  `TakeTag` is one turn
of the loop over Go's map of tags, with any key not yet taken.  `error` is the
type of the error returned (`customerrors.go`).  `replies` and `apps` are history
besides being in use: they let the properties compare what was found with all
that was answered.  The loop over the tags of an application is a recursive
function of the turns taken (`Tagged`), and so are the loops that leave out an
application without a URI and a subscription without an id (`Without`).
`Discover`, `getTable` and `getJSON` are called by no command, which is the
finding of `discover_output`.

## 3. Runs

| Run | Instance | Shows |
|---|---|---|
| `group_sync` | 2 groups, names with and without the prefix, interval 2, latency 1, time to 5 | `GroupsAvailableBetweenSyncs`, `CachedNamesBounded` |
| `staleness` | 1 request slot, 1 group, interval 1, latency 1, time to 6 | `MembershipBounded` (bound 3), `NamesBounded` (bound 5) |
| `identity` | 2 requests, 5 tokens, an impersonation header that passes and one that does not, 1 group, one moment | `OwnIdentity`, `MembershipBounded`, `ForwardsAsPromised` (refinement of `Impersonation`) |
| `group_limit` | 1 request slot, 2 groups, limit 2, 4 sets of impersonation headers, interval 2, time to 3 | `GroupLimit`, `ImpersonationRefused`, `ListedGroupsKept` |
| `lifecycle` | both servers, at most 1 connection in use each | `ErrorHasCause`, `DrainGetsItsTime`, `NothingLeftRunning`, `StopsEventually`, `StopsInOrder` and `StopsPromptly` (refinement of `Service`) |
| `endpoints` | 3 service account tokens, 2 RBAC rules, WebSocket lines of up to 3 protocols, second lines of both headers, `Connection` headers | `NoClientToken`, `ProtocolsKept`, `ReadyMeansAccepted` |
| `token_cache` | 2 logins, 2 clusters, lifetimes 1 and 2, time to 4, any file from before | `HandedOutUnexpired`, `TokensKept`, `LoadFailureHasCause`, `AtomicUnlessMissed` (refinement of `TokenStore`) |
| `kube_config` | 2 runs, 2 names, any initial file | `EntriesKept`, `OverwritesWithConsent`, `AtomicUnlessMissed` (refinement of `ConfigStore`) |
| `discover` | 1 application with up to 3 tags or 2 with 1, 2 subscriptions with any of 3 tags, two of them ours | `FirstFoundIsUsed`, `NoGoodOneIsMissed`, `ApplicationsAsTagged` |
| `lifecycle_log` | as `lifecycle` | violated: `ExitedProperly` |
| `token_resource` | 2 logins, 2 resources | violated: `TokenIsForResource` |
| `discover_output` | as `discover` | violated: `OutputAsAsked` |

Most passing runs also check their module's type invariant.

Bounds.  `MaxTime` stops the clock.  In `staleness` it is larger than either
bound, so that something older than the bound could be forwarded; in
`group_sync` it is larger than interval plus latency and covers two ticks, and
in `group_limit` it passes the moment at which the entries of the first sync
expire unless the second renews them.
Never-held memberships count as older than any bound (`Never`), so the bounds
are also violated by a group that was never the principal's, at any time; that
is what `MembershipBounded` and the promise mean in `identity`.
Two request slots give every interleaving of two resolutions.  Time together
with two slots is too large for TLC, so `identity` is one moment, in which the
directory and the cache may still change between any two steps; the
combination is covered by the proofs, which bound neither.  `MaxActive = 1` is
enough because only whether a server has a connection in use matters to
`Shutdown`.

In `endpoints`, three tokens (`MaxTokens`) let the file be renewed between `New`
and `Start` and once more before either token expires; three protocols are the
least in which a token stands before, between and after others.  One RBAC rule
suffices for an ok and one does not.

In `kube_config` every one of the 64 files of two names and three sections is
an initial state, and one target is enough because an entry counts only as
present, absent, or foreign; a third run adds no overlap that two do not have,
and the theorem covers any number.

In `discover`, two subscriptions (`MaxSubscriptions`) are a bad one before a good
one and a good one before another; three tags of an application are one that is
overruled, one that is empty, and one that counts, in any order.

Lost updates are real, and the properties of the two files say so.  A login or a
run that loads the file, and writes it after another has written it
completely, undoes what that one wrote; a run of `generate` that loads the
kubeconfig between another's truncation and write sees a configuration without
entries, succeeds, and leaves a file with its own cluster only.  Neither needs
writes that overlap.  `missed` names the clusters that this can concern, and the
properties say that nothing else is concerned: no other cluster, no step but
the write, no file that does not parse, and no more in later steps than what
was missed.  Only two writes at once, or one that is cut off, may leave any
file (`raced`), and after those nothing is claimed.

What `GroupLimit` claims is the code's limit and not the documented one: a user
with exactly `MaxGroupCount` groups is refused (`handlers.go:147`, and the test at
`handlers_test.go:417` agrees), although the comment at `handlers.go:146` and the
help of the flag at `config.go:11` speak of more groups than that.  In
`group_limit` a user of two groups meets a limit of two, which by the
documentation would be forwarded.

`ListedGroupsKept` speaks of groups that are cached between two successful syncs.
After a sync that failed or was slow they have expired, and a user resolved then
loses them silently and is cached so for an interval: the code does this, and no
property claims otherwise.

Deadlock is checked except where the program stops: in `lifecycle` and
`lifecycle_log`, when `Start` has returned, and in `discover` and
`discover_output`, when the command has ended.  In the others the directory
can always change, the container can always be restarted, or another process can
always start.

Each property of a passing run has a mutant of the code it depends on (the
definitions commented "Mutant:"), under which TLC finds it violated.

### Timing

`MaxLatency` bounds a sync run, a handler up to `ServeHTTP`, and a login once
it has its token.  The code enforces none of these bounds (Graph is called
without a timeout): the staleness bounds hold *relative to* the latency, and
grow with it.  A tick is taken before the clock moves on when the sync goroutine
is waiting.  The clock cannot advance past a bound; no fairness is assumed of
it, and the safety properties need none.

### Fairness

Only `ServerLifecycle` has liveness: a handler or a login that waits for Azure
may wait for ever, and nothing promises otherwise.  Assumed: `Start`'s goroutine and the
goroutines of both servers and both shutdowns run when they can; the timer of
the shutdown context fires; a `select` that is offered the end of its context
again and again takes it (strong fairness of `GivesUp`, because `Shutdown`
polls in between); opening a listener comes to an end; a Graph call whose context is done ends.  Not assumed: that
a connection becomes idle, that a signal comes, or that any other Graph call
answers.  `StopsEventually` therefore shows that a hanging connection or a
hanging group sync cannot keep `Start` from returning: `g.Wait` ends the
context before `stopGroupSync` waits for the sync goroutine.
It speaks of a `Start` that has launched its servers.  On the early return
of `proxy.go:109` the context ends only after `stopGroupSync`: if a tick came
during the first listing, the sync goroutine may be inside a Graph call that
never answers, and `Start` then waits with it.
`StopsPromptly` shows the same of each stage: from the fairness of the
goroutines follow the weak fairness of beginning to stop, of closing each server,
of the time limit and of the end in `Service`.

### Findings

1. `proxy.go:179/190`: the shutdown goroutines share `err`.  A failed shutdown
   can be overwritten by the other's success, and `Start` logs
   "Server exited properly" (`lifecycle_log`).
2. `token.go:105`: a cached token is handed out whatever resource it is for,
   where `token_test.go:180` asserts that they agree (`token_resource`).
3. `discover.go:64`: `runDiscover` prints the slice that `Run` returns, whatever
   `--output` says; the README (line 192) promises JSON (`discover_output`).

Seen while modelling and not checked by a run:

- `handlers.go:146` and `config.go:11` speak of *more* groups than the limit;
  the code turns away exactly the limit, too.
- `handlers.go:119` speaks of the token hash; the key is the `sub` claim, so a
  renamed user keeps the old username until the entry expires (`OwnIdentity` and
  the promise allow it).
- `handlers.go:127`: the comment is "Verify that client isn't sending impersonation
  headers"; the loop below it lets a client's `Impersonate-Uid` pass.
- `handlers.go:192`: the reverse proxy removes what the client's `Connection`
  header names, also when the handler has just set it.
- A Graph call of the sync can hold up the early return of `Start`
  (`proxy.go:104-109`), as described under "Fairness".
- `handlers.go:164-166`: only the first line of `Sec-WebSocket-Protocol` is kept,
  and every request without the header gets an empty one.
- The service account token is never read again, so an expired one fails every
  request until the container is restarted, and `/healthz`, which restarts it,
  asks Graph only.
- `health.go:82`: readiness wants one rule to name all three resources and the
  verb itself; rights given by `*` or by two rules are not seen, and
  `resourceNames` and `apiGroups`, which limit a rule, are not looked at.
- `proxy_metrics.go:10` counts "successful requests" before `ServeHTTP`.
- `token.go:134` and `discover.go:215` report a failed write of the token file,
  and subscriptions without clusters, as errors of authentication.
- Subscription tags are read only when Graph refuses for lack of privileges, where
  the README (line 171) offers them "as well"; one bad tag hides the other
  clusters of its subscription.
- `Menu` resets `insecureSkipVerify` by its first `Merge` (`menu.go:83`,
  `generate.go:208`), so that the menu's `--tls-insecure-skip-verify`
  (`config.go:46`) has no effect.

## 4. Proofs

TLAPS checks every step of the `*Proofs` modules, for every value of the
constants that satisfies the named assumptions (`ClockAssumption`,
`AzureADAssumption`, `TokensAssumption`, `HeaderSetsAssumption`,
`KeysAssumption`, `ConfigAssumption`, `MaxActiveAssumption`, `TimesAssumption`, `EntriesAssumption`,
`EndpointsAssumption`, `DiscoverAssumption`).  `TokensAssumption` is the one about
the outside world: two valid tokens with the same `sub` are of one object, which
Azure AD promises for one application.  `KeysAssumption` says that no `sub` claim
is a group id.  `TimesAssumption` and `DiscoverAssumption` also give the types of
what comes from outside: a token is not the absence of one, and an application
that Graph lists has URIs, a name and tags.

**Loops.**  No theorem of the library about induction can be used here, because
its hypothesis is an operator.  `LoopsProofs` states induction as a fact about
sets of numbers instead (`Induction`), which follows from the least element of
a set of numbers that is not empty (`LeastNumber`), and that from the
well-foundedness of `<`.  A loop of `n` turns over values of a set is then an
element of `Runs`, which is not empty (`LoopRuns`): that is what turns the
`CHOOSE` behind a recursive function into its equations (`LoopTurns`,
`WithoutLoops`).  `WithoutKeeps` is what the loop returns for a slice of any
length: the elements that are not skipped, each at the position that counts the
kept ones before it, and no others.

**GroupSync.**  `SyncInv` says that a running sync keeps to its latency
(`RunInTime`), that what it has yet to store was in force when it began
(`ToStoreOK`), and that an entry expires at most an interval and a run after
its name was last in force (`EntriesOK`); `CachedNamesBounded` alone is not
inductive, since it says nothing of what is listed and not stored.
`GroupsAvailableBetweenSyncs` needs two more facts: where the next tick stands
(`TicksInTime`) and that what was listed is stored or still to be stored
(`ListedStored`).

**ProxyHandler.**  `Inv` adds for every request: it keeps to its latency
(`RequestInTime`), it is authenticated past the check (`RequestChecked`), while
it resolves, what Graph answered was true since it arrived (`ResolvingOK`), and
when it forwards its user is as fresh as one cached when it arrived
(`ResolvedOK`); and for every cached user that it is as fresh as its expiration
says, belongs to its key and is within the limit (`CachedUsersOK`).  The step of
another part of the system only moves time and the directory on
(`SyncKeepsInv`); the step of a handler touches one request
(`GoodStepKeepsInv`), except `StoreUser`, which also writes the cache.  The
bounds, the limit and the identity follow from `Inv` by arithmetic, and the
action property `ListedGroupsKept` from `Inv` and the invariants of the sync.

`ImplementsPromise` is the refinement of `Impersonation`: initial states map to
initial states, and each step of a handler is one step of `Impersonation` or, while
the user is resolved, a stutter; the guards of `Decide` and `Send`
follow from `Inv`, where the bounds of `TrueWithin` come from.  Steps of
the sync and of the cache map to stutters, those of the directory and the
clock to `WorldStep`.

**ServerLifecycle.**  `ServersOK` and `SyncOK` say where the servers, their
shutdowns and the sync are at each step of `Start`; `ErrorsOK` that an error in
`err`, in the errgroup or in a result of `Shutdown` has a `Cause`, and that the
context does not end without one before `g.Wait` has returned.  A cause never
goes away (`CauseStays`), so that a stale load of `err` cannot do without one.
The last point is why `ErrorHasCause` needs no assumption on the race.
`ImplementsService` adds `PromiseOK`, which the safety invariants do without: a
broken server's error is in the errgroup, a server is closed from the beginning
of its shutdown on, a shutdown that ended without an error has left no
connection in use, and what `Start` returns is what the errgroup kept.

**Endpoints.**  `TokensOK` orders the tokens: the health client's is never newer
than the handlers', and neither newer than the file.  That order is the whole
argument for `ReadinessIsMeant`: if the older is accepted, so is the newer.
`PassedChecks` says what is known of a request at each middleware, and `SentOK`
that what was sent is that request as rewritten with the token the handlers still
hold, less what `Connection` names.  `ProtocolsAreKept` follows from `SentOK` and
`StripKeeps`, which is `WithoutKeeps` for the protocols of a line.

**Discover.**  `Replies` says that every subscription tried before was not to be
used, `Reading` that the clusters collected are those of the tags already
seen, each of them complete, and `Progress` ties the two to `pc`.
`FirstFoundIsTheAnswer` and `NoneIsMissed` are then read off.
The other way of discovery has an invariant of its own, `Typed`: once Graph has
listed applications, the clusters are those `GetDiscoverData` makes of them
(`Listed`).  `TaggedSays` is the induction over the tags of an application, that
the variable of the loop is the last tag of its kind that is not empty;
`DataOfApplications` puts it together with `WithoutKeeps`, and
`ApplicationsAreListedAsTagged` follows.

**TokenCache.**  `TokenLasts` relates the token in hand to the time a login
still takes; it needs that every map holds tokens under their own names
(`MapsNamed`).  `KeptInv` says, while nothing is raced, that what a login has in
memory is what the file holds but for the clusters it has missed (`HoldsCopy`),
that the file holds what was last stored but for what has been undone, and that
a login writes alone on a file that is empty meanwhile (`WritesAlone`).
`ImplementsStore` adds `AtomicInv`: a login that goes on to write does so because
no token lasts for its cluster in what it has read (`NothingLasts`), which
time does not change (`ValidityEnds`).  With it each step of a login is one of
`TokenStore` or a stutter (`LoginImplements`), and the clock moves only as far as
`Tick` allows (`ClockImplements`).

**KubeConfig.**  The same two ideas with a network call and a prompt in
between, and `OverwriteAllowed`: past the choice of the cluster, a client with
`overwrite` set has consent.  `MayWrite` carries the result of the checks from
`Load` to the write.  `SettledInv` says that the file is what it was settled to be
while nobody writes it.  `ImplementsStore` needs no more than this invariant:
every step but `WriteFile` leaves what counts as stored alone (`FileStays`,
`EndIsLeft`), and `WriteFile` sets the three sections of one cluster (`EntrySet`),
with consent or where the checks found none of them (`NotFoundIsAbsent`).

Only model-checked: `StopsEventually` and `StopsPromptly`, because liveness under
fairness is beyond the prover.  Of the other properties of
passing runs, `NoClientToken` has no theorem, because it follows from the guards
and the assignments of one step; every other one is stated by a theorem.

## 5. Not modelled

- Contents of HTTP requests, TLS, metrics, logging, packaging.
- What CORS allows: rs/cors only puts it into headers of the answer.
- Arguments and environment (`config.go` of both programs): their values are the
  CONSTANTS, and the texts of errors are left out.
- The rendering of `discover` (`Discover`, `getTable`, `getJSON`), which no command
  calls.
- Paging of Graph answers, and Graph's own caches and delays.
- A `Stat` of the token file that fails for another reason than its absence
  (`fileExists`, `token.go:243-246`, takes any error for an absent file) while the
  write that follows succeeds.
- Upgraded (hijacked) connections, which `Shutdown` does not wait for.
- A torn read of the two words of `err` (an interface value): the race is
  modelled by which store a load sees.
- The branch after a failing `setUser` (`handlers.go:157` has no `return`):
  `memoryCache` never fails.
- `getBearerToken`, `getEncodedHash`, `getCacheEngine`: only tests call them.

## 6. Plan

In this order; the modules above are what the items build on.

1. `insecureSkipVerify` in `KubeConfig`, with the dial it decides.
2. The configuration: which combinations of flags the proxy accepts, and which
   values the modules' CONSTANTS can then have.
3. A promise about the start: a signal during the first listing, which has no
   timeout, is not handled before the servers run (`proxy.go:98`); the code
   promises nothing that a property could state yet.
4. What `StopsEventually` rests on besides fairness, as an invariant without
   ENABLED: in no state of a `Start` that is stopping do its goroutines all wait
   for one another.
