------------------------------- MODULE Discover -------------------------------
(***************************************************************************)
(* kubectl azad-proxy discover (discover.go): the clusters are found as    *)
(* tagged Azure AD applications or, when the user may not list those, as   *)
(* tags of the first subscription that has well-formed ones.  Whatever     *)
(* Azure answers to a request is chosen when the request is made.          *)
(***************************************************************************)
EXTENDS Naturals, SequencesExt, Loops

CONSTANTS
  Texts,            \* names, resources and addresses
  Empty,            \* ""
  Applications,     \* the answers of Graph: sequences of applications
  Subscriptions,    \* subscription ids
  Pages,            \* pages of subscriptions, some without an id
  Keys,             \* names of tags of subscriptions
  Ours,             \* those that start with _azad-kube-proxy
  Objects,          \* the JSON objects in values of tags, as clusters
  Nil,              \* a tag without value, a subscription without id
  Malformed,        \* a value that is not the JSON of a cluster
  Unreachable,      \* the answer of a request that fails
  MaxSubscriptions  \* bound: subscriptions listed

Field == Texts \cup {Empty}
ClusterType == [name : Field, resource : Field, url : Field]
Complete(c) == c.name # Empty /\ c.resource # Empty /\ c.url # Empty

(* What Graph says of an application; a tag is "<kind>:<text>".             *)
TagType == [kind : STRING, text : Field]
ApplicationType == [uris : Seq(Field), displayName : Field, tags : Seq(TagType)]

(* GetByID's tags of a subscription.                                        *)
Reply == UNION {[K -> Objects \cup {Nil, Malformed}] : K \in SUBSET Keys}

ASSUME DiscoverAssumption ==
  /\ Empty \notin Texts /\ Ours \subseteq Keys /\ MaxSubscriptions \in Nat
  /\ Objects \subseteq ClusterType /\ Applications \subseteq Seq(ApplicationType)
  /\ {Nil, Malformed} \cap Objects = {} /\ Nil # Malformed
  /\ Nil \notin Subscriptions /\ Pages \subseteq Seq(Subscriptions \cup {Nil})
  /\ Unreachable \notin Applications /\ Unreachable \notin Reply

VARIABLES
  pc,        \* the next step of runDiscover
  asked,     \* --output
  apps,      \* what Graph listed, Unreachable before and without an answer
  ids,       \* subscriptionsIds
  replies,   \* what GetByID answered for the first of ids, the last one in use
  seen,      \* tags of the last reply already iterated
  clusters,  \* the clusters found so far
  error,     \* the type of the error returned
  printed    \* what is on stdout

vars == <<pc, asked, apps, ids, replies, seen, clusters, error, printed>>

Outputs == {"TABLE", "JSON", "YAML"}

(* Every type runDiscover's errors have; "none" is nil.                     *)
Errors == {"none", "Unknown", "Authentication", "Authorization"}

TypeOK ==
  /\ pc \in {"start", "list", "credential", "pages", "try", "tags", "print", "done"}
  /\ asked \in Outputs /\ error \in Errors
  /\ apps \in Applications \cup {Unreachable}
  /\ ids \in Seq(Subscriptions) /\ replies \in Seq(Reply \cup {Unreachable})
  /\ seen \subseteq Keys
  /\ clusters \in Seq(ClusterType)
  /\ printed \in {"nothing", "slice"} \cup Outputs

Init ==
  /\ pc = "start" /\ asked \in Outputs /\ apps = Unreachable /\ ids = <<>>
  /\ replies = <<>> /\ seen = {} /\ clusters = <<>>
  /\ error = "none" /\ printed = "nothing"

Fail(type) ==
  /\ pc' = "done" /\ error' = type /\ clusters' = <<>>
  /\ UNCHANGED <<asked, apps, ids, replies, seen, printed>>

(* newDiscoverClient and NewAuthorizer: without a tenant id one is taken    *)
(* from the Azure CLI, if that is allowed; the login itself may then fail.  *)
NewDiscoverClient(tenant, cli, found) ==
  /\ pc = "start"
  /\ CASE asked \notin {"TABLE", "JSON"} -> Fail("Unknown")
       [] asked \in {"TABLE", "JSON"} /\ ~tenant /\ cli /\ ~found -> Fail("Authentication")
       [] OTHER -> /\ pc' = "list"
                   /\ UNCHANGED <<asked, apps, ids, replies, seen, clusters, error, printed>>

NewAuthorizerFails == pc = "list" /\ Fail("Authentication")

(* Mutant: an empty tag takes back what an earlier one said. *)
TaggedLast(tags, kind) ==
  LET text[i \in 0 .. Len(tags)] ==
        IF i = 0 THEN Empty ELSE IF tags[i].kind = kind THEN tags[i].text ELSE text[i - 1]
  IN text[Len(tags)]

(* One variable of the loop over the tags of an application: the last tag   *)
(* of the kind that is not empty.                                           *)
Tagged(tags, kind) ==
  LET text[i \in 0 .. Len(tags)] ==
        IF i = 0 THEN Empty
        ELSE IF tags[i].kind = kind /\ tags[i].text # Empty THEN tags[i].text
        ELSE text[i - 1]
  IN text[Len(tags)]

OrElse(text, default) == IF text = Empty THEN default ELSE text

GetDiscoverData(clusterApps) ==
  LET usable == Without(clusterApps, {a \in ToSet(clusterApps) : a.uris = <<>>})
  IN [i \in DOMAIN usable |->
        LET a == usable[i]
        IN [name |-> OrElse(Tagged(a.tags, "cluster_name"), a.displayName),
            resource |-> Head(a.uris),
            url |-> OrElse(Tagged(a.tags, "proxy_url"), Head(a.uris))]]

ListApplications(clusterApps) ==
  /\ pc = "list"
  /\ pc' = "print" /\ apps' = clusterApps /\ clusters' = GetDiscoverData(clusterApps)
  /\ UNCHANGED <<asked, ids, replies, seen, error, printed>>

(* The error says "Insufficient privileges to complete the operation". *)
NotPrivileged ==
  /\ pc = "list" /\ pc' = "credential"
  /\ UNCHANGED <<asked, apps, ids, replies, seen, clusters, error, printed>>

ListFails == pc = "list" /\ Fail("Authorization")

NewCredential ==
  /\ pc = "credential" /\ pc' = "pages"
  /\ UNCHANGED <<asked, apps, ids, replies, seen, clusters, error, printed>>

NewCredentialFails == pc = "credential" /\ Fail("Authorization")

NextPage(page, more) ==
  /\ pc = "pages"
  /\ ids' = ids \o Without(page, {Nil})
  /\ Len(ids') <= MaxSubscriptions
  /\ pc' = IF more THEN "pages" ELSE "try"
  /\ UNCHANGED <<asked, apps, replies, seen, clusters, error, printed>>

NextPageFails == pc = "pages" /\ Fail("Authorization")

(* trySubscriptionDiscovery of the next subscription begins. *)
TrySubscription(reply) ==
  /\ pc = "try" /\ Len(replies) < Len(ids)
  /\ replies' = Append(replies, reply) /\ seen' = {} /\ clusters' = <<>>
  /\ pc' = IF reply = Unreachable THEN "try" ELSE "tags"
  /\ UNCHANGED <<asked, apps, ids, error, printed>>

NoSubscriptionLeft == pc = "try" /\ Len(replies) = Len(ids) /\ Fail("Authentication")

(* Mutant: a broken value is skipped and the others are used. *)
TakeTagSkippingBroken(key) ==
  LET value == Last(replies)[key]
  IN /\ pc = "tags" /\ key \in DOMAIN Last(replies) \ seen
     /\ seen' = seen \cup {key}
     /\ clusters' = IF key \in Ours /\ value \notin {Nil, Malformed} /\ Complete(value)
                    THEN Append(clusters, value) ELSE clusters
     /\ UNCHANGED <<pc, asked, apps, ids, replies, error, printed>>

(* Mutant: the value is used before it is known to be a cluster. *)
TakeTagUnchecked(key) ==
  /\ pc = "tags" /\ key \in DOMAIN Last(replies) \ seen
  /\ seen' = seen \cup {key}
  /\ clusters' = IF key \in Ours THEN Append(clusters, Last(replies)[key]) ELSE clusters
  /\ UNCHANGED <<pc, asked, apps, ids, replies, error, printed>>

(* One turn of the loop over the map of tags, in whatever order the map is  *)
(* iterated.  A malformed or incomplete value gives the subscription up.    *)
TakeTag(key) ==
  LET value == Last(replies)[key]
      skipped == key \notin Ours \/ value = Nil
      broken == ~skipped /\ (value = Malformed \/ ~Complete(value))
  IN /\ pc = "tags" /\ key \in DOMAIN Last(replies) \ seen
     /\ seen' = seen \cup {key}
     /\ clusters' = IF skipped \/ broken THEN clusters ELSE Append(clusters, value)
     /\ pc' = IF broken THEN "try" ELSE "tags"
     /\ UNCHANGED <<asked, apps, ids, replies, error, printed>>

(* Mutant: a subscription without clusters ends the search. *)
TagsTakenOrFail ==
  /\ pc = "tags" /\ seen = DOMAIN Last(replies)
  /\ \/ clusters = <<>> /\ Fail("Authentication")
     \/ /\ clusters # <<>> /\ pc' = "print"
        /\ UNCHANGED <<asked, apps, ids, replies, seen, clusters, error, printed>>

TagsTaken ==
  /\ pc = "tags" /\ seen = DOMAIN Last(replies)
  /\ pc' = IF clusters = <<>> THEN "try" ELSE "print"
  /\ UNCHANGED <<asked, apps, ids, replies, seen, clusters, error, printed>>

(* runDiscover prints the slice that Run returned: Discover, which renders  *)
(* it as asked, is never called.                                            *)
PrintClusters ==
  /\ pc = "print" /\ pc' = "done" /\ printed' = "slice"
  /\ UNCHANGED <<asked, apps, ids, replies, seen, clusters, error>>

Next ==
  \/ \E tenant, cli, found \in BOOLEAN : NewDiscoverClient(tenant, cli, found)
  \/ NewAuthorizerFails \/ NotPrivileged \/ ListFails
  \/ \E list \in Applications : ListApplications(list)
  \/ NewCredential \/ NewCredentialFails \/ NextPageFails
  \/ \E page \in Pages, more \in BOOLEAN : NextPage(page, more)
  \/ \E reply \in Reply \cup {Unreachable} : TrySubscription(reply)
  \/ NoSubscriptionLeft \/ TagsTaken \/ PrintClusters
  \/ \E key \in Keys : TakeTag(key)

Spec == Init /\ [][Next]_vars
-----------------------------------------------------------------------------
(* The tags of a reply that are meant to describe clusters. *)
Wanted(reply) == {k \in DOMAIN reply \cap Ours : reply[k] # Nil}

(* A subscription whose tags all describe a cluster, and that has one. *)
Good(reply) ==
  /\ reply # Unreachable /\ Wanted(reply) # {}
  /\ \A k \in Wanted(reply) : reply[k] # Malformed /\ Complete(reply[k])

Found == pc = "print" \/ (pc = "done" /\ error = "none")

(* "You can have these tags on all subscriptions the user may have access   *)
(* to and the first one found will be used" (README.md): whatever the order *)
(* in which Go iterates the map, the clusters are those of the tags of one  *)
(* subscription, all of them, and every subscription before it was          *)
(* unreachable, untagged or wrongly tagged.                                 *)
FirstFoundIsUsed ==
  Found /\ apps = Unreachable =>
    LET n == Len(replies)
    IN /\ n > 0 /\ Good(replies[n])
       /\ \A i \in 1 .. n - 1 : ~Good(replies[i])
       /\ ToSet(clusters) = {replies[n][k] : k \in Wanted(replies[n])}

(* An error that is not about the login or the privileges of the user is    *)
(* returned only after every listed subscription was tried, and only when   *)
(* none of them could have been used: no tag order hides a good one.        *)
NoGoodOneIsMissed ==
  pc = "done" /\ error = "Authentication" /\ ids # <<>> =>
    Len(replies) = Len(ids) /\ \A i \in 1 .. Len(replies) : ~Good(replies[i])

(* getDiscoverData: every application with an identifier URI is listed      *)
(* once, in Graph's order, under its first URI; a tag counts unless it is   *)
(* empty or a later one says something else, whichever tags stand between.  *)
ApplicationsAsTagged ==
  apps # Unreachable =>
    LET Says(a, kind, text, default) ==
          LET said == {j \in DOMAIN a.tags : a.tags[j].kind = kind /\ a.tags[j].text # Empty}
          IN IF said = {} THEN text = default
             ELSE \E j \in said : a.tags[j].text = text /\ \A k \in said : k <= j
        usable == {i \in DOMAIN apps : apps[i].uris # <<>>}
    IN /\ Len(clusters) = Cardinality(usable)
       /\ \A i \in usable :
            LET c == clusters[Cardinality({j \in usable : j <= i})]
            IN /\ c.resource = apps[i].uris[1]
               /\ Says(apps[i], "cluster_name", c.name, apps[i].displayName)
               /\ Says(apps[i], "proxy_url", c.url, c.resource)

(* "JSON output is also possible by adding `--output JSON` to the discover  *)
(* command" (README.md): what is printed has the form that was asked for.   *)
OutputAsAsked == printed # "nothing" => printed = asked
==============================================================================
