------------------------------ MODULE TokenStore ------------------------------
(***************************************************************************)
(* What the token cache promises the logins that share it, without files,  *)
(* copies in memory or writes that take time.  A login reads the store and *)
(* later either takes the lasting token that is stored for its cluster, or *)
(* stores a new one.  It does so in one step as far as the clusters go     *)
(* that no other login has changed since it read; those it has missed it   *)
(* may set back to what it read, its own cluster among them.  The promise  *)
(* is off once the store is spoilt.  TokenCache implements it.             *)
(***************************************************************************)
EXTENDS Integers

CONSTANTS Processes, Clusters, ExpiryDelta, NoToken

VARIABLES
  now,
  store,    \* the tokens stored, by cluster
  asked,    \* the cluster of each login
  readers,  \* the logins that have read the store and not yet got a token
  missed,   \* the clusters others have changed since a login read
  handed,   \* the token a login hands out, NoToken until it has one
  spoilt    \* a write was disturbed: nothing is promised of the store

storeVars == <<now, store, asked, readers, missed, handed, spoilt>>

Lasting(t) == t.exp - ExpiryDelta >= now

HasLasting(c) == c \in DOMAIN store /\ Lasting(store[c])

Entered(t) ==
  [c \in DOMAIN store \cup {t.name} |-> IF c = t.name THEN t ELSE store[c]]

StoreInit ==
  /\ now = 0
  /\ asked \in [Processes -> Clusters]
  /\ readers = {} /\ missed = [p \in Processes |-> {}]
  /\ handed = [p \in Processes |-> NoToken]

(* The store becomes s, but for the clusters of C, unless it is spoilt. *)
BecomesBut(C, s) ==
  ~spoilt' => \A c \in Clusters \ C :
                /\ c \in DOMAIN store' <=> c \in DOMAIN s
                /\ c \in DOMAIN s => store'[c] = s[c]

Stays == BecomesBut({}, store)

Ask(p) ==
  /\ p \notin readers /\ handed[p] = NoToken
  /\ \E c \in Clusters : asked' = [asked EXCEPT ![p] = c]
  /\ Stays
  /\ UNCHANGED <<now, readers, missed, handed, spoilt>>

Read(p) ==
  /\ p \notin readers /\ handed[p] = NoToken
  /\ readers' = readers \cup {p}
  /\ missed' = [missed EXCEPT ![p] = {}]
  /\ Stays
  /\ UNCHANGED <<now, asked, handed, spoilt>>

(* A login gets a token for its cluster that has not expired. *)
Get(p) ==
  /\ p \in readers /\ handed'[p] # NoToken
  /\ handed'[p].name = asked[p] /\ handed'[p].exp >= now
  /\ handed' = [handed EXCEPT ![p] = handed'[p]]
  /\ readers' = readers \ {p}
  /\ UNCHANGED <<now, asked, spoilt>>

Take(p) ==
  /\ Get(p)
  /\ ~spoilt /\ asked[p] \notin missed[p] =>
       HasLasting(asked[p]) /\ handed'[p] = store[asked[p]]
  /\ Stays
  /\ UNCHANGED missed

Renew(p) ==
  /\ Get(p)
  /\ ~spoilt /\ asked[p] \notin missed[p] => ~HasLasting(asked[p])
  /\ BecomesBut(missed[p] \ {asked[p]}, Entered(handed'[p]))
  /\ missed' = [q \in Processes |->
                  IF q \in readers \ {p}
                    THEN missed[q] \cup missed[p] \cup {asked[p]}
                    ELSE missed[q]]

Leave(p) ==
  /\ readers' = readers \ {p}
  /\ handed' = [handed EXCEPT ![p] = NoToken]
  /\ missed' = [missed EXCEPT ![p] = {}]
  /\ Stays
  /\ UNCHANGED <<now, asked, spoilt>>

(* Two writes overlap, or one is cut off. *)
Spoil(p) ==
  /\ spoilt' = TRUE
  /\ \/ UNCHANGED <<readers, missed>>
     \/ readers' = readers \ {p} /\ missed' = [missed EXCEPT ![p] = {}]
  /\ UNCHANGED <<now, asked, handed>>

(* No token expires while it is handed out. *)
Tick ==
  /\ now' = now + 1
  /\ \A p \in Processes : handed[p] # NoToken => handed[p].exp >= now'
  /\ Stays
  /\ UNCHANGED <<asked, readers, missed, handed, spoilt>>

StoreNext ==
  \/ \E p \in Processes :
       Ask(p) \/ Read(p) \/ Take(p) \/ Renew(p) \/ Leave(p) \/ Spoil(p)
  \/ Tick

StoreSpec == StoreInit /\ [][StoreNext]_storeVars
==============================================================================
