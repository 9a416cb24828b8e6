----------------------------- MODULE MemoryCache -----------------------------
(***************************************************************************)
(* memoryCache (cache_memory.go): one go-cache map that holds users under  *)
(* their sub claim and groups under their object id.  Every entry is set   *)
(* with duration 0, which go-cache replaces by the default expiration, and *)
(* that is the group sync interval (proxy.go:35).                          *)
(*                                                                         *)
(* The cache is a function whose domain is the set of stored keys.  Each   *)
(* operation runs under go-cache's mutex, so it is one step.               *)
(***************************************************************************)
EXTENDS Clock

VARIABLE cache

(* go-cache hides an entry once the clock is strictly past its expiration. *)
Expired(entry) == now > entry.exp

(* Mutant: an expired entry is returned until the janitor has run. *)
FoundUntilDeleted(k) == k \in DOMAIN cache

Found(k) == k \in DOMAIN cache /\ ~Expired(cache[k])

(* The value getUser and getGroup return with found = true. *)
Lookup(k) == cache[k].val

(* Mutant: the default expiration is twice the sync interval. *)
StoredTwiceAsLong(k, v) ==
  [x \in DOMAIN cache \cup {k} |->
     IF x = k THEN [val |-> v, exp |-> now + 2 * SyncInterval] ELSE cache[x]]

(* Mutant: an entry that is there is kept, as go-cache's Add does. *)
StoredIfAbsent(k, v) ==
  IF Found(k)
    THEN cache
    ELSE [x \in DOMAIN cache \cup {k} |->
            IF x = k THEN [val |-> v, exp |-> now + SyncInterval] ELSE cache[x]]

(* The map after setUser or setGroup. *)
Stored(k, v) ==
  [x \in DOMAIN cache \cup {k} |->
     IF x = k THEN [val |-> v, exp |-> now + SyncInterval] ELSE cache[x]]

(* The janitor goroutine of go-cache drops what has expired. *)
DeleteExpired ==
  /\ \E k \in DOMAIN cache : Expired(cache[k])
  /\ cache' = [k \in {x \in DOMAIN cache : ~Expired(cache[x])} |-> cache[k]]
  /\ UNCHANGED now
==============================================================================
