-------------------------------- MODULE Clock --------------------------------
(***************************************************************************)
(* The time the proxy and Azure AD share.  Durations are counted in ticks  *)
(* of an arbitrary length; the code uses minutes for the sync interval.    *)
(***************************************************************************)
EXTENDS Integers

CONSTANTS
  SyncInterval,   \* cfg.GroupSyncInterval: ticker period and default cache TTL
  MaxLatency,     \* longest a handler (up to ServeHTTP) or a sync run may take
  MaxTime         \* bound of the model: the clock stops here

ASSUME ClockAssumption ==
  /\ SyncInterval \in Nat \ {0}   \* time.NewTicker panics on 0
  /\ MaxLatency \in Nat
  /\ MaxTime \in Nat

VARIABLE now

(* Far enough in the past that no staleness bound of the model reaches it. *)
Never == -(2 * SyncInterval + 3 * MaxLatency + 1)

Time == Nat
==============================================================================
