------------------------------ MODULE MCIdentity ------------------------------
(***************************************************************************)
(* ProxyHandler for TLC: two concurrent requests of a user who was renamed *)
(* (one sub, two usernames), of a service principal, and of clients whose  *)
(* token is refused or lacks a claim, with impersonation headers or none.  *)
(***************************************************************************)
EXTENDS ProxyHandler, TLC

CONSTANTS r1, r2, g1, p1, p2, admin

MCRequests == {r1, r2}

Bearer(s, o, u) == [sub |-> s, oid |-> o, username |-> u, accepted |-> TRUE]

MCTokens == {Bearer("s1", p1, "ann"), Bearer("s1", p1, "ann-b"),
             Bearer("s2", p2, Nil), Bearer("s2", Nil, "ann"),
             [Bearer("s2", p1, "ann") EXCEPT !.accepted = FALSE]}

(* A header that does not stop a request, and one that does. *)
MCHeaderSets == {{"Uid"}, {"User"}}

RequestSymmetry == Permutations(MCRequests)
==============================================================================
