------------------------------ MODULE MCStaleness ------------------------------
(***************************************************************************)
(* ProxyHandler for TLC, one group and one principal: how old may what a   *)
(* request is forwarded with be, over several cache lifetimes, while the   *)
(* group is deleted and restored and the principal leaves and joins it.    *)
(***************************************************************************)
EXTENDS ProxyHandler

CONSTANTS r1, r2, g1, p1, admin

MCTokens == {[sub |-> "s1", oid |-> p1, username |-> "u1", accepted |-> TRUE]}

MCHeaderSets == {{}}
===============================================================================
