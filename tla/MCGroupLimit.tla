----------------------------- MODULE MCGroupLimit -----------------------------
(***************************************************************************)
(* ProxyHandler for TLC: one request at a time of a user of up to two      *)
(* groups, where MaxGroupCount is two, with impersonation headers of its   *)
(* own or none, from the first sync until the entries it stored would have *)
(* expired had the second not renewed them.                                *)
(***************************************************************************)
EXTENDS ProxyHandler, TLC

CONSTANTS r1, g1, g2, p1, admin

MCGroups == {g1, g2}

MCTokens == {[sub |-> "s1", oid |-> p1, username |-> "ann", accepted |-> TRUE]}

MCHeaderSets == {{}, {"User", "Uid"}, {"Group"}, {"Extra"}}

GroupSymmetry == Permutations(MCGroups)
==============================================================================
