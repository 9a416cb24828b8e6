------------------------------ MODULE MCGroupSync ------------------------------
(***************************************************************************)
(* GroupSync for TLC: two groups of one principal, renamed between a name  *)
(* with the prefix and one without, over a few sync intervals.             *)
(***************************************************************************)
EXTENDS GroupSync, TLC

CONSTANTS g1, g2, admin, other

MCGroups == {g1, g2}
MCNames == {admin, other}
MCPrefixedNames == {admin}
GroupSymmetry == Permutations(MCGroups)
==============================================================================
