----------------------------- MODULE MCTokenCache -----------------------------
(***************************************************************************)
(* TokenCache for TLC: two concurrent logins, to two clusters.             *)
(***************************************************************************)
EXTENDS TokenCache, TLC

CONSTANTS l1, l2, c1, c2

MCProcesses == {l1, l2}
MCClusters == {c1, c2}
Symmetry == Permutations(MCProcesses) \cup Permutations(MCClusters)
==============================================================================
