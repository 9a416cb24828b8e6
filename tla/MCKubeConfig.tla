----------------------------- MODULE MCKubeConfig -----------------------------
(***************************************************************************)
(* KubeConfig for TLC: two concurrent runs and two cluster names.          *)
(***************************************************************************)
EXTENDS KubeConfig, TLC

CONSTANTS r1, r2, n1, n2

MCRuns == {r1, r2}
MCNames == {n1, n2}
Symmetry == Permutations(MCRuns) \cup Permutations(MCNames)
==============================================================================
