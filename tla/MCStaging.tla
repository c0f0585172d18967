----------------------------- MODULE MCStaging -----------------------------
(* Two helpers, two roots and one request with two artifacts for each root:  *)
(* an attempt that fails and the next one.                                   *)
EXTENDS Staging, TLC

Symmetry == Permutations(Ids) \cup Permutations(Helpers)
=============================================================================
