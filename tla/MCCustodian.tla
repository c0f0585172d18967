---------------------------- MODULE MCCustodian ----------------------------
(* Instances of Custodian for TLC. *)
EXTENDS Custodian, TLC

Symmetry == Permutations(Plans)
=============================================================================
