------------------------- MODULE MCOperationCenter -------------------------
(***************************************************************************)
(* OperationCenter for TLC: model values and their symmetry.               *)
(***************************************************************************)
EXTENDS OperationCenter, TLC

Symmetry == Permutations(Ops)
=============================================================================
