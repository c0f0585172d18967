------------------------------- MODULE MCPool -------------------------------
(* A small pool: the impatient operation, if any, is a constant of its own. *)
EXTENDS Pool, TLC

CONSTANT hasty

MCImpatient == {hasty} \cap Ops
Symmetry    == Permutations(Ops \ {hasty})
=============================================================================
