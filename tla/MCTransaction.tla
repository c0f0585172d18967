--------------------------- MODULE MCTransaction ---------------------------
(* Every answer a provider can give, well formed or not, to three threads.  *)
EXTENDS Transaction, TLC

MCAnswers == CommitResults
Symmetry  == Permutations(Callers)
=============================================================================
