--------------------------- MODULE MCSearchMode ---------------------------
(* SearchMode for TLC: two searches one after the other, and one change of *)
(* the panel by somebody else.                                             *)
EXTENDS SearchMode
=============================================================================
