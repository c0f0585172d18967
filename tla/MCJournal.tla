----------------------------- MODULE MCJournal -----------------------------
(* A small journal: three plans of one, two and one sources, room for two of *)
(* them and four identifiers, and a file that an older release may have left. *)
EXTENDS Journal, TLC

CONSTANTS p1, p2, p3

MCPlans == {p1, p2, p3}
MCSourceCount == (p1 :> 1) @@ (p2 :> 2) @@ (p3 :> 1)

(* Legal and illegal vectors for each terminal state and each plan. *)
MCOffered ==
  { <<"Succeeded">>, <<"Failed">>, <<"Succeeded", "Cancelled">>, NoEvidence }

(* Written by schema v2: work interrupted by the upgrade, and no high-water mark. *)
MCLegacy ==
  { [schema |-> "legacy", next |-> 1,
     entries |-> (p1 :> NoEntry) @@ (p3 :> NoEntry) @@
                 (p2 :> [id |-> 1, state |-> "Running", results |-> <<"Succeeded">>])] }

Symmetry == Permutations(Handles)
=============================================================================
