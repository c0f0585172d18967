--------------------------- MODULE DurableOutcome ---------------------------
(***************************************************************************)
(* What the execution of a reviewed plan promises to whoever asked for it, *)
(* whatever fails on the way: its outcome is recorded for good, told once, *)
(* told as it is recorded, and the operation is let go only after that     *)
(* (the contract of durable_terminal_observer in                           *)
(* CopyOperationOrchestrator.h).  How it is done is module Custodian.      *)
(***************************************************************************)
EXTENDS Sequences

CONSTANTS
  Plans,
  Results,     \* what may be recorded of a plan
  Success,     \* the result that counts as completion
  Nothing      \* not a result: nothing is recorded yet

VARIABLES
  outcome,     \* what is recorded of each plan
  told,        \* what its observer was told
  letGo,       \* plans whose operation was let go
  completed    \* plans reported as completed

vars == <<outcome, told, letGo, completed>>

Init ==
  /\ outcome = [p \in Plans |-> Nothing]
  /\ told = [p \in Plans |-> <<>>]
  /\ letGo = {}
  /\ completed = {}

(* A restart of the journal records the outcome of several plans at once. *)
Record ==
  /\ outcome' \in [Plans -> Results \cup {Nothing}]
  /\ \A p \in Plans : outcome[p] # Nothing => outcome'[p] = outcome[p]
  /\ UNCHANGED <<told, letGo, completed>>

Tell(p) ==
  /\ outcome[p] # Nothing /\ told[p] = <<>>
  /\ told' = [told EXCEPT ![p] = <<outcome[p]>>]
  /\ UNCHANGED <<outcome, letGo, completed>>

LetGo(p) ==
  /\ told[p] # <<>> /\ p \notin letGo
  /\ letGo' = letGo \cup {p}
  /\ completed' = IF outcome[p] = Success THEN completed \cup {p} ELSE completed
  /\ UNCHANGED <<outcome, told>>

Next == Record \/ \E p \in Plans : Tell(p) \/ LetGo(p)

Spec == Init /\ [][Next]_vars
=============================================================================
