-------------------------- MODULE JournalSnapshot --------------------------
(***************************************************************************)
(* The data the operation journal writes: one entry per reviewed plan and  *)
(* the high-water mark of operation identifiers (OperationJournal.h,       *)
(* OperationJournal.cpp).  A snapshot is the content of the journal file   *)
(* operation-journal-v1.json; it is replaced as a whole by every mutation. *)
(*                                                                         *)
(* Item evidence is abstracted to what the lifecycle rules read: which     *)
(* source items have a result, and the status of each.                     *)
(***************************************************************************)
EXTENDS Naturals, FiniteSets

CONSTANTS
  Plans,          \* identities of immutable operation plans
  SourceCount,    \* SourceCount[p]: number of source items of plan p
  MaxSequence,    \* stands for UINT64_MAX, the last operation sequence
  MaxEntries,     \* OperationJournal::MaxEntries
  MaxItemResults, \* OperationJournal::MaxItemResults
  Offered         \* the evidence vectors callers hand to Finalize

ASSUME SnapshotAssumption ==
  /\ IsFiniteSet(Plans)
  /\ SourceCount \in [Plans -> Nat \ {0}]
  /\ MaxSequence \in Nat \ {0}
  /\ MaxEntries \in Nat
  /\ MaxItemResults \in Nat

ItemStatus == {"Succeeded", "Skipped", "Failed", "Cancelled"}

TerminalStates == {"Completed", "Failed", "Cancelled"}
LiveStates     == {"Admitted", "Running"}
States         == LiveStates \cup {"Interrupted"} \cup TerminalStates

(***************************************************************************)
(* Evidence is a partial function from item indexes to statuses: strictly  *)
(* increasing item indexes leave no other freedom.                         *)
(***************************************************************************)
NoEvidence == << >>

ASSUME OfferedAssumption ==
  \A ev \in Offered : \A i \in DOMAIN ev : ev[i] \in ItemStatus

NoEntry == [id |-> 0, state |-> "Absent", results |-> NoEvidence]

Entries == [id      : 0 .. MaxSequence,
            state   : States \cup {"Absent"},
            results : Offered \cup {NoEvidence}]

Snapshots == [schema  : {"absent", "legacy", "current"},
              next    : 1 .. MaxSequence,
              entries : [Plans -> Entries]]

(* The directory before the journal has ever been created. *)
NoJournal == [schema |-> "absent", next |-> 1, entries |-> [p \in Plans |-> NoEntry]]

Present(s)  == {p \in Plans : s.entries[p].state # "Absent"}
ItemsOf(s)  == UNION {{p} \X DOMAIN s.entries[p].results : p \in Present(s)}

LegalTransition(from, to) ==
  \/ from \in {"Admitted", "Interrupted"} /\ to \in {"Failed", "Cancelled"}
  \/ from = "Running" /\ to \in TerminalStates

ValidOrderedItemResults(p, results) == DOMAIN results \subseteq 1 .. SourceCount[p]

HasStatus(results, status) == \E i \in DOMAIN results : results[i] = status

ValidEntryLifecycle(p, e) ==
  /\ ValidOrderedItemResults(p, e.results)
  /\ e.state = "Admitted" => DOMAIN e.results = {}
  /\ e.state = "Completed" => /\ DOMAIN e.results = 1 .. SourceCount[p]
                              /\ ~HasStatus(e.results, "Failed")
                              /\ ~HasStatus(e.results, "Cancelled")
  /\ e.state = "Failed" => \/ DOMAIN e.results = {}
                           \/ /\ HasStatus(e.results, "Failed")
                              /\ ~HasStatus(e.results, "Cancelled")
  /\ e.state = "Cancelled" => \/ DOMAIN e.results = {}
                              \/ /\ HasStatus(e.results, "Cancelled")
                                 /\ ~HasStatus(e.results, "Failed")

(***************************************************************************)
(* What the strict decoder accepts.  An older schema carries no high-water *)
(* mark: the decoder derives it from the largest identifier, which must    *)
(* leave room for a successor.                                             *)
(***************************************************************************)
UniqueIds(s) ==
  \A p, q \in Present(s) : s.entries[p].id = s.entries[q].id => p = q

Decodable(s) ==
  /\ Cardinality(Present(s)) <= MaxEntries
  /\ Cardinality(ItemsOf(s)) <= MaxItemResults
  /\ UniqueIds(s)
  /\ \A p \in Present(s) : /\ s.entries[p].id \in 1 .. (MaxSequence - 1)
                           /\ ValidEntryLifecycle(p, s.entries[p])
  /\ s.schema # "legacy" => \A p \in Present(s) : s.entries[p].id < s.next

DerivedNext(s) ==
  CHOOSE n \in 1 .. MaxSequence :
    /\ \A p \in Present(s) : s.entries[p].id < n
    /\ n = 1 \/ \E p \in Present(s) : s.entries[p].id = n - 1

(* The next_operation_sequence an opened journal starts from. *)
DecodedNext(s) == IF s.schema = "legacy" THEN DerivedNext(s) ELSE s.next

KeepLive(e) == e \* mutant: the reopened journal resumes what was live

Interrupt(e) == IF e.state \in LiveStates THEN [e EXCEPT !.state = "Interrupted"] ELSE e

(* The snapshot Open publishes: work that was live is Interrupted, never resumed. *)
Recover(s) == [schema  |-> "current",
               next    |-> DecodedNext(s),
               entries |-> [p \in Plans |-> Interrupt(s.entries[p])]]

WithEntry(s, p, e) == [s EXCEPT !.entries[p] = e]
=============================================================================
