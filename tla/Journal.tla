------------------------------ MODULE Journal ------------------------------
(***************************************************************************)
(* The durable operation journal (OperationJournal.cpp).  A handle is one  *)
(* OperationJournal::Impl: it is opened under an exclusive flock, keeps    *)
(* the entries in memory and replaces the whole file on every mutation:    *)
(* temporary file, fsync, rename, fsync of the directory.                  *)
(*                                                                         *)
(* The file system is two views of one name: disk is what a read returns   *)
(* now, survivors is the set of contents a power loss may leave behind.    *)
(* Every mutation holds the handle's mutex from its checks to its return,  *)
(* so a handle has at most one pending persist; a crash or a power loss    *)
(* may come between any two of its steps.                                  *)
(***************************************************************************)
EXTENDS JournalSnapshot

CONSTANTS
  Handles,        \* journal instances; each is opened at most once
  Legacy          \* snapshots an older release may have left behind

ASSUME LegacyAssumption ==
  \A s \in Legacy : s \in Snapshots /\ Decodable(s) /\ s.schema = "legacy"

VARIABLES
  disk,           \* the journal file, as a read returns it
  survivors,      \* the contents a power loss may leave
  phase,          \* life of a handle
  usable,         \* Impl::usable, cleared by an uncertain publication
  mem,            \* Impl::entries and Impl::next_operation_sequence
  pending,        \* the persist a handle is executing, or Idle
  reservations,   \* Impl::reservations, with the handle that made each
  receipts,       \* move-only admission and run receipts, unconsumed
  bound,          \* history: the identifier a plan was admitted under
  reported        \* history: the entry a caller was told is final

disk_vars   == <<disk, survivors>>
handle_vars == <<phase, usable, mem, pending>>
client_vars == <<reservations, receipts>>
hist_vars   == <<bound, reported>>
vars        == <<disk_vars, handle_vars, client_vars, hist_vars>>

Ids      == 1 .. MaxSequence
Ops      == {"open", "admit", "run", "finalizeAdmission", "finalize"}
Idle     == [op |-> "idle"]
Pendings == [op : Ops, about : SUBSET Plans, cand : Snapshots, renamed : BOOLEAN]
Receipts == [kind : {"admission", "run"}, handle : Handles, plan : Plans, id : 0 .. MaxSequence]
NotReported == NoEntry

AdmissionReceipt(h, p, id) == [kind |-> "admission", handle |-> h, plan |-> p, id |-> id]
RunReceipt(h, p, id)       == [kind |-> "run", handle |-> h, plan |-> p, id |-> id]

(* The ranges; no operation passes the last identifier of the sequence.       *)
TypeOK ==
  /\ disk \in Snapshots
  /\ survivors \subseteq Snapshots
  /\ phase \in [Handles -> {"fresh", "opening", "open", "dead"}]
  /\ usable \in [Handles -> BOOLEAN]
  /\ mem \in [Handles -> Snapshots]
  /\ pending \in [Handles -> Pendings \cup {Idle}]
  /\ reservations \subseteq Handles \X Ids
  /\ receipts \subseteq Receipts
  /\ bound \in [Plans -> 0 .. MaxSequence]
  /\ reported \in [Plans -> Entries]

Init ==
  /\ disk \in Legacy \cup {NoJournal}
  /\ survivors = {disk}
  /\ phase = [h \in Handles |-> "fresh"]
  /\ usable = [h \in Handles |-> FALSE]
  /\ mem = [h \in Handles |-> NoJournal]
  /\ pending = [h \in Handles |-> Idle]
  /\ reservations = {}
  /\ receipts = {}
  /\ bound = [p \in Plans |-> IF p \in Present(disk) THEN disk.entries[p].id ELSE 0]
  /\ reported = [p \in Plans |-> IF disk.entries[p].state \in TerminalStates
                                  THEN disk.entries[p] ELSE NotReported]

-----------------------------------------------------------------------------
(* Who may act.  The flock is held from the start of Open to the death of   *)
(* the handle; the mutex by the mutation that is pending.                   *)

Locked(h)  == phase[h] \in {"opening", "open"}
CanWork(h) == phase[h] = "open" /\ usable[h] /\ pending[h] = Idle

Publish(h, op, about, cand) ==
  pending' = [pending EXCEPT ![h] =
                [op |-> op, about |-> about, cand |-> cand, renamed |-> FALSE]]

-----------------------------------------------------------------------------
(* Open: take the lock, read and decode, then interrupt what was live.      *)

NeedsPersist(s) == s.schema # "current" \/ Recover(s) # s

\* mutant: the exclusive lock is not taken
MayOpenUnlocked(h) == phase[h] = "fresh" /\ Decodable(disk)

MayOpen(h) ==
  /\ phase[h] = "fresh"
  /\ \A g \in Handles : ~Locked(g)
  /\ Decodable(disk)

OpenUnchanged(h) ==
  /\ MayOpen(h)
  /\ ~NeedsPersist(disk)
  /\ phase' = [phase EXCEPT ![h] = "open"]
  /\ usable' = [usable EXCEPT ![h] = TRUE]
  /\ mem' = [mem EXCEPT ![h] = disk]
  /\ UNCHANGED <<disk_vars, pending, client_vars, hist_vars>>

OpenPersisting(h) ==
  /\ MayOpen(h)
  /\ NeedsPersist(disk)
  /\ phase' = [phase EXCEPT ![h] = "opening"]
  /\ Publish(h, "open", {}, Recover(disk))
  /\ UNCHANGED <<disk_vars, usable, mem, client_vars, hist_vars>>

-----------------------------------------------------------------------------
(* The operations: the checks of each and the candidate it will persist.    *)

\* mutant: no check that a successor of the identifier exists
ReserveWithoutLimit(h) ==
  /\ CanWork(h)
  /\ reservations' = reservations \cup {<<h, mem[h].next>>}
  /\ mem' = [mem EXCEPT ![h].next = @ + 1]
  /\ UNCHANGED <<disk_vars, phase, usable, pending, receipts, hist_vars>>

ReserveOperationId(h) ==
  /\ CanWork(h)
  /\ mem[h].next < MaxSequence
  /\ reservations' = reservations \cup {<<h, mem[h].next>>}
  /\ mem' = [mem EXCEPT ![h].next = @ + 1]
  /\ UNCHANGED <<disk_vars, phase, usable, pending, receipts, hist_vars>>

ReleaseReservation(h, id) ==
  /\ phase[h] = "open" /\ pending[h] = Idle
  /\ <<h, id>> \in reservations
  /\ reservations' = reservations \ {<<h, id>>}
  /\ UNCHANGED <<disk_vars, handle_vars, receipts, hist_vars>>

\* mutant: the high-water mark is persisted without the new identifier
AdmitCandidateStaleMark(s, p, id) ==
  [WithEntry(s, p, [id |-> id, state |-> "Admitted", results |-> NoEvidence]) EXCEPT !.next = id]

AdmitCandidate(s, p, id) ==
  WithEntry(s, p, [id |-> id, state |-> "Admitted", results |-> NoEvidence])

\* mutant: one entry too many
AdmitBeyondLimit(h, id, p) ==
  /\ CanWork(h)
  /\ <<h, id>> \in reservations
  /\ Cardinality(Present(mem[h])) <= MaxEntries
  /\ p \notin Present(mem[h])
  /\ Publish(h, "admit", {p}, AdmitCandidate(mem[h], p, id))
  /\ UNCHANGED <<disk_vars, phase, usable, mem, client_vars, hist_vars>>

Admit(h, id, p) ==
  /\ CanWork(h)
  /\ <<h, id>> \in reservations
  /\ Cardinality(Present(mem[h])) < MaxEntries
  /\ \A q \in Present(mem[h]) : mem[h].entries[q].id # id
  /\ p \notin Present(mem[h])
  /\ Publish(h, "admit", {p}, AdmitCandidate(mem[h], p, id))
  /\ UNCHANGED <<disk_vars, phase, usable, mem, client_vars, hist_vars>>

(* A receipt is honoured by the instance that issued it, for the entry it names. *)
Honours(h, r, state) ==
  /\ r.handle = h
  /\ mem[h].entries[r.plan].id = r.id
  /\ mem[h].entries[r.plan].state = state

TransitionToRunning(h, r) ==
  /\ CanWork(h)
  /\ r.kind = "admission" /\ Honours(h, r, "Admitted")
  /\ Publish(h, "run", {r.plan},
             WithEntry(mem[h], r.plan, [mem[h].entries[r.plan] EXCEPT !.state = "Running"]))
  /\ UNCHANGED <<disk_vars, phase, usable, mem, client_vars, hist_vars>>

FinalizeAdmission(h, r, terminal) ==
  LET e == [mem[h].entries[r.plan] EXCEPT !.state = terminal]
  IN  /\ CanWork(h)
      /\ r.kind = "admission" /\ Honours(h, r, "Admitted")
      /\ LegalTransition("Admitted", terminal)
      /\ ValidEntryLifecycle(r.plan, e)
      /\ Publish(h, "finalizeAdmission", {r.plan}, WithEntry(mem[h], r.plan, e))
      /\ UNCHANGED <<disk_vars, phase, usable, mem, client_vars, hist_vars>>

Finalize(h, r, results, terminal) ==
  LET e    == [mem[h].entries[r.plan] EXCEPT !.state = terminal, !.results = results]
      cand == WithEntry(mem[h], r.plan, e)
  IN  /\ CanWork(h)
      /\ r.kind = "run" /\ Honours(h, r, "Running")
      /\ LegalTransition("Running", terminal)
      /\ DOMAIN mem[h].entries[r.plan].results = {}
      /\ ValidOrderedItemResults(r.plan, results)
      /\ Cardinality(ItemsOf(cand)) <= MaxItemResults
      /\ ValidEntryLifecycle(r.plan, e)
      /\ Publish(h, "finalize", {r.plan}, cand)
      /\ UNCHANGED <<disk_vars, phase, usable, mem, client_vars, hist_vars>>

-----------------------------------------------------------------------------
(* OperationJournalPersist: the steps after the candidate is built.         *)

Working(h) == pending[h] # Idle

(* Memory is replaced, the authority the operation spent is gone and the new *)
(* receipt exists only once the directory is synced.                         *)
Commit(h) ==
  LET w     == pending[h]
      spent == {r \in receipts : r.handle = h /\ r.plan \in w.about}
      id(p) == w.cand.entries[p].id
  IN  /\ phase' = [phase EXCEPT ![h] = "open"]
      /\ usable' = [usable EXCEPT ![h] = TRUE]
      /\ mem' = [mem EXCEPT ![h] = w.cand]
      /\ reservations' = IF w.op = "admit"
                         THEN reservations \ {<<h, id(p)>> : p \in w.about}
                         ELSE reservations
      /\ receipts' = (receipts \ spent)
                        \cup (IF w.op = "admit"
                              THEN {AdmissionReceipt(h, p, id(p)) : p \in w.about}
                              ELSE IF w.op = "run"
                              THEN {RunReceipt(h, p, id(p)) : p \in w.about} ELSE {})
      /\ bound' = IF w.op = "admit"
                  THEN [p \in Plans |-> IF p \in w.about THEN id(p) ELSE bound[p]]
                  ELSE bound
      /\ reported' = IF w.op \in {"finalizeAdmission", "finalize"}
                     THEN [p \in Plans |-> IF p \in w.about THEN w.cand.entries[p]
                                           ELSE reported[p]]
                     ELSE reported

\* mutant: the instance goes on serving after an uncertain publication
PoisonButServe(h) ==
  /\ pending' = [pending EXCEPT ![h] = Idle]
  /\ UNCHANGED <<phase, usable, mem, client_vars, hist_vars>>

(* A failed Open destroys the instance; any other uncertain operation poisons *)
(* it and spends the receipt, since the file may already hold the new entry.  *)
Poison(h) ==
  LET w == pending[h]
  IN  /\ phase' = [phase EXCEPT ![h] = IF w.op = "open" THEN "dead" ELSE @]
      /\ usable' = [usable EXCEPT ![h] = FALSE]
      /\ receipts' = {r \in receipts : ~(r.handle = h /\ r.plan \in w.about)}
      /\ pending' = [pending EXCEPT ![h] = Idle]
      /\ UNCHANGED <<mem, reservations, hist_vars>>

(* Creating, writing, syncing or closing the temporary file failed: the      *)
(* journal file and the memory are as before, the receipt can be used again. *)
StageFails(h) ==
  /\ Working(h) /\ ~pending[h].renamed
  /\ phase' = [phase EXCEPT ![h] = IF pending[h].op = "open" THEN "dead" ELSE @]
  /\ pending' = [pending EXCEPT ![h] = Idle]
  /\ UNCHANGED <<disk_vars, usable, mem, client_vars, hist_vars>>

ReplaceFile(h) ==
  /\ disk' = pending[h].cand
  /\ survivors' = survivors \cup {pending[h].cand}

Rename(h) ==
  /\ Working(h) /\ ~pending[h].renamed
  /\ ReplaceFile(h)
  /\ pending' = [pending EXCEPT ![h].renamed = TRUE]
  /\ UNCHANGED <<phase, usable, mem, client_vars, hist_vars>>

(* An error from rename says nothing of the name: it may have changed or not. *)
RenameReportsError(h) ==
  /\ Working(h) /\ ~pending[h].renamed
  /\ ReplaceFile(h) \/ UNCHANGED disk_vars
  /\ Poison(h)

\* mutant: success is returned without the fsync of the directory
ReturnWithoutSync(h) ==
  /\ Working(h) /\ pending[h].renamed
  /\ Commit(h)
  /\ pending' = [pending EXCEPT ![h] = Idle]
  /\ UNCHANGED disk_vars

SyncDirectory(h) ==
  /\ Working(h) /\ pending[h].renamed
  /\ survivors' = {disk}
  /\ Commit(h)
  /\ pending' = [pending EXCEPT ![h] = Idle]
  /\ UNCHANGED disk

SyncDirectoryFails(h) ==
  /\ Working(h) /\ pending[h].renamed
  /\ Poison(h)
  /\ UNCHANGED disk_vars

-----------------------------------------------------------------------------
(* The end of a handle.                                                     *)

Forget(hs) ==
  /\ phase' = [h \in Handles |-> IF h \in hs THEN "dead" ELSE phase[h]]
  /\ usable' = [h \in Handles |-> usable[h] /\ h \notin hs]
  /\ mem' = [h \in Handles |-> IF h \in hs THEN NoJournal ELSE mem[h]]
  /\ pending' = [h \in Handles |-> IF h \in hs THEN Idle ELSE pending[h]]
  /\ reservations' = {x \in reservations : x[1] \notin hs}

(* The owner drops the journal: the lock is released, the receipts its       *)
(* clients still hold point to an instance that no longer exists.            *)
Close(h) ==
  /\ phase[h] = "open" /\ pending[h] = Idle
  /\ Forget({h})
  /\ UNCHANGED <<disk_vars, receipts, hist_vars>>

ProcessCrash(h) ==
  /\ Locked(h)
  /\ Forget({h})
  /\ receipts' = {}
  /\ UNCHANGED <<disk_vars, hist_vars>>

PowerLoss ==
  /\ disk' \in survivors
  /\ survivors' = {disk'}
  /\ Forget({h \in Handles : Locked(h)})
  /\ receipts' = {}
  /\ UNCHANGED hist_vars

Persist(h) ==
  \/ StageFails(h)    \/ Rename(h)        \/ RenameReportsError(h)
  \/ SyncDirectory(h) \/ SyncDirectoryFails(h)

Next ==
  \/ \E h \in Handles :
       \/ OpenUnchanged(h) \/ OpenPersisting(h)
       \/ ReserveOperationId(h)
       \/ \E id \in Ids : ReleaseReservation(h, id)
       \/ \E id \in Ids, p \in Plans : Admit(h, id, p)
       \/ \E r \in receipts : TransitionToRunning(h, r)
       \/ \E r \in receipts, t \in States : FinalizeAdmission(h, r, t)
       \/ \E r \in receipts, ev \in Offered, t \in States : Finalize(h, r, ev, t)
       \/ Persist(h)
       \/ Close(h) \/ ProcessCrash(h)
  \/ PowerLoss

Spec == Init /\ [][Next]_vars

-----------------------------------------------------------------------------
(* Safety.                                                                  *)

Serving(h) == phase[h] = "open" /\ usable[h] /\ pending[h] = Idle

(* A terminal entry whose finalization was reported as done is in every       *)
(* content a power loss may leave, whatever was in flight when it struck      *)
(* (the fsync-rename-fsync order of OperationJournalPersist).                 *)
ReportedSurvives ==
  \A p \in Plans : reported[p] # NotReported =>
    \A s \in survivors : s.entries[p] = reported[p]

(* A plan whose admission was acknowledged with a receipt keeps its operation *)
(* identifier in every content a power loss may leave: admitted work is never *)
(* forgotten, and no later start hands the identifier to another plan.        *)
AdmissionSurvives ==
  /\ \A p \in Plans : bound[p] # 0 =>
       \A s \in survivors : s.entries[p].id = bound[p] /\ p \in Present(s)
  /\ \A p, q \in Plans : bound[p] # 0 /\ bound[p] = bound[q] => p = q

(* No crash leaves a journal that the strict decoder of the next start        *)
(* refuses: identifiers are unique and below the high-water mark, every entry *)
(* has a legal lifecycle, the limits hold.                                    *)
NeverUnreadable == \A s \in survivors : Decodable(s)

ReceiptOf(e) == IF e.state = "Admitted" THEN "admission" ELSE "run"

(* In a handle that serves requests, live entries and unspent receipts match  *)
(* one to one: nothing that was live before a restart is live after it, a     *)
(* failed persist loses no authority and an uncertain one leaves none.        *)
AuthorityMatchesJournal ==
  \A h \in Handles : Serving(h) =>
    /\ \A r \in receipts : r.handle = h =>
         /\ mem[h].entries[r.plan].state \in LiveStates
         /\ r = [kind |-> ReceiptOf(mem[h].entries[r.plan]), handle |-> h,
                 plan |-> r.plan, id |-> mem[h].entries[r.plan].id]
    /\ \A p \in Plans : mem[h].entries[p].state \in LiveStates =>
         \E r \in receipts : r.handle = h /\ r.plan = p

(* What a serving handle shows is what is on disk: no operation works from a  *)
(* stale copy of the entries (the flock, and Impl::usable after uncertainty). *)
MemoryIsDisk ==
  \A h \in Handles : Serving(h) =>
    mem[h].entries = disk.entries /\ disk.next <= mem[h].next

(* The claim of the journal's documentation that reopening reconciles durable *)
(* state: an outcome a serving handle shows is in whatever a power loss would *)
(* leave, also if the finalization that wrote it was uncertain.               *)
ReopenShowsDurableState ==
  \A h \in Handles : Serving(h) =>
    \A p \in Plans, s \in survivors :
      mem[h].entries[p].state \in TerminalStates => s.entries[p] = mem[h].entries[p]
=============================================================================
