--------------------------- MODULE JournalProofs ---------------------------
(***************************************************************************)
(* What Journal.tla promises, proved for every set of plans and handles    *)
(* and every value of the limits.                                          *)
(***************************************************************************)
EXTENDS Journal, FiniteSetTheorems, TLAPS

-----------------------------------------------------------------------------
(* Data: what the operators that build a candidate return.                  *)

(* A non-empty set of naturals has a least element (by infinite descent). *)
LEMMA LeastNatural ==
  ASSUME NEW T \in SUBSET Nat, T # {}
  PROVE  \E n \in T : \A m \in T : n <= m
<1> DEFINE R == StrictSubsetOrdering(Nat)
           F == FiniteSubsetsOf(Nat)
           U == {1 .. n : n \in T}
<1>1. IsWellFoundedOn(R, F)
  BY FS_StrictSubsetOrderingWellFounded
<1>2. U \subseteq F
  <2>1. ASSUME NEW n \in T PROVE 1 .. n \subseteq Nat /\ IsFiniteSet(1 .. n)
    BY FS_Interval
  <2> QED BY <2>1 DEF FiniteSubsetsOf
<1>3. PICK u \in U : \A v \in U : <<v, u>> \notin R
  <2>1. U # {}
    OBVIOUS
  <2> HIDE DEF R, F, U
  <2> QED BY <1>1, <1>2, <2>1, WFMin
<1>4. PICK n \in T : u = 1 .. n
  OBVIOUS
<1>5. ASSUME NEW m \in T, m < n PROVE FALSE
  <2>1. 1 .. m \subseteq 1 .. n /\ n \in 1 .. n /\ n \notin 1 .. m
    BY <1>5
  <2>2. 1 .. m \in F /\ 1 .. n \in F
    BY <1>2
  <2>3. <<1 .. m, 1 .. n>> \in R
    BY <2>1, <2>2 DEF StrictSubsetOrdering, FiniteSubsetsOf
  <2> QED BY <2>3, <1>3, <1>4
<1> QED BY <1>5

(* The high-water mark the decoder derives for an older schema exists, and  *)
(* every identifier is below it.                                            *)
LEMMA DerivedNextIsAbove ==
  ASSUME NEW s \in Snapshots, Decodable(s)
  PROVE  /\ DerivedNext(s) \in 1 .. MaxSequence
         /\ \A p \in Present(s) : s.entries[p].id < DerivedNext(s)
<1> DEFINE T == {n \in 1 .. MaxSequence : \A p \in Present(s) : s.entries[p].id < n}
<1>1. MaxSequence \in T
  BY SnapshotAssumption DEF Decodable
<1>2. PICK n \in T : \A m \in T : n <= m
  <2>1. T \in SUBSET Nat /\ T # {}
    BY <1>1, SnapshotAssumption
  <2> HIDE DEF T
  <2> QED BY <2>1, LeastNatural
<1>3. n = 1 \/ \E p \in Present(s) : s.entries[p].id = n - 1
  <2> SUFFICES ASSUME n # 1, \A p \in Present(s) : s.entries[p].id # n - 1
               PROVE  FALSE
    OBVIOUS
  <2>1. \A p \in Present(s) : s.entries[p].id \in Nat
    BY DEF Present, Snapshots, Entries
  <2>2. n - 1 \in T
    BY <2>1, SnapshotAssumption
  <2> QED BY <2>2, <1>2, SnapshotAssumption
<1> HIDE DEF T
<1>4. \E k \in 1 .. MaxSequence :
        /\ \A p \in Present(s) : s.entries[p].id < k
        /\ k = 1 \/ \E p \in Present(s) : s.entries[p].id = k - 1
  BY <1>3 DEF T
<1> QED BY <1>4 DEF DerivedNext

(* Interrupting an entry at open yields an entry. *)
LEMMA InterruptType ==
  ASSUME NEW e \in Entries
  PROVE  /\ Interrupt(e) \in Entries
         /\ Interrupt(e).id = e.id
         /\ Interrupt(e).results = e.results
         /\ e.state \in LiveStates => Interrupt(e).state = "Interrupted"
         /\ e.state \notin LiveStates => Interrupt(e).state = e.state
BY DEF Interrupt, Entries, States

(* What Open recovers from a journal is a journal. *)
LEMMA RecoverType ==
  ASSUME NEW s \in Snapshots, Decodable(s)
  PROVE  Recover(s) \in Snapshots
<1>1. DecodedNext(s) \in 1 .. MaxSequence
  BY DerivedNextIsAbove DEF DecodedNext, Snapshots
<1>2. \A p \in Plans : Interrupt(s.entries[p]) \in Entries
  BY InterruptType DEF Snapshots
<1> QED BY <1>1, <1>2 DEF Recover, Snapshots

(* Replacing one entry of a journal yields a journal. *)
LEMMA WithEntryType ==
  ASSUME NEW s \in Snapshots, NEW p \in Plans, NEW e \in Entries
  PROVE  /\ WithEntry(s, p, e) \in Snapshots
         /\ WithEntry(s, p, e).schema = s.schema
         /\ WithEntry(s, p, e).next = s.next
         /\ WithEntry(s, p, e).entries[p] = e
         /\ \A q \in Plans : q # p => WithEntry(s, p, e).entries[q] = s.entries[q]
BY DEF WithEntry, Snapshots

(* The absent entry and the absent journal are values of their types. *)
LEMMA NoJournalType == NoEntry \in Entries /\ NoJournal \in Snapshots
BY SnapshotAssumption DEF NoEntry, Entries, NoJournal, Snapshots

-----------------------------------------------------------------------------
(* Types.                                                                   *)

(* The initial state is well typed. *)
LEMMA InitType == Init => TypeOK
<1> SUFFICES ASSUME Init PROVE TypeOK
  OBVIOUS
<1> USE NoJournalType
<1>1. disk \in Snapshots
  BY LegacyAssumption DEF Init
<1>2. \A p \in Plans : disk.entries[p] \in Entries /\ disk.entries[p].id \in 0 .. MaxSequence
  BY <1>1 DEF Snapshots, Entries
<1>3. bound \in [Plans -> 0 .. MaxSequence] /\ reported \in [Plans -> Entries]
  BY <1>2, SnapshotAssumption DEF Init, NotReported
<1> QED BY <1>1, <1>3 DEF Init, TypeOK

(* Starting to persist a candidate keeps the types. *)
LEMMA PublishType ==
  ASSUME TypeOK, NEW h \in Handles, NEW op \in Ops, NEW about \in SUBSET Plans,
         NEW cand \in Snapshots, Publish(h, op, about, cand)
  PROVE  pending' \in [Handles -> Pendings \cup {Idle}]
BY DEF TypeOK, Publish, Pendings

(* Losing the memory of some handles keeps the types. *)
LEMMA ForgetType ==
  ASSUME TypeOK, NEW hs \in SUBSET Handles, Forget(hs)
  PROVE  /\ phase' \in [Handles -> {"fresh", "opening", "open", "dead"}]
         /\ usable' \in [Handles -> BOOLEAN]
         /\ mem' \in [Handles -> Snapshots]
         /\ pending' \in [Handles -> Pendings \cup {Idle}]
         /\ reservations' \subseteq Handles \X Ids
BY NoJournalType DEF TypeOK, Forget

(* What a handle that works is persisting is a pending write. *)
LEMMA PendingType ==
  ASSUME TypeOK, NEW h \in Handles, Working(h)
  PROVE  /\ pending[h] \in Pendings
         /\ pending[h].op \in Ops
         /\ pending[h].about \subseteq Plans
         /\ pending[h].cand \in Snapshots
         /\ pending[h].renamed \in BOOLEAN
BY DEF TypeOK, Working, Pendings

(* Poisoning a handle keeps the types. *)
LEMMA PoisonType ==
  ASSUME TypeOK, NEW h \in Handles, Poison(h)
  PROVE  /\ phase' \in [Handles -> {"fresh", "opening", "open", "dead"}]
         /\ usable' \in [Handles -> BOOLEAN]
         /\ pending' \in [Handles -> Pendings \cup {Idle}]
         /\ receipts' \subseteq Receipts
         /\ UNCHANGED <<mem, reservations, hist_vars>>
BY DEF TypeOK, Poison

(* What the operations that publish one entry have in common.               *)
Publishes(h, op, p, e) ==
  /\ CanWork(h)
  /\ Publish(h, op, {p}, WithEntry(mem[h], p, e))
  /\ op = "admit" => mem[h].entries[p].state = "Absent" /\ e.state = "Admitted"
  /\ op # "admit" => e.id = mem[h].entries[p].id
  /\ op = "run" => mem[h].entries[p].state = "Admitted" /\ e.state = "Running"
  /\ op \in {"finalizeAdmission", "finalize"} =>
       mem[h].entries[p].state \in LiveStates /\ e.state \in TerminalStates
  /\ UNCHANGED <<disk_vars, phase, usable, mem, client_vars, hist_vars>>

(* An admission is the publication of one entry. *)
LEMMA AdmitPublishes ==
  ASSUME TypeOK, NEW h \in Handles, NEW id \in Ids, NEW p \in Plans, Admit(h, id, p)
  PROVE  LET e == [id |-> id, state |-> "Admitted", results |-> NoEvidence]
         IN  e \in Entries /\ Publishes(h, "admit", p, e)
<1>1. [id |-> id, state |-> "Admitted", results |-> NoEvidence] \in Entries
  BY SnapshotAssumption DEF Entries, States, LiveStates, Ids
<1> QED BY <1>1 DEF Admit, Publishes, AdmitCandidate, Present

(* A transition to running is the publication of one entry. *)
LEMMA RunPublishes ==
  ASSUME TypeOK, NEW h \in Handles, NEW r \in receipts, TransitionToRunning(h, r)
  PROVE  LET e == [mem[h].entries[r.plan] EXCEPT !.state = "Running"]
         IN  r.plan \in Plans /\ e \in Entries /\ Publishes(h, "run", r.plan, e)
<1> DEFINE p == r.plan
           e == [mem[h].entries[p] EXCEPT !.state = "Running"]
<1>1. p \in Plans /\ mem[h].entries[p] \in Entries
  BY DEF TypeOK, Receipts, Snapshots
<1>2. e \in Entries /\ e.state = "Running" /\ e.id = mem[h].entries[p].id
  BY <1>1 DEF Entries, States, LiveStates
<1> HIDE DEF e
<1>3. Publish(h, "run", {p}, WithEntry(mem[h], p, e))
  BY DEF TransitionToRunning, e
<1>4. Publishes(h, "run", p, e)
  BY <1>2, <1>3 DEF TransitionToRunning, Publishes, Honours
<1> QED BY <1>1, <1>2, <1>4 DEF e

(* Finalizing an admission is the publication of one entry. *)
LEMMA FinalizeAdmissionPublishes ==
  ASSUME TypeOK, NEW h \in Handles, NEW r \in receipts, NEW t \in States,
         FinalizeAdmission(h, r, t)
  PROVE  LET e == [mem[h].entries[r.plan] EXCEPT !.state = t]
         IN  r.plan \in Plans /\ e \in Entries /\ Publishes(h, "finalizeAdmission", r.plan, e)
<1> DEFINE p == r.plan
           e == [mem[h].entries[p] EXCEPT !.state = t]
<1>1. p \in Plans /\ mem[h].entries[p] \in Entries
  BY DEF TypeOK, Receipts, Snapshots
<1>2. e \in Entries /\ e.state = t /\ e.id = mem[h].entries[p].id
  BY <1>1 DEF Entries
<1>3. t \in TerminalStates /\ mem[h].entries[p].state \in LiveStates
  BY DEF FinalizeAdmission, Honours, LegalTransition, TerminalStates, LiveStates
<1> HIDE DEF e
<1>4. Publish(h, "finalizeAdmission", {p}, WithEntry(mem[h], p, e))
  BY DEF FinalizeAdmission, e
<1>5. Publishes(h, "finalizeAdmission", p, e)
  BY <1>2, <1>3, <1>4 DEF FinalizeAdmission, Publishes
<1> QED BY <1>1, <1>2, <1>5 DEF e

(* Finalizing an operation is the publication of one entry. *)
LEMMA FinalizePublishes ==
  ASSUME TypeOK, NEW h \in Handles, NEW r \in receipts, NEW ev \in Offered, NEW t \in States,
         Finalize(h, r, ev, t)
  PROVE  LET e == [mem[h].entries[r.plan] EXCEPT !.state = t, !.results = ev]
         IN  r.plan \in Plans /\ e \in Entries /\ Publishes(h, "finalize", r.plan, e)
<1> DEFINE p == r.plan
           e == [mem[h].entries[p] EXCEPT !.state = t, !.results = ev]
<1>1. p \in Plans /\ mem[h].entries[p] \in Entries
  BY DEF TypeOK, Receipts, Snapshots
<1>2. e \in Entries /\ e.state = t /\ e.id = mem[h].entries[p].id
  BY <1>1 DEF Entries
<1>3. t \in TerminalStates /\ mem[h].entries[p].state \in LiveStates
  BY DEF Finalize, Honours, LegalTransition, TerminalStates, LiveStates
<1> HIDE DEF e
<1>4. Publish(h, "finalize", {p}, WithEntry(mem[h], p, e))
  BY DEF Finalize, e
<1>5. Publishes(h, "finalize", p, e)
  BY <1>2, <1>3, <1>4 DEF Finalize, Publishes
<1> QED BY <1>1, <1>2, <1>5 DEF e

(* Every such publication keeps the types. *)
LEMMA PublishesType ==
  ASSUME TypeOK, NEW h \in Handles, NEW op \in Ops, NEW p \in Plans, NEW e \in Entries,
         Publishes(h, op, p, e)
  PROVE  TypeOK'
<1>1. mem[h] \in Snapshots
  BY DEF TypeOK
<1>2. WithEntry(mem[h], p, e) \in Snapshots
  BY <1>1, WithEntryType
<1>3. pending' \in [Handles -> Pendings \cup {Idle}]
  BY <1>2, PublishType DEF Publishes
<1> QED BY <1>3 DEF TypeOK, Publishes, disk_vars, client_vars, hist_vars

(* Every step keeps the types. *)
LEMMA TypeStep == TypeOK /\ [Next]_vars => TypeOK'
<1> SUFFICES ASSUME TypeOK, [Next]_vars PROVE TypeOK'
  OBVIOUS
<1> USE DEF vars, disk_vars, handle_vars, client_vars, hist_vars
<1>1. CASE UNCHANGED vars
  BY <1>1 DEF TypeOK
<1>2. CASE PowerLoss
  <2>1. {h \in Handles : Locked(h)} \in SUBSET Handles
    OBVIOUS
  <2> QED BY <1>2, <2>1, ForgetType DEF TypeOK, PowerLoss
<1>3. ASSUME NEW h \in Handles, OpenUnchanged(h) PROVE TypeOK'
  BY <1>3 DEF TypeOK, OpenUnchanged
<1>4. ASSUME NEW h \in Handles, OpenPersisting(h) PROVE TypeOK'
  <2>1. Recover(disk) \in Snapshots
    BY <1>4, RecoverType DEF TypeOK, OpenPersisting, MayOpen
  <2>2. pending' \in [Handles -> Pendings \cup {Idle}]
    BY <1>4, <2>1, PublishType DEF OpenPersisting, Ops
  <2> QED BY <1>4, <2>2 DEF TypeOK, OpenPersisting
<1>5. ASSUME NEW h \in Handles, ReserveOperationId(h) PROVE TypeOK'
  <2>1. mem[h] \in Snapshots /\ mem[h].next \in Ids /\ mem[h].next + 1 \in Ids
    BY <1>5, SnapshotAssumption DEF TypeOK, ReserveOperationId, Snapshots, Ids
  <2>2. mem' \in [Handles -> Snapshots]
    BY <1>5, <2>1 DEF TypeOK, ReserveOperationId, Snapshots, Ids
  <2> QED BY <1>5, <2>1, <2>2 DEF TypeOK, ReserveOperationId
<1>6. ASSUME NEW h \in Handles, NEW id \in Ids, ReleaseReservation(h, id) PROVE TypeOK'
  BY <1>6 DEF TypeOK, ReleaseReservation
<1>7. ASSUME NEW h \in Handles, NEW id \in Ids, NEW p \in Plans, Admit(h, id, p)
      PROVE  TypeOK'
  BY <1>7, AdmitPublishes, PublishesType DEF Ops
<1>8. ASSUME NEW h \in Handles, NEW r \in receipts, TransitionToRunning(h, r)
      PROVE  TypeOK'
  BY <1>8, RunPublishes, PublishesType DEF Ops
<1>9. ASSUME NEW h \in Handles, NEW r \in receipts, NEW t \in States,
             FinalizeAdmission(h, r, t)
      PROVE  TypeOK'
  BY <1>9, FinalizeAdmissionPublishes, PublishesType DEF Ops
<1>10. ASSUME NEW h \in Handles, NEW r \in receipts, NEW ev \in Offered, NEW t \in States,
              Finalize(h, r, ev, t)
       PROVE  TypeOK'
  BY <1>10, FinalizePublishes, PublishesType DEF Ops
<1>11. ASSUME NEW h \in Handles, StageFails(h) PROVE TypeOK'
  BY <1>11 DEF TypeOK, StageFails
<1>12. ASSUME NEW h \in Handles, Rename(h) PROVE TypeOK'
  <2>1. pending' \in [Handles -> Pendings \cup {Idle}]
    BY <1>12, PendingType DEF TypeOK, Rename, Pendings
  <2> QED BY <1>12, <2>1, PendingType DEF TypeOK, Rename, ReplaceFile
<1>13. ASSUME NEW h \in Handles, RenameReportsError(h) PROVE TypeOK'
  BY <1>13, PendingType, PoisonType DEF TypeOK, RenameReportsError, ReplaceFile
<1>14. ASSUME NEW h \in Handles, SyncDirectory(h) PROVE TypeOK'
  <2> DEFINE w == pending[h]
  <2>1. w \in Pendings /\ w.about \subseteq Plans /\ w.cand \in Snapshots
    BY <1>14, PendingType DEF SyncDirectory
  <2>2. \A p \in Plans : w.cand.entries[p] \in Entries /\ w.cand.entries[p].id \in 0 .. MaxSequence
    BY <2>1 DEF Snapshots, Entries
  <2>3. reservations' \subseteq Handles \X Ids
    BY <1>14 DEF TypeOK, SyncDirectory, Commit
  <2>4. \A p \in w.about : /\ AdmissionReceipt(h, p, w.cand.entries[p].id) \in Receipts
                           /\ RunReceipt(h, p, w.cand.entries[p].id) \in Receipts
    BY <2>1, <2>2 DEF Receipts, AdmissionReceipt, RunReceipt
  <2>5. receipts' \subseteq Receipts
    <3>1. /\ receipts \subseteq Receipts
          /\ {AdmissionReceipt(h, p, w.cand.entries[p].id) : p \in w.about} \subseteq Receipts
          /\ {RunReceipt(h, p, w.cand.entries[p].id) : p \in w.about} \subseteq Receipts
      BY <2>4 DEF TypeOK
    <3> QED BY <1>14, <3>1 DEF SyncDirectory, Commit
  <2>6. bound' \in [Plans -> 0 .. MaxSequence] /\ reported' \in [Plans -> Entries]
    BY <1>14, <2>2 DEF TypeOK, SyncDirectory, Commit
  <2> QED BY <1>14, <2>1, <2>3, <2>5, <2>6 DEF TypeOK, SyncDirectory, Commit
<1>15. ASSUME NEW h \in Handles, SyncDirectoryFails(h) PROVE TypeOK'
  BY <1>15, PoisonType DEF TypeOK, SyncDirectoryFails
<1>16. ASSUME NEW h \in Handles, Close(h) PROVE TypeOK'
  BY <1>16, ForgetType DEF TypeOK, Close
<1>17. ASSUME NEW h \in Handles, ProcessCrash(h) PROVE TypeOK'
  BY <1>17, ForgetType DEF TypeOK, ProcessCrash
<1> QED
  BY <1>1, <1>2, <1>3, <1>4, <1>5, <1>6, <1>7, <1>8, <1>9, <1>10, <1>11, <1>12, <1>13,
     <1>14, <1>15, <1>16, <1>17 DEF Next, Persist

(* Every variable stays in its range, whatever the limits: no identifier    *)
(* beyond the last sequence is ever reserved, persisted or derived.         *)
THEOREM TypeCorrect == Spec => []TypeOK
<1>1. Init => TypeOK
  BY InitType
<1>2. TypeOK /\ [Next]_vars => TypeOK'
  BY TypeStep
<1> QED BY <1>1, <1>2, PTL DEF Spec

-----------------------------------------------------------------------------
(* The inductive invariant of the durability theorems.                      *)

(* The flock: at most one handle of all is between Open and its end.        *)
OneOwner == \A g, h \in Handles : Locked(g) /\ Locked(h) => g = h

(* How the phase of a handle, its usable flag and its pending persist fit.  *)
PhaseShape ==
  \A h \in Handles :
    /\ phase[h] = "opening" => Working(h) /\ pending[h].op = "open"
    /\ Working(h) => Locked(h)
    /\ Working(h) /\ phase[h] = "open" => usable[h] /\ pending[h].op # "open"
    /\ usable[h] => phase[h] = "open"

ReservationShape ==
  \A x \in reservations : phase[x[1]] = "open" /\ x[2] < mem[x[1]].next

(* What a candidate changes of the entries in memory.                       *)
CandidateShape ==
  \A h \in Handles : Working(h) =>
    LET w == pending[h] IN
    /\ w.cand.schema = "current"
    /\ w.op = "open" => /\ w.about = {}
                        /\ \A p \in Plans : w.cand.entries[p].state \notin LiveStates
    /\ w.op # "open" => /\ w.cand.next = mem[h].next
                        /\ \A p \in Plans \ w.about : w.cand.entries[p] = mem[h].entries[p]
    /\ \A p \in w.about :
         LET old == mem[h].entries[p].state
             new == w.cand.entries[p].state
         IN  /\ w.op = "admit" => old = "Absent" /\ new = "Admitted"
             /\ w.op = "run" => old = "Admitted" /\ new = "Running"
             /\ w.op \in {"finalizeAdmission", "finalize"} =>
                  old \in LiveStates /\ new \in TerminalStates

(* The file against the memory of its owner and against a power loss.       *)
FileShape ==
  /\ disk \in survivors
  /\ \A h \in Handles :
       /\ Working(h) /\ pending[h].renamed => disk = pending[h].cand
       /\ usable[h] => mem[h].schema = "current"
       /\ usable[h] /\ ~(Working(h) /\ pending[h].renamed) =>
            mem[h].entries = disk.entries /\ disk.next <= mem[h].next

Shape == OneOwner /\ PhaseShape /\ ReservationShape /\ CandidateShape /\ FileShape

(* A snapshot keeps what callers were told: admitted plans and terminal     *)
(* entries.                                                                 *)
Keeps(s) ==
  \A p \in Plans :
    /\ bound[p] # 0 => s.entries[p].id = bound[p] /\ s.entries[p].state # "Absent"
    /\ reported[p] # NotReported => s.entries[p] = reported[p]

Promises ==
  /\ \A p \in Plans : reported[p] # NotReported => reported[p].state \in TerminalStates
  /\ \A s \in survivors : Keeps(s)
  /\ \A h \in Handles : usable[h] => Keeps(mem[h])
  /\ \A h \in Handles : Working(h) => Keeps(pending[h].cand)

(* Everything that may be read by the next start decodes.                   *)
Readable ==
  /\ \A s \in survivors : Decodable(s)
  /\ \A h \in Handles : usable[h] => Decodable(mem[h])
  /\ \A h \in Handles : Working(h) => Decodable(pending[h].cand)

-----------------------------------------------------------------------------
(* Shape is inductive.                                                      *)

(* The empty journal has the shape. *)
LEMMA InitShape == Init => Shape
BY DEF Init, Shape, OneOwner, PhaseShape, ReservationShape, CandidateShape, FileShape,
       Locked, Working

(* Starting to persist a change of one entry.                               *)
LEMMA PublishShape ==
  ASSUME TypeOK, Shape, NEW h \in Handles, NEW op \in Ops \ {"open"}, NEW p \in Plans,
         NEW e \in Entries, Publishes(h, op, p, e)
  PROVE  Shape'
<1> USE DEF Publishes, disk_vars, client_vars
<1> DEFINE c == WithEntry(mem[h], p, e)
<1>1. /\ mem[h] \in Snapshots
      /\ c \in Snapshots /\ c.schema = mem[h].schema /\ c.next = mem[h].next
      /\ c.entries[p] = e
      /\ \A q \in Plans : q # p => c.entries[q] = mem[h].entries[q]
  BY WithEntryType DEF TypeOK
<1>2. mem[h].schema = "current"
  BY DEF Shape, FileShape, CanWork
<1> HIDE DEF c
<1>3. /\ pending'[h] = [op |-> op, about |-> {p}, cand |-> c, renamed |-> FALSE]
      /\ pending'[h] # Idle
      /\ \A g \in Handles : g # h => pending'[g] = pending[g]
  BY DEF Publish, TypeOK, Idle, Ops, c
<1>4. OneOwner'
  BY DEF Shape, OneOwner, Locked
<1>5. PhaseShape'
  BY <1>3 DEF Shape, PhaseShape, Locked, Working, CanWork
<1>6. ReservationShape'
  BY DEF Shape, ReservationShape
<1>7. CandidateShape'
  BY <1>1, <1>2, <1>3 DEF Shape, CandidateShape, Working
<1>8. FileShape'
  BY <1>3 DEF Shape, FileShape, Working, CanWork
<1> QED BY <1>4, <1>5, <1>6, <1>7, <1>8 DEF Shape

(* The end of a set of handles that includes every one that is locked and   *)
(* works: the others are untouched.                                         *)
LEMMA ForgetShape ==
  ASSUME TypeOK, Shape, NEW hs \in SUBSET Handles, Forget(hs),
         \/ UNCHANGED <<disk, survivors>>
         \/ /\ hs = {h \in Handles : Locked(h)}
            /\ disk' \in survivors'
  PROVE  Shape'
<1>1. \A h \in Handles : h \in hs =>
        phase'[h] = "dead" /\ ~usable'[h] /\ pending'[h] = Idle
  BY DEF Forget
<1>2. \A h \in Handles : h \notin hs =>
        /\ phase'[h] = phase[h] /\ usable'[h] = usable[h]
        /\ mem'[h] = mem[h] /\ pending'[h] = pending[h]
  BY DEF Forget, TypeOK
<1>3. OneOwner'
  BY <1>1, <1>2 DEF Shape, OneOwner, Locked
<1>4. PhaseShape'
  BY <1>1, <1>2 DEF Shape, PhaseShape, Locked, Working
<1>5. ReservationShape'
  BY <1>2 DEF Shape, ReservationShape, Forget, TypeOK
<1>6. CandidateShape'
  BY <1>1, <1>2 DEF Shape, CandidateShape, Working
<1>7. FileShape'
  <2>1. CASE UNCHANGED <<disk, survivors>>
    BY <1>1, <1>2, <2>1 DEF Shape, FileShape, Working
  <2>2. CASE hs = {h \in Handles : Locked(h)} /\ disk' \in survivors'
    <3>1. \A h \in Handles : h \notin hs => ~usable[h] /\ ~Working(h)
      BY <2>2 DEF Shape, PhaseShape, Locked
    <3> QED BY <1>1, <1>2, <2>2, <3>1 DEF FileShape, Working
  <2> QED BY <2>1, <2>2
<1> QED BY <1>3, <1>4, <1>5, <1>6, <1>7 DEF Shape

(* An uncertain publication leaves an instance that owns no file.           *)
LEMMA PoisonShape ==
  ASSUME TypeOK, Shape, NEW h \in Handles, Working(h), Poison(h), disk' \in survivors',
         \A g \in Handles : Locked(g) => g = h
  PROVE  Shape'
<1>1. /\ phase'[h] \in {"dead", "open"} /\ ~usable'[h] /\ pending'[h] = Idle
      /\ phase'[h] = "dead" => pending[h].op = "open"
      /\ phase'[h] = "open" => phase[h] = "open"
  BY DEF Poison, TypeOK, Shape, PhaseShape, Locked
<1>2. \A g \in Handles : g # h =>
        /\ phase'[g] = phase[g] /\ usable'[g] = usable[g] /\ pending'[g] = pending[g]
        /\ ~usable[g] /\ ~Working(g)
  BY DEF Poison, TypeOK, Shape, PhaseShape, Locked
<1>3. mem' = mem /\ reservations' = reservations
  BY DEF Poison
<1>4. OneOwner'
  BY <1>2 DEF Locked, OneOwner
<1>5. PhaseShape'
  BY <1>1, <1>2 DEF Shape, PhaseShape, Locked, Working
<1>6. ReservationShape'
  BY <1>1, <1>2, <1>3 DEF Shape, ReservationShape, PhaseShape, TypeOK, Poison
<1>7. CandidateShape'
  BY <1>1, <1>2, <1>3 DEF CandidateShape, Working
<1>8. FileShape'
  BY <1>1, <1>2 DEF FileShape, Working
<1> QED BY <1>4, <1>5, <1>6, <1>7, <1>8 DEF Shape

(* Opening a journal keeps the shape, whoever else holds the lock. *)
LEMMA OpenShape ==
  ASSUME TypeOK, Shape, NEW h \in Handles, OpenUnchanged(h) \/ OpenPersisting(h)
  PROVE  Shape'
<1> USE DEF vars, disk_vars, handle_vars, client_vars, hist_vars
<1>1. /\ phase[h] = "fresh" /\ ~usable[h] /\ ~Working(h)
      /\ \A g \in Handles : ~Locked(g) /\ ~usable[g] /\ ~Working(g)
      /\ disk' = disk /\ survivors' = survivors /\ reservations' = reservations
  BY DEF OpenUnchanged, OpenPersisting, MayOpen, Shape, PhaseShape, Locked
<1>2. \A x \in reservations : x[1] # h /\ x[1] \in Handles
  BY <1>1 DEF Shape, ReservationShape, TypeOK
<1>3. CASE OpenUnchanged(h)
  <2>1. /\ phase' = [phase EXCEPT ![h] = "open"] /\ usable' = [usable EXCEPT ![h] = TRUE]
        /\ mem' = [mem EXCEPT ![h] = disk] /\ pending' = pending
        /\ disk.schema = "current"
    BY <1>3 DEF OpenUnchanged, NeedsPersist
  <2>2. OneOwner'
    BY <1>1, <2>1 DEF OneOwner, Locked, TypeOK
  <2>3. PhaseShape'
    BY <1>1, <2>1 DEF Shape, PhaseShape, Locked, Working, TypeOK
  <2>4. ReservationShape'
    BY <1>1, <1>2, <2>1 DEF Shape, ReservationShape, TypeOK
  <2>5. CandidateShape'
    BY <1>1, <2>1 DEF CandidateShape, Working
  <2>6. disk.next \in Nat
    BY SnapshotAssumption DEF TypeOK, Snapshots
  <2>7. FileShape'
    BY <1>1, <2>1, <2>6 DEF Shape, FileShape, Working, TypeOK
  <2> QED BY <2>2, <2>3, <2>4, <2>5, <2>7 DEF Shape
<1>4. CASE OpenPersisting(h)
  <2> DEFINE c == Recover(disk)
  <2>1. /\ phase' = [phase EXCEPT ![h] = "opening"] /\ usable' = usable /\ mem' = mem
        /\ pending' = [pending EXCEPT ![h] =
             [op |-> "open", about |-> {}, cand |-> c, renamed |-> FALSE]]
    BY <1>4 DEF OpenPersisting, Publish
  <2>2. c.schema = "current" /\ \A p \in Plans : c.entries[p].state \notin LiveStates
    <3>1. \A p \in Plans : disk.entries[p] \in Entries
      BY DEF TypeOK, Snapshots
    <3>2. \A p \in Plans : Interrupt(disk.entries[p]).state \notin LiveStates
      BY <3>1 DEF Interrupt, LiveStates, Entries
    <3> QED BY <3>2 DEF Recover
  <2> HIDE DEF c
  <2>3. /\ phase'[h] = "opening" /\ pending'[h].op = "open" /\ pending'[h] # Idle
        /\ pending'[h].about = {} /\ pending'[h].cand = c /\ ~pending'[h].renamed
        /\ \A g \in Handles : g # h => phase'[g] = phase[g] /\ pending'[g] = pending[g]
    BY <2>1 DEF TypeOK, Idle
  <2>4. OneOwner'
    BY <1>1, <2>3 DEF OneOwner, Locked
  <2>5. PhaseShape'
    BY <1>1, <2>1, <2>3 DEF Shape, PhaseShape, Locked, Working
  <2>6. ReservationShape'
    BY <1>1, <1>2, <2>1, <2>3 DEF Shape, ReservationShape
  <2>7. CandidateShape'
    BY <1>1, <2>2, <2>3 DEF CandidateShape, Working
  <2>8. FileShape'
    BY <1>1, <2>1, <2>3 DEF Shape, FileShape, Working
  <2> QED BY <2>4, <2>5, <2>6, <2>7, <2>8 DEF Shape
<1> QED BY <1>3, <1>4

(* Reserving an identifier keeps the shape. *)
LEMMA ReserveShape ==
  ASSUME TypeOK, Shape, NEW h \in Handles,
         \/ ReserveOperationId(h)
         \/ \E id \in Ids : ReleaseReservation(h, id)
  PROVE  Shape'
<1> USE DEF vars, disk_vars, handle_vars, client_vars, hist_vars
<1>1. CASE \E id \in Ids : ReleaseReservation(h, id)
  BY <1>1 DEF ReleaseReservation, Shape, OneOwner, PhaseShape, ReservationShape, CandidateShape,
              FileShape, Locked, Working
<1>2. CASE ReserveOperationId(h)
  <2>1. /\ mem' = [mem EXCEPT ![h].next = mem[h].next + 1]
        /\ reservations' = reservations \cup {<<h, mem[h].next>>}
        /\ phase[h] = "open" /\ usable[h] /\ ~Working(h)
        /\ UNCHANGED <<disk, survivors, phase, usable, pending>>
    BY <1>2 DEF ReserveOperationId, CanWork, Working
  <2>2. /\ mem[h] \in Snapshots /\ mem[h].next \in Nat
        /\ disk.next \in Nat
    BY SnapshotAssumption DEF TypeOK, Snapshots
  <2>3. /\ mem'[h].next = mem[h].next + 1 /\ mem'[h].entries = mem[h].entries
        /\ mem'[h].schema = mem[h].schema
        /\ \A g \in Handles : g # h => mem'[g] = mem[g]
    BY <2>1, <2>2 DEF TypeOK, Snapshots
  <2>4. \A x \in reservations : x[1] \in Handles /\ x[2] \in Nat
    BY SnapshotAssumption DEF TypeOK, Ids
  <2>5. OneOwner' /\ PhaseShape'
    BY <2>1 DEF Shape, OneOwner, PhaseShape, Locked, Working
  <2>6. ReservationShape'
    <3> SUFFICES ASSUME NEW x \in reservations' PROVE phase[x[1]] = "open" /\ x[2] < mem'[x[1]].next
      BY <2>1 DEF ReservationShape
    <3>1. CASE x = <<h, mem[h].next>>
      BY <3>1, <2>1, <2>2, <2>3
    <3>2. CASE x \in reservations
      BY <3>2, <2>2, <2>3, <2>4 DEF Shape, ReservationShape
    <3> QED BY <3>1, <3>2, <2>1
  <2>7. CandidateShape'
    BY <2>1, <2>3 DEF Shape, CandidateShape, Working
  <2>8. FileShape'
    BY <2>1, <2>2, <2>3 DEF Shape, FileShape, Working
  <2> QED BY <2>5, <2>6, <2>7, <2>8 DEF Shape
<1> QED BY <1>1, <1>2

(* A persist that is done: the handle owns the file, the memory and the disk *)
(* are the candidate.                                                       *)
LEMMA CommitShape ==
  ASSUME TypeOK, Shape, NEW h \in Handles, SyncDirectory(h)
  PROVE  Shape'
<1> DEFINE c == pending[h].cand
<1>1. /\ Working(h) /\ pending[h].renamed /\ disk = c /\ c.schema = "current"
      /\ c \in Snapshots /\ c.next \in Nat
      /\ Locked(h)
      /\ phase[h] = "open" => pending[h].op # "open" /\ c.next = mem[h].next
  BY PendingType, SnapshotAssumption
     DEF SyncDirectory, Shape, FileShape, CandidateShape, PhaseShape, Snapshots
<1>2. /\ phase' = [phase EXCEPT ![h] = "open"] /\ usable' = [usable EXCEPT ![h] = TRUE]
      /\ mem' = [mem EXCEPT ![h] = c] /\ pending' = [pending EXCEPT ![h] = Idle]
      /\ disk' = disk /\ survivors' = {disk} /\ reservations' \subseteq reservations
  BY DEF SyncDirectory, Commit
<1> HIDE DEF c
<1>3. \A g \in Handles : g # h => ~Locked(g) /\ ~usable[g] /\ ~Working(g)
  BY <1>1 DEF Shape, OneOwner, PhaseShape, Locked
<1>4. OneOwner'
  BY <1>1, <1>2, <1>3 DEF OneOwner, Locked, TypeOK
<1>5. PhaseShape'
  BY <1>1, <1>2, <1>3 DEF Shape, PhaseShape, Locked, Working, TypeOK
<1>6. ReservationShape'
  BY <1>1, <1>2 DEF Shape, ReservationShape, TypeOK
<1>7. CandidateShape'
  BY <1>1, <1>2, <1>3 DEF CandidateShape, Working, TypeOK
<1>8. FileShape'
  BY <1>1, <1>2, <1>3 DEF Shape, FileShape, Working, TypeOK
<1> QED BY <1>4, <1>5, <1>6, <1>7, <1>8 DEF Shape

(* The steps of a persist before it is done.                                *)
LEMMA StageShape ==
  ASSUME TypeOK, Shape, NEW h \in Handles, StageFails(h) \/ Rename(h)
  PROVE  Shape'
<1> USE DEF vars, disk_vars, handle_vars, client_vars, hist_vars
<1>1. /\ Working(h) /\ ~pending[h].renamed /\ pending[h] \in Pendings
      /\ UNCHANGED <<usable, mem, reservations>>
      /\ \A g \in Handles : g # h => ~Locked(g) /\ ~usable[g] /\ ~Working(g)
  BY PendingType DEF StageFails, Rename, Shape, OneOwner, PhaseShape, Locked
<1>2. CASE StageFails(h)
  <2>1. /\ phase'[h] = IF pending[h].op = "open" THEN "dead" ELSE phase[h]
        /\ pending'[h] = Idle
        /\ \A g \in Handles : g # h => phase'[g] = phase[g] /\ pending'[g] = pending[g]
        /\ UNCHANGED <<disk, survivors>>
    BY <1>2 DEF StageFails, TypeOK
  <2>2. OneOwner' /\ PhaseShape'
    BY <1>1, <2>1 DEF Shape, OneOwner, PhaseShape, Locked, Working
  <2>3. ReservationShape'
    BY <1>1, <2>1 DEF Shape, ReservationShape, PhaseShape, Locked, TypeOK
  <2>4. CandidateShape'
    BY <1>1, <2>1 DEF CandidateShape, Working
  <2>5. FileShape'
    BY <1>1, <2>1 DEF Shape, FileShape, Working
  <2> QED BY <2>2, <2>3, <2>4, <2>5 DEF Shape
<1>3. CASE Rename(h)
  <2>1. pending'[h] = [pending[h] EXCEPT !.renamed = TRUE]
    BY <1>1, <1>3 DEF Rename, TypeOK
  <2>2. /\ pending'[h] # Idle
        /\ pending'[h].op = pending[h].op /\ pending'[h].about = pending[h].about
        /\ pending'[h].cand = pending[h].cand /\ pending'[h].renamed
    BY <1>1, <2>1 DEF Pendings, Idle
  <2>3. /\ \A g \in Handles : g # h => pending'[g] = pending[g]
        /\ phase' = phase /\ disk' = pending[h].cand /\ disk' \in survivors'
    BY <1>1, <1>3 DEF Rename, ReplaceFile, TypeOK
  <2>4. OneOwner' /\ ReservationShape'
    BY <1>1, <2>3 DEF Shape, OneOwner, ReservationShape, Locked
  <2>5. PhaseShape'
    BY <1>1, <2>2, <2>3 DEF Shape, PhaseShape, Locked, Working
  <2>6. CandidateShape'
    BY <1>1, <2>2, <2>3 DEF Shape, CandidateShape, Working
  <2>7. FileShape'
    BY <1>1, <2>2, <2>3 DEF Shape, FileShape, Working
  <2> QED BY <2>4, <2>5, <2>6, <2>7 DEF Shape
<1> QED BY <1>2, <1>3

(* Every step keeps the shape. *)
LEMMA ShapeStep == TypeOK /\ Shape /\ [Next]_vars => Shape'
<1> SUFFICES ASSUME TypeOK, Shape, [Next]_vars PROVE Shape'
  OBVIOUS
<1> USE DEF vars, disk_vars, handle_vars, client_vars, hist_vars
<1>1. CASE UNCHANGED vars
  BY <1>1 DEF Shape, OneOwner, PhaseShape, ReservationShape, CandidateShape, FileShape,
              Locked, Working
<1>2. CASE PowerLoss
  <2>1. disk' \in survivors'
    BY <1>2 DEF PowerLoss
  <2> QED BY <1>2, <2>1, ForgetShape DEF PowerLoss
<1>3. ASSUME NEW h \in Handles, OpenUnchanged(h) \/ OpenPersisting(h) PROVE Shape'
  BY <1>3, OpenShape
<1>4. ASSUME NEW h \in Handles,
             ReserveOperationId(h) \/ \E id \in Ids : ReleaseReservation(h, id)
      PROVE  Shape'
  BY <1>4, ReserveShape
<1>5. ASSUME NEW h \in Handles, NEW id \in Ids, NEW p \in Plans, Admit(h, id, p)
      PROVE  Shape'
  BY <1>5, AdmitPublishes, PublishShape DEF Ops
<1>6. ASSUME NEW h \in Handles, NEW r \in receipts, TransitionToRunning(h, r)
      PROVE  Shape'
  BY <1>6, RunPublishes, PublishShape DEF Ops
<1>7. ASSUME NEW h \in Handles, NEW r \in receipts, NEW t \in States,
             FinalizeAdmission(h, r, t)
      PROVE  Shape'
  BY <1>7, FinalizeAdmissionPublishes, PublishShape DEF Ops
<1>8. ASSUME NEW h \in Handles, NEW r \in receipts, NEW ev \in Offered, NEW t \in States,
             Finalize(h, r, ev, t)
      PROVE  Shape'
  BY <1>8, FinalizePublishes, PublishShape DEF Ops
<1>9. ASSUME NEW h \in Handles, StageFails(h) \/ Rename(h) PROVE Shape'
  BY <1>9, StageShape
<1>10. ASSUME NEW h \in Handles, RenameReportsError(h) \/ SyncDirectoryFails(h) PROVE Shape'
  <2>1. Working(h) /\ Poison(h) /\ \A g \in Handles : Locked(g) => g = h
    BY <1>10 DEF RenameReportsError, SyncDirectoryFails, Shape, OneOwner, PhaseShape
  <2>2. disk' \in survivors'
    BY <1>10 DEF RenameReportsError, SyncDirectoryFails, ReplaceFile, Shape, FileShape
  <2> QED BY <2>1, <2>2, PoisonShape
<1>11. ASSUME NEW h \in Handles, SyncDirectory(h) PROVE Shape'
  BY <1>11, CommitShape
<1>12. ASSUME NEW h \in Handles, Close(h) \/ ProcessCrash(h) PROVE Shape'
  <2>1. Forget({h}) /\ UNCHANGED <<disk, survivors>>
    BY <1>12 DEF Close, ProcessCrash
  <2> QED BY <2>1, ForgetShape
<1> QED
  BY <1>1, <1>2, <1>3, <1>4, <1>5, <1>6, <1>7, <1>8, <1>9, <1>10, <1>11, <1>12
     DEF Next, Persist

-----------------------------------------------------------------------------
(* What callers were told is in everything that may be read later.          *)

(* Nothing has been promised initially. *)
LEMMA InitPromises == Init => Promises
<1> SUFFICES ASSUME Init PROVE Promises
  OBVIOUS
<1>1. \A p \in Plans :
        /\ bound[p] = IF p \in Present(disk) THEN disk.entries[p].id ELSE 0
        /\ reported[p] = IF disk.entries[p].state \in TerminalStates
                         THEN disk.entries[p] ELSE NotReported
  BY DEF Init
<1>2. Keeps(disk)
  BY <1>1 DEF Keeps, Present
<1>3. \A p \in Plans : reported[p] # NotReported => reported[p].state \in TerminalStates
  BY <1>1
<1> QED BY <1>2, <1>3 DEF Init, Promises, Working

(* Starting to persist a candidate keeps every promise. *)
LEMMA PublishPromises ==
  ASSUME TypeOK, Promises, NEW h \in Handles, NEW op \in Ops \ {"open"}, NEW p \in Plans,
         NEW e \in Entries, Publishes(h, op, p, e)
  PROVE  Promises'
<1> USE DEF Publishes, disk_vars, client_vars, hist_vars
<1> DEFINE c == WithEntry(mem[h], p, e)
<1>1. c.entries[p] = e /\ \A q \in Plans : q # p => c.entries[q] = mem[h].entries[q]
  BY WithEntryType DEF TypeOK
<1>2. Keeps(mem[h])
  BY DEF Promises, CanWork
<1>3. /\ e.state # "Absent"
      /\ mem[h].entries[p].state \notin TerminalStates
      /\ mem[h].entries[p].state = "Absent" \/ e.id = mem[h].entries[p].id
  BY DEF Ops, LiveStates, TerminalStates
<1>4. reported[p] = NotReported
  BY <1>2, <1>3 DEF Keeps, Promises
<1> HIDE DEF c
<1>5. Keeps(c)
  BY <1>1, <1>2, <1>3, <1>4 DEF Keeps
<1>6. /\ pending'[h].cand = c
      /\ \A g \in Handles : g # h => pending'[g] = pending[g]
  BY DEF Publish, TypeOK, c
<1> QED BY <1>5, <1>6 DEF Promises, Keeps, Working

(* A candidate that reaches the directory keeps every promise. *)
LEMMA CommitPromises ==
  ASSUME TypeOK, Shape, Promises, NEW h \in Handles, SyncDirectory(h)
  PROVE  Promises'
<1> DEFINE w == pending[h]
           c == w.cand
<1>1. /\ Working(h) /\ disk = c /\ Keeps(c)
      /\ w.about \subseteq Plans
      /\ \A g \in Handles : g # h => ~usable[g] /\ ~Working(g)
  BY PendingType DEF SyncDirectory, Shape, FileShape, Promises, OneOwner, PhaseShape, Locked
<1>2. /\ usable' = [usable EXCEPT ![h] = TRUE]
      /\ mem' = [mem EXCEPT ![h] = c] /\ pending' = [pending EXCEPT ![h] = Idle]
      /\ survivors' = {c}
  BY <1>1 DEF SyncDirectory, Commit
<1>3. \A p \in Plans :
        \/ bound'[p] = bound[p]
        \/ p \in w.about /\ w.op = "admit" /\ bound'[p] = c.entries[p].id
  BY DEF SyncDirectory, Commit, TypeOK
<1>4. \A p \in Plans :
        \/ reported'[p] = reported[p]
        \/ /\ p \in w.about /\ w.op \in {"finalizeAdmission", "finalize"}
           /\ reported'[p] = c.entries[p]
  BY DEF SyncDirectory, Commit, TypeOK
<1>5. \A p \in w.about :
        /\ w.op = "admit" => c.entries[p].state # "Absent"
        /\ w.op \in {"finalizeAdmission", "finalize"} => c.entries[p].state \in TerminalStates
  BY <1>1 DEF Shape, CandidateShape
<1> HIDE DEF w, c
<1>6. \A p \in Plans :
        /\ bound'[p] # 0 => c.entries[p].id = bound'[p] /\ c.entries[p].state # "Absent"
        /\ reported'[p] # NotReported =>
             c.entries[p] = reported'[p] /\ reported'[p].state \in TerminalStates
  BY <1>1, <1>3, <1>4, <1>5 DEF Keeps, Promises
<1>7. /\ \A s \in survivors' : s = c
      /\ \A g \in Handles : usable'[g] => g = h /\ mem'[g] = c
      /\ \A g \in Handles : pending'[g] = Idle
  BY <1>1, <1>2 DEF TypeOK, Working
<1> QED BY <1>6, <1>7 DEF Promises, Keeps, Working

(* A step that tells nobody anything and brings into the file, the memory   *)
(* and the candidates only what was already in one of them.                 *)
LEMMA SilentPromises ==
  ASSUME Promises, UNCHANGED hist_vars,
         \A s \in survivors' : Keeps(s),
         \A h \in Handles : usable'[h] => Keeps(mem'[h]),
         \A h \in Handles : pending'[h] # Idle => Keeps(pending'[h].cand)
  PROVE  Promises'
BY DEF Promises, Keeps, hist_vars, Working

(* Recovery at open keeps every entry that was reported. *)
LEMMA RecoverKeeps ==
  ASSUME Promises, Keeps(disk)
  PROVE  Keeps(Recover(disk))
<1>1. \A p \in Plans : Recover(disk).entries[p] = Interrupt(disk.entries[p])
  BY DEF Recover
<1> SUFFICES ASSUME NEW p \in Plans
             PROVE  /\ bound[p] # 0 => /\ Interrupt(disk.entries[p]).id = bound[p]
                                       /\ Interrupt(disk.entries[p]).state # "Absent"
                    /\ reported[p] # NotReported => Interrupt(disk.entries[p]) = reported[p]
  BY <1>1 DEF Keeps
<1>2. CASE disk.entries[p].state \in LiveStates
  <2>1. reported[p] = NotReported
    BY <1>2 DEF Keeps, Promises, LiveStates, TerminalStates
  <2> QED BY <2>1, <1>2 DEF Keeps, Interrupt
<1>3. CASE disk.entries[p].state \notin LiveStates
  BY <1>3 DEF Keeps, Interrupt
<1> QED BY <1>2, <1>3

(* Every step keeps the promises. *)
LEMMA PromisesStep == TypeOK /\ Shape /\ Promises /\ [Next]_vars => Promises'
<1> SUFFICES ASSUME TypeOK, Shape, Promises, [Next]_vars PROVE Promises'
  OBVIOUS
<1> USE DEF vars, disk_vars, handle_vars, client_vars, hist_vars
<1>0. Keeps(disk) /\ \A s \in survivors : Keeps(s)
  BY DEF Promises, Shape, FileShape
<1>1. CASE UNCHANGED vars
  BY <1>1 DEF Promises, Keeps, Working
<1>2. CASE PowerLoss
  <2>1. /\ \A h \in Handles : usable'[h] => usable[h] /\ mem'[h] = mem[h]
        /\ \A h \in Handles : pending'[h] # Idle => pending'[h] = pending[h]
        /\ survivors' \subseteq survivors
    BY <1>2 DEF PowerLoss, Forget, TypeOK
  <2> QED BY <1>0, <1>2, <2>1, SilentPromises DEF PowerLoss, Promises, Working
<1>3. ASSUME NEW h \in Handles, OpenUnchanged(h) PROVE Promises'
  <2>1. /\ \A g \in Handles : usable'[g] =>
             (mem'[g] = disk \/ (usable[g] /\ mem'[g] = mem[g]))
        /\ pending' = pending /\ survivors' = survivors
    BY <1>3 DEF OpenUnchanged, TypeOK
  <2> QED BY <1>0, <1>3, <2>1, SilentPromises DEF OpenUnchanged, Promises, Working
<1>4. ASSUME NEW h \in Handles, OpenPersisting(h) PROVE Promises'
  <2>1. \A g \in Handles : pending'[g] # Idle =>
          pending'[g].cand = Recover(disk) \/ pending'[g] = pending[g]
    BY <1>4 DEF OpenPersisting, Publish, TypeOK
  <2>2. Keeps(Recover(disk))
    BY <1>0, RecoverKeeps
  <2>3. \A g \in Handles : pending'[g] # Idle => Keeps(pending'[g].cand)
    BY <2>1, <2>2 DEF Promises, Working
  <2> QED BY <1>0, <1>4, <2>3, SilentPromises DEF OpenPersisting, Promises
<1>5. ASSUME NEW h \in Handles,
             ReserveOperationId(h) \/ \E id \in Ids : ReleaseReservation(h, id)
      PROVE  Promises'
  <2>1. UNCHANGED <<survivors, usable, pending, bound, reported>>
    BY <1>5 DEF ReserveOperationId, ReleaseReservation
  <2>2. mem' = mem \/ mem' = [mem EXCEPT ![h].next = mem[h].next + 1]
    BY <1>5 DEF ReserveOperationId, ReleaseReservation
  <2>3. ASSUME NEW g \in Handles PROVE mem'[g].entries = mem[g].entries
    <3>1. mem \in [Handles -> Snapshots] /\ mem[g] \in Snapshots
      BY DEF TypeOK
    <3>2. mem'[g] = mem[g] \/ mem'[g] = [mem[g] EXCEPT !.next = mem[g].next + 1]
      BY <2>2, <3>1
    <3>3. QED
      BY <3>1, <3>2 DEF Snapshots
  <2> QED BY <2>1, <2>3 DEF Promises, Keeps, Working
<1>6. ASSUME NEW h \in Handles, NEW id \in Ids, NEW p \in Plans, Admit(h, id, p)
      PROVE  Promises'
  BY <1>6, AdmitPublishes, PublishPromises DEF Ops
<1>7. ASSUME NEW h \in Handles, NEW r \in receipts, TransitionToRunning(h, r)
      PROVE  Promises'
  BY <1>7, RunPublishes, PublishPromises DEF Ops
<1>8. ASSUME NEW h \in Handles, NEW r \in receipts, NEW t \in States,
             FinalizeAdmission(h, r, t)
      PROVE  Promises'
  BY <1>8, FinalizeAdmissionPublishes, PublishPromises DEF Ops
<1>9. ASSUME NEW h \in Handles, NEW r \in receipts, NEW ev \in Offered, NEW t \in States,
             Finalize(h, r, ev, t)
      PROVE  Promises'
  BY <1>9, FinalizePublishes, PublishPromises DEF Ops
<1>10. ASSUME NEW h \in Handles,
              StageFails(h) \/ Rename(h) \/ RenameReportsError(h) \/ SyncDirectoryFails(h)
       PROVE  Promises'
  <2>1. /\ Working(h) /\ pending[h] \in Pendings
        /\ survivors' \subseteq survivors \cup {pending[h].cand}
        /\ mem' = mem /\ UNCHANGED hist_vars
        /\ \A g \in Handles : usable'[g] => usable[g]
    BY <1>10, PendingType
       DEF StageFails, Rename, RenameReportsError, SyncDirectoryFails, ReplaceFile, Poison, TypeOK
  <2>2. \A g \in Handles : pending'[g] # Idle => Working(g) /\ pending'[g].cand = pending[g].cand
    <3>1. CASE Rename(h)
      <4>1. [pending[h] EXCEPT !.renamed = TRUE].cand = pending[h].cand
        BY <2>1 DEF Pendings
      <4> QED BY <2>1, <3>1, <4>1 DEF Rename, TypeOK, Working
    <3>2. CASE ~Rename(h)
      BY <1>10, <2>1, <3>2
         DEF StageFails, RenameReportsError, SyncDirectoryFails, Poison, TypeOK, Working
    <3> QED BY <3>1, <3>2
  <2> QED BY <2>1, <2>2, SilentPromises DEF Promises
<1>11. ASSUME NEW h \in Handles, SyncDirectory(h) PROVE Promises'
  BY <1>11, CommitPromises
<1>12. ASSUME NEW h \in Handles, Close(h) \/ ProcessCrash(h) PROVE Promises'
  <2>1. /\ \A g \in Handles : usable'[g] => usable[g] /\ mem'[g] = mem[g]
        /\ \A g \in Handles : pending'[g] # Idle => pending'[g] = pending[g]
        /\ survivors' = survivors /\ UNCHANGED hist_vars
    BY <1>12 DEF Close, ProcessCrash, Forget, TypeOK
  <2> QED BY <1>0, <2>1, SilentPromises DEF Promises, Working
<1> QED
  BY <1>1, <1>2, <1>3, <1>4, <1>5, <1>6, <1>7, <1>8, <1>9, <1>10, <1>11, <1>12
     DEF Next, Persist

(* A terminal entry that a caller was told of is in every content a power   *)
(* loss may leave.                                                          *)
THEOREM ReportedEntriesSurvive == Spec => []ReportedSurvives
<1>1. Init => TypeOK /\ Shape /\ Promises
  BY InitType, InitShape, InitPromises
<1>2. TypeOK /\ Shape /\ Promises /\ [Next]_vars => (TypeOK /\ Shape /\ Promises)'
  BY TypeStep, ShapeStep, PromisesStep
<1>3. Promises => ReportedSurvives
  BY DEF Promises, Keeps, ReportedSurvives
<1> QED BY <1>1, <1>2, <1>3, PTL DEF Spec

-----------------------------------------------------------------------------
(* Whatever the next start may read, it can decode.                         *)

(* A journal with one more admitted entry can be decoded. *)
LEMMA AdmitDecodable ==
  ASSUME NEW s \in Snapshots, Decodable(s), s.schema = "current",
         NEW p \in Plans, p \notin Present(s), NEW id \in Ids, id < s.next,
         Cardinality(Present(s)) < MaxEntries,
         \A q \in Present(s) : s.entries[q].id # id
  PROVE  Decodable(AdmitCandidate(s, p, id))
<1> DEFINE e == [id |-> id, state |-> "Admitted", results |-> NoEvidence]
           c == WithEntry(s, p, e)
<1>1. e \in Entries
  BY SnapshotAssumption DEF Entries, States, LiveStates, Ids
<1>2. /\ c.schema = "current" /\ c.next = s.next /\ c.entries[p] = e
      /\ \A q \in Plans : q # p => c.entries[q] = s.entries[q]
  BY <1>1, WithEntryType
<1>3. c = AdmitCandidate(s, p, id)
  BY DEF AdmitCandidate
<1>4. DOMAIN e.results = {}
  BY DEF NoEvidence
<1>5. e.id = id /\ e.state = "Admitted"
  OBVIOUS
<1> HIDE DEF e, c
<1>6. Present(c) = Present(s) \cup {p}
  BY <1>2, <1>5 DEF Present
<1>7. Cardinality(Present(c)) <= MaxEntries
  <2>1. IsFiniteSet(Present(s))
    BY SnapshotAssumption, FS_Subset DEF Present
  <2>2. Cardinality(Present(c)) = Cardinality(Present(s)) + 1 /\ Cardinality(Present(s)) \in Nat
    BY <1>6, <2>1, FS_AddElement, FS_CardinalityType
  <2> QED BY <2>2, SnapshotAssumption
<1>8. ItemsOf(c) = ItemsOf(s)
  <2>1. \A q \in Present(s) : c.entries[q] = s.entries[q]
    BY <1>2 DEF Present
  <2>2. {p} \X DOMAIN c.entries[p].results = {}
    BY <1>2, <1>4
  <2> QED BY <1>6, <2>1, <2>2 DEF ItemsOf
<1>9. UniqueIds(c)
  BY <1>2, <1>5, <1>6 DEF UniqueIds, Decodable, Present
<1>10. \A q \in Present(c) : c.entries[q].id \in 1 .. (MaxSequence - 1) /\ c.entries[q].id < c.next
  BY <1>2, <1>5, <1>6, SnapshotAssumption DEF Decodable, Present, Snapshots, Ids
<1>11. ValidEntryLifecycle(p, e)
  BY <1>4, <1>5 DEF ValidEntryLifecycle, ValidOrderedItemResults
<1>12. \A q \in Present(c) : ValidEntryLifecycle(q, c.entries[q])
  BY <1>2, <1>6, <1>11 DEF Decodable, Present
<1> QED BY <1>3, <1>7, <1>8, <1>9, <1>10, <1>12 DEF Decodable

(* A journal with one entry legally changed can be decoded. *)
LEMMA UpdateDecodable ==
  ASSUME NEW s \in Snapshots, Decodable(s), s.schema = "current",
         NEW p \in Present(s), NEW e \in Entries, e.id = s.entries[p].id, e.state # "Absent",
         ValidEntryLifecycle(p, e),
         \/ e.results = s.entries[p].results
         \/ Cardinality(ItemsOf(WithEntry(s, p, e))) <= MaxItemResults
  PROVE  Decodable(WithEntry(s, p, e))
<1> DEFINE c == WithEntry(s, p, e)
<1>1. /\ c.schema = "current" /\ c.next = s.next /\ c.entries[p] = e
      /\ \A q \in Plans : q # p => c.entries[q] = s.entries[q]
  BY WithEntryType DEF Present
<1> HIDE DEF c
<1>2. Present(c) = Present(s)
  BY <1>1 DEF Present
<1>3. Cardinality(ItemsOf(c)) <= MaxItemResults
  <2>1. CASE e.results = s.entries[p].results
    <3>1. \A q \in Present(s) : c.entries[q].results = s.entries[q].results
      BY <1>1, <2>1 DEF Present
    <3>2. ItemsOf(c) = ItemsOf(s)
      BY <1>2, <3>1 DEF ItemsOf
    <3> QED BY <3>2 DEF Decodable
  <2> QED BY <2>1 DEF c
<1>4. \A q \in Present(c) : c.entries[q].id = s.entries[q].id
  BY <1>1, <1>2 DEF Present
<1>5. \A q \in Present(c) : ValidEntryLifecycle(q, c.entries[q])
  BY <1>1, <1>2 DEF Decodable, Present
<1>6. UniqueIds(c)
  BY <1>2, <1>4 DEF UniqueIds, Decodable
<1> QED BY <1>1, <1>2, <1>3, <1>4, <1>5, <1>6 DEF Decodable, c

(* A recovered journal can be decoded. *)
LEMMA RecoverDecodable ==
  ASSUME NEW s \in Snapshots, Decodable(s)
  PROVE  Decodable(Recover(s))
<1> DEFINE c == Recover(s)
<1>1. /\ c.schema = "current" /\ c.next = DecodedNext(s)
      /\ \A q \in Plans : c.entries[q] = Interrupt(s.entries[q])
  BY DEF Recover
<1>2. \A q \in Plans :
        /\ c.entries[q].id = s.entries[q].id
        /\ c.entries[q].results = s.entries[q].results
        /\ \/ c.entries[q].state = s.entries[q].state
           \/ s.entries[q].state \in LiveStates /\ c.entries[q].state = "Interrupted"
  BY <1>1, InterruptType DEF Snapshots
<1> HIDE DEF c
<1>3. Present(c) = Present(s)
  BY <1>2 DEF Present, LiveStates
<1>4. ItemsOf(c) = ItemsOf(s)
  BY <1>2, <1>3 DEF ItemsOf, Present
<1>5. \A q \in Present(c) : ValidEntryLifecycle(q, c.entries[q])
  BY <1>2, <1>3 DEF Decodable, Present, ValidEntryLifecycle, LiveStates
<1>6. UniqueIds(c)
  BY <1>2, <1>3 DEF UniqueIds, Decodable, Present
<1>7. \A q \in Present(c) : c.entries[q].id < c.next
  BY <1>1, <1>2, <1>3, DerivedNextIsAbove DEF DecodedNext, Decodable, Present
<1> QED BY <1>2, <1>3, <1>4, <1>5, <1>6, <1>7 DEF Decodable, c, Present

(* The initial files can be read. *)
LEMMA InitReadable == Init => Readable
<1> SUFFICES ASSUME Init PROVE Readable
  OBVIOUS
<1>1. Decodable(NoJournal)
  <2>1. Present(NoJournal) = {} /\ ItemsOf(NoJournal) = {}
    BY DEF Present, ItemsOf, NoJournal, NoEntry
  <2>2. Cardinality({}) = 0
    BY FS_EmptySet
  <2> QED BY <2>1, <2>2, SnapshotAssumption DEF Decodable, UniqueIds
<1>2. Decodable(disk)
  BY <1>1, LegacyAssumption DEF Init
<1> QED BY <1>2 DEF Init, Readable, Working

(* Starting to persist a decodable candidate keeps the files readable. *)
LEMMA PublishReadable ==
  ASSUME TypeOK, Readable, NEW h \in Handles, NEW op \in Ops, NEW p \in Plans, NEW e \in Entries,
         Publishes(h, op, p, e), Decodable(WithEntry(mem[h], p, e))
  PROVE  Readable'
<1>1. /\ pending'[h].cand = WithEntry(mem[h], p, e)
      /\ \A g \in Handles : g # h => pending'[g] = pending[g]
      /\ UNCHANGED <<survivors, usable, mem>>
  BY DEF Publishes, Publish, TypeOK, disk_vars
<1> QED BY <1>1 DEF Readable, Working

(* A serving handle works on decodable entries of the current schema.       *)
LEMMA WorkReadable ==
  ASSUME TypeOK, Shape, Readable, NEW h \in Handles, CanWork(h)
  PROVE  mem[h] \in Snapshots /\ Decodable(mem[h]) /\ mem[h].schema = "current"
BY DEF TypeOK, Shape, FileShape, Readable, CanWork

(* Every step keeps the files readable. *)
LEMMA ReadableStep == TypeOK /\ Shape /\ Readable /\ [Next]_vars => Readable'
<1> SUFFICES ASSUME TypeOK, Shape, Readable, [Next]_vars PROVE Readable'
  OBVIOUS
<1> USE DEF vars, disk_vars, handle_vars, client_vars, hist_vars
<1>0. Decodable(disk) /\ \A s \in survivors : Decodable(s)
  BY DEF Readable, Shape, FileShape
<1>1. CASE UNCHANGED vars
  BY <1>1 DEF Readable, Working
<1>2. CASE PowerLoss
  <2>1. /\ \A h \in Handles : usable'[h] => usable[h] /\ mem'[h] = mem[h]
        /\ \A h \in Handles : pending'[h] # Idle => pending'[h] = pending[h]
        /\ survivors' \subseteq survivors
    BY <1>2 DEF PowerLoss, Forget, TypeOK
  <2> QED BY <1>0, <2>1 DEF Readable, Working
<1>3. ASSUME NEW h \in Handles, OpenUnchanged(h) PROVE Readable'
  <2>1. /\ \A g \in Handles : usable'[g] => (mem'[g] = disk \/ (usable[g] /\ mem'[g] = mem[g]))
        /\ pending' = pending /\ survivors' = survivors
    BY <1>3 DEF OpenUnchanged, TypeOK
  <2> QED BY <1>0, <2>1 DEF Readable, Working
<1>4. ASSUME NEW h \in Handles, OpenPersisting(h) PROVE Readable'
  <2>1. Decodable(Recover(disk))
    BY <1>0, RecoverDecodable DEF TypeOK
  <2>2. /\ \A g \in Handles : pending'[g] # Idle =>
             (pending'[g].cand = Recover(disk) \/ pending'[g] = pending[g])
        /\ UNCHANGED <<survivors, usable, mem>>
    BY <1>4 DEF OpenPersisting, Publish, TypeOK
  <2> QED BY <2>1, <2>2 DEF Readable, Working
<1>5. ASSUME NEW h \in Handles, ReserveOperationId(h) PROVE Readable'
  <2> DEFINE m == [mem[h] EXCEPT !.next = mem[h].next + 1]
  <2>1. CanWork(h) /\ UNCHANGED <<survivors, usable, pending>> /\ mem' = [mem EXCEPT ![h] = m]
    BY <1>5 DEF ReserveOperationId
  <2>2. /\ mem[h] \in Snapshots /\ Decodable(mem[h]) /\ mem[h].schema = "current"
        /\ mem[h].next \in Nat
        /\ \A q \in Plans : mem[h].entries[q].id \in Nat
    BY <2>1, WorkReadable, SnapshotAssumption DEF Snapshots, Entries
  <2>3. m.next = mem[h].next + 1 /\ m.entries = mem[h].entries /\ m.schema = "current"
    BY <2>2 DEF Snapshots
  <2> HIDE DEF m
  <2>4. Present(m) = Present(mem[h]) /\ ItemsOf(m) = ItemsOf(mem[h]) /\ UniqueIds(m) = UniqueIds(mem[h])
    BY <2>3 DEF Present, ItemsOf, UniqueIds
  <2>5. \A q \in Present(m) : m.entries[q].id < m.next
    BY <2>2, <2>3, <2>4 DEF Decodable, Present
  <2>6. Decodable(m)
    BY <2>2, <2>3, <2>4, <2>5 DEF Decodable
  <2> QED BY <2>1, <2>6 DEF Readable, Working, TypeOK
<1>6. ASSUME NEW h \in Handles, NEW id \in Ids, ReleaseReservation(h, id) PROVE Readable'
  BY <1>6 DEF ReleaseReservation, Readable, Working
<1>7. ASSUME NEW h \in Handles, NEW id \in Ids, NEW p \in Plans, Admit(h, id, p)
      PROVE  Readable'
  <2> DEFINE e == [id |-> id, state |-> "Admitted", results |-> NoEvidence]
  <2>1. id < mem[h].next
    BY <1>7 DEF Admit, Shape, ReservationShape
  <2>2. Decodable(AdmitCandidate(mem[h], p, id))
    BY <1>7, <2>1, WorkReadable, AdmitDecodable DEF Admit
  <2>3. Decodable(WithEntry(mem[h], p, e))
    BY <2>2 DEF AdmitCandidate
  <2> QED BY <1>7, <2>3, AdmitPublishes, PublishReadable DEF Ops
<1>8. ASSUME NEW h \in Handles, NEW r \in receipts, TransitionToRunning(h, r)
      PROVE  Readable'
  <2> DEFINE p == r.plan
             e == [mem[h].entries[p] EXCEPT !.state = "Running"]
  <2>1. p \in Plans /\ e \in Entries /\ Publishes(h, "run", p, e)
    BY <1>8, RunPublishes
  <2>2. CanWork(h) /\ mem[h].entries[p].state = "Admitted" /\ mem[h].entries[p] \in Entries
    BY <2>1, <1>8 DEF TransitionToRunning, Honours, TypeOK, Snapshots
  <2>3. e.id = mem[h].entries[p].id /\ e.results = mem[h].entries[p].results /\ e.state = "Running"
    BY <2>2 DEF Entries
  <2> HIDE DEF e, p
  <2>4. p \in Present(mem[h]) /\ ValidEntryLifecycle(p, mem[h].entries[p])
    BY <2>1, <2>2, WorkReadable DEF Present, Decodable
  <2>5. ValidEntryLifecycle(p, e)
    BY <2>3, <2>4 DEF ValidEntryLifecycle
  <2>6. Decodable(WithEntry(mem[h], p, e))
    BY <2>1, <2>2, <2>3, <2>4, <2>5, WorkReadable, UpdateDecodable
  <2> QED BY <2>1, <2>6, PublishReadable DEF Ops
<1>9. ASSUME NEW h \in Handles, NEW r \in receipts, NEW t \in States,
             FinalizeAdmission(h, r, t)
      PROVE  Readable'
  <2> DEFINE p == r.plan
             e == [mem[h].entries[p] EXCEPT !.state = t]
  <2>1. p \in Plans /\ e \in Entries /\ Publishes(h, "finalizeAdmission", p, e)
    BY <1>9, FinalizeAdmissionPublishes
  <2>2. /\ CanWork(h) /\ mem[h].entries[p].state = "Admitted" /\ mem[h].entries[p] \in Entries
        /\ t \in TerminalStates /\ ValidEntryLifecycle(p, e)
    BY <2>1, <1>9 DEF FinalizeAdmission, Honours, LegalTransition, TerminalStates, TypeOK, Snapshots
  <2>3. e.id = mem[h].entries[p].id /\ e.results = mem[h].entries[p].results /\ e.state = t
    BY <2>2 DEF Entries
  <2> HIDE DEF e, p
  <2>4. p \in Present(mem[h]) /\ e.state # "Absent"
    BY <2>1, <2>2, <2>3 DEF Present, TerminalStates
  <2>5. Decodable(WithEntry(mem[h], p, e))
    BY <2>1, <2>2, <2>3, <2>4, WorkReadable, UpdateDecodable
  <2> QED BY <2>1, <2>5, PublishReadable DEF Ops
<1>10. ASSUME NEW h \in Handles, NEW r \in receipts, NEW ev \in Offered, NEW t \in States,
              Finalize(h, r, ev, t)
       PROVE  Readable'
  <2> DEFINE p == r.plan
             e == [mem[h].entries[p] EXCEPT !.state = t, !.results = ev]
  <2>1. p \in Plans /\ e \in Entries /\ Publishes(h, "finalize", p, e)
    BY <1>10, FinalizePublishes
  <2>2. /\ CanWork(h) /\ mem[h].entries[p].state = "Running" /\ mem[h].entries[p] \in Entries
        /\ t \in TerminalStates /\ ValidEntryLifecycle(p, e)
        /\ Cardinality(ItemsOf(WithEntry(mem[h], p, e))) <= MaxItemResults
    BY <2>1, <1>10 DEF Finalize, Honours, LegalTransition, TypeOK, Snapshots
  <2>3. e.id = mem[h].entries[p].id /\ e.state = t
    BY <2>2 DEF Entries
  <2> HIDE DEF e, p
  <2>4. p \in Present(mem[h]) /\ e.state # "Absent"
    BY <2>1, <2>2, <2>3 DEF Present, TerminalStates
  <2>5. Decodable(WithEntry(mem[h], p, e))
    BY <2>1, <2>2, <2>3, <2>4, WorkReadable, UpdateDecodable
  <2> QED BY <2>1, <2>5, PublishReadable DEF Ops
<1>11. ASSUME NEW h \in Handles,
              StageFails(h) \/ Rename(h) \/ RenameReportsError(h) \/ SyncDirectoryFails(h)
       PROVE  Readable'
  <2>1. /\ Working(h) /\ pending[h] \in Pendings
        /\ survivors' \subseteq survivors \cup {pending[h].cand}
        /\ mem' = mem
        /\ \A g \in Handles : usable'[g] => usable[g]
    BY <1>11, PendingType
       DEF StageFails, Rename, RenameReportsError, SyncDirectoryFails, ReplaceFile, Poison, TypeOK
  <2>2. \A g \in Handles : pending'[g] # Idle => Working(g) /\ pending'[g].cand = pending[g].cand
    <3>1. CASE Rename(h)
      <4>1. [pending[h] EXCEPT !.renamed = TRUE].cand = pending[h].cand
        BY <2>1 DEF Pendings
      <4> QED BY <2>1, <3>1, <4>1 DEF Rename, TypeOK, Working
    <3>2. CASE ~Rename(h)
      BY <1>11, <2>1, <3>2
         DEF StageFails, RenameReportsError, SyncDirectoryFails, Poison, TypeOK, Working
    <3> QED BY <3>1, <3>2
  <2> QED BY <2>1, <2>2 DEF Readable, Working
<1>12. ASSUME NEW h \in Handles, SyncDirectory(h) PROVE Readable'
  <2>1. /\ Working(h) /\ survivors' = {disk}
        /\ mem' = [mem EXCEPT ![h] = pending[h].cand]
        /\ usable' = [usable EXCEPT ![h] = TRUE]
        /\ pending' = [pending EXCEPT ![h] = Idle]
    BY <1>12 DEF SyncDirectory, Commit
  <2> QED BY <1>0, <2>1 DEF Readable, Working, TypeOK
<1>13. ASSUME NEW h \in Handles, Close(h) \/ ProcessCrash(h) PROVE Readable'
  <2>1. /\ \A g \in Handles : usable'[g] => usable[g] /\ mem'[g] = mem[g]
        /\ \A g \in Handles : pending'[g] # Idle => pending'[g] = pending[g]
        /\ survivors' = survivors
    BY <1>13 DEF Close, ProcessCrash, Forget, TypeOK
  <2> QED BY <2>1 DEF Readable, Working
<1> QED
  BY <1>1, <1>2, <1>3, <1>4, <1>5, <1>6, <1>7, <1>8, <1>9, <1>10, <1>11, <1>12, <1>13
     DEF Next, Persist

-----------------------------------------------------------------------------
(* The theorems that rest on the whole invariant.                           *)

Durable == TypeOK /\ Shape /\ Promises /\ Readable

(* What reaches the directory keeps what was reported and can be read: the
   inductive invariant behind the two theorems that follow. *)
THEOREM DurableInvariant == Spec => []Durable
<1>1. Init => Durable
  BY InitType, InitShape, InitPromises, InitReadable DEF Durable
<1>2. Durable /\ [Next]_vars => Durable'
  BY TypeStep, ShapeStep, PromisesStep, ReadableStep DEF Durable
<1> QED BY <1>1, <1>2, PTL DEF Spec

(* No crash leaves a journal that the decoder of the next start refuses.    *)
THEOREM JournalStaysReadable == Spec => []NeverUnreadable
<1>1. Durable => NeverUnreadable
  BY DEF Durable, Readable, NeverUnreadable
<1> QED BY <1>1, DurableInvariant, PTL

(* Admitted plans keep their identifiers, each its own, across any crash.   *)
THEOREM AdmissionsSurvive == Spec => []AdmissionSurvives
<1>1. Durable => AdmissionSurvives
  <2> SUFFICES ASSUME Durable PROVE AdmissionSurvives
    OBVIOUS
  <2>1. \A p \in Plans : bound[p] # 0 =>
          \A s \in survivors : s.entries[p].id = bound[p] /\ p \in Present(s)
    BY DEF Durable, Promises, Keeps, Present
  <2>2. disk \in survivors /\ UniqueIds(disk)
    BY DEF Durable, Shape, FileShape, Readable, Decodable
  <2> QED BY <2>1, <2>2 DEF AdmissionSurvives, UniqueIds
<1> QED BY <1>1, DurableInvariant, PTL

(* A serving handle never works from a stale copy of the entries.           *)
THEOREM MemoryMatchesDisk == Spec => []MemoryIsDisk
<1>1. Durable => MemoryIsDisk
  BY DEF Durable, Shape, FileShape, MemoryIsDisk, Serving, Working
<1> QED BY <1>1, DurableInvariant, PTL

-----------------------------------------------------------------------------
(* Live entries and receipts match one to one.                              *)

Authority ==
  /\ \A r \in receipts : phase[r.handle] \in {"open", "dead"}
  /\ \A h \in Handles : usable[h] =>
       /\ \A r \in receipts : r.handle = h =>
            /\ mem[h].entries[r.plan].state \in LiveStates
            /\ r.kind = ReceiptOf(mem[h].entries[r.plan])
            /\ r.id = mem[h].entries[r.plan].id
       /\ \A p \in Plans : mem[h].entries[p].state \in LiveStates =>
            \E r \in receipts : r.handle = h /\ r.plan = p

(* Nobody has authority initially. *)
LEMMA InitAuthority == Init => Authority
BY DEF Init, Authority

(* Authority handed out with a committed candidate matches the journal. *)
LEMMA CommitAuthority ==
  ASSUME TypeOK, Shape, Authority, NEW h \in Handles, SyncDirectory(h)
  PROVE  Authority'
<1> DEFINE w == pending[h]
           c == w.cand
           spent == {r \in receipts : r.handle = h /\ r.plan \in w.about}
           issued == IF w.op = "admit"
                     THEN {AdmissionReceipt(h, p, c.entries[p].id) : p \in w.about}
                     ELSE IF w.op = "run"
                     THEN {RunReceipt(h, p, c.entries[p].id) : p \in w.about} ELSE {}
<1>1. /\ phase' = [phase EXCEPT ![h] = "open"] /\ usable' = [usable EXCEPT ![h] = TRUE]
      /\ mem' = [mem EXCEPT ![h] = c]
      /\ receipts' = (receipts \ spent) \cup issued
  BY DEF SyncDirectory, Commit
<1>2. /\ w.about \subseteq Plans /\ w.op \in Ops
      /\ \A g \in Handles : g # h => ~usable[g]
      /\ w.op = "open" => /\ w.about = {}
                          /\ \A p \in Plans : c.entries[p].state \notin LiveStates
      /\ w.op # "open" => \A p \in Plans \ w.about : c.entries[p] = mem[h].entries[p]
      /\ w.op # "open" => phase[h] = "open" /\ usable[h]
      /\ w.op = "open" => phase[h] = "opening"
  BY PendingType DEF SyncDirectory, Shape, OneOwner, PhaseShape, CandidateShape, Locked
<1>3. \A p \in w.about :
        /\ w.op = "admit" => c.entries[p].state = "Admitted"
        /\ w.op = "run" => c.entries[p].state = "Running"
        /\ w.op \in {"finalizeAdmission", "finalize"} => c.entries[p].state \in TerminalStates
  BY DEF SyncDirectory, Shape, CandidateShape
<1>4. \A r \in issued :
        /\ r.handle = h /\ r.plan \in w.about /\ r.id = c.entries[r.plan].id
        /\ (w.op = "admit" /\ r.kind = "admission") \/ (w.op = "run" /\ r.kind = "run")
  <2> HIDE DEF w, c
  <2>1. \A p, id :
          /\ AdmissionReceipt(h, p, id).kind = "admission"
          /\ AdmissionReceipt(h, p, id).handle = h
          /\ AdmissionReceipt(h, p, id).plan = p
          /\ AdmissionReceipt(h, p, id).id = id
          /\ RunReceipt(h, p, id).kind = "run"
          /\ RunReceipt(h, p, id).handle = h
          /\ RunReceipt(h, p, id).plan = p
          /\ RunReceipt(h, p, id).id = id
    BY DEF AdmissionReceipt, RunReceipt
  <2> QED BY <2>1
<1>5. w.op \in {"admit", "run"} =>
        \A p \in w.about : \E r \in issued : r.handle = h /\ r.plan = p
  <2> HIDE DEF w, c
  <2> SUFFICES ASSUME w.op \in {"admit", "run"}, NEW p \in w.about
               PROVE  \E r \in issued : r.handle = h /\ r.plan = p
    OBVIOUS
  <2>1. CASE w.op = "admit"
    <3>1. AdmissionReceipt(h, p, c.entries[p].id) \in issued
      BY <2>1
    <3> QED BY <3>1 DEF AdmissionReceipt
  <2>2. CASE w.op = "run"
    <3>1. RunReceipt(h, p, c.entries[p].id) \in issued
      BY <2>2
    <3> QED BY <3>1 DEF RunReceipt
  <2> QED BY <2>1, <2>2
<1>6. receipts \subseteq Receipts
  BY DEF TypeOK
<1> HIDE DEF w, c, spent, issued
<1>7. \A r \in receipts' : phase'[r.handle] \in {"open", "dead"}
  BY <1>1, <1>2, <1>4, <1>6 DEF Authority, TypeOK, spent, Receipts
<1>8. \A r \in receipts' : r.handle = h =>
        /\ c.entries[r.plan].state \in LiveStates
        /\ r.kind = ReceiptOf(c.entries[r.plan])
        /\ r.id = c.entries[r.plan].id
  <2> SUFFICES ASSUME NEW r \in receipts', r.handle = h
               PROVE  /\ c.entries[r.plan].state \in LiveStates
                      /\ r.kind = ReceiptOf(c.entries[r.plan])
                      /\ r.id = c.entries[r.plan].id
    OBVIOUS
  <2>1. CASE r \in issued
    BY <2>1, <1>3, <1>4 DEF ReceiptOf, LiveStates
  <2>2. CASE r \in receipts /\ r \notin spent
    <3>1. r.plan \in Plans /\ r.plan \notin w.about
      BY <2>2, <1>6 DEF spent, Receipts
    <3>2. w.op # "open"
      BY <2>2, <1>2 DEF Authority
    <3> QED BY <2>2, <3>1, <3>2, <1>2 DEF Authority
  <2> QED BY <2>1, <2>2, <1>1
<1>9. \A p \in Plans : c.entries[p].state \in LiveStates =>
        \E r \in receipts' : r.handle = h /\ r.plan = p
  <2> SUFFICES ASSUME NEW p \in Plans, c.entries[p].state \in LiveStates
               PROVE  \E r \in receipts' : r.handle = h /\ r.plan = p
    OBVIOUS
  <2>1. CASE p \in w.about
    <3>1. w.op \in {"admit", "run"}
      BY <2>1, <1>2, <1>3 DEF Ops, LiveStates, TerminalStates
    <3> QED BY <2>1, <3>1, <1>1, <1>5
  <2>2. CASE p \notin w.about
    <3>1. PICK r \in receipts : r.handle = h /\ r.plan = p
      BY <2>2, <1>2 DEF Authority
    <3> QED BY <2>2, <3>1, <1>1 DEF spent
  <2> QED BY <2>1, <2>2
<1>10. /\ \A g \in Handles : usable'[g] => g = h
       /\ mem'[h] = c
  BY <1>1, <1>2 DEF TypeOK
<1> QED BY <1>7, <1>8, <1>9, <1>10 DEF Authority, ReceiptOf

(* A step that issues no receipt, and shows no entry that was not shown.    *)
LEMMA QuietAuthority ==
  ASSUME TypeOK, Authority, receipts' \subseteq receipts,
         \A r \in receipts' : phase'[r.handle] \in {"open", "dead"},
         \A h \in Handles : usable'[h] =>
           usable[h] /\ mem'[h].entries = mem[h].entries /\ receipts' = receipts
  PROVE  Authority'
BY DEF Authority, ReceiptOf

(* Every step keeps authority and journal in agreement. *)
LEMMA AuthorityStep == TypeOK /\ Shape /\ Authority /\ [Next]_vars => Authority'
<1> SUFFICES ASSUME TypeOK, Shape, Authority, [Next]_vars PROVE Authority'
  OBVIOUS
<1> USE DEF vars, disk_vars, handle_vars, client_vars, hist_vars
<1>0. \A r \in receipts : r.handle \in Handles /\ phase[r.handle] \in {"open", "dead"}
  BY DEF Authority, TypeOK, Receipts
<1>1. CASE UNCHANGED vars
  BY <1>0, <1>1, QuietAuthority
<1>2. CASE PowerLoss
  <2>1. \A h \in Handles : ~usable'[h]
    BY <1>2 DEF PowerLoss, Forget, Shape, PhaseShape, Locked
  <2> QED BY <1>2, <2>1, QuietAuthority DEF PowerLoss
<1>3. ASSUME NEW h \in Handles, OpenUnchanged(h) PROVE Authority'
  <2>1. /\ phase[h] = "fresh" /\ phase' = [phase EXCEPT ![h] = "open"]
        /\ \A g \in Handles : ~usable[g]
        /\ usable' = [usable EXCEPT ![h] = TRUE] /\ mem' = [mem EXCEPT ![h] = disk]
        /\ receipts' = receipts
    BY <1>3 DEF OpenUnchanged, MayOpen, Shape, PhaseShape, Locked
  <2>2. \A p \in Plans : disk.entries[p].state \notin LiveStates
    <3>1. \A p \in Plans : disk.entries[p] \in Entries /\ disk.entries[p] = Interrupt(disk.entries[p])
      <4>1. Recover(disk) = disk
        BY <1>3 DEF OpenUnchanged, NeedsPersist
      <4>2. \A p \in Plans : Recover(disk).entries[p] = Interrupt(disk.entries[p])
        BY DEF Recover
      <4> QED BY <4>1, <4>2 DEF TypeOK, Snapshots
    <3> QED BY <3>1, InterruptType DEF LiveStates
  <2>3. \A r \in receipts : r.handle # h
    BY <1>0, <2>1
  <2>4. \A r \in receipts' : phase'[r.handle] \in {"open", "dead"}
    BY <1>0, <2>1 DEF TypeOK
  <2>5. \A g \in Handles : usable'[g] => g = h /\ mem'[g] = disk
    BY <2>1 DEF TypeOK
  <2> QED BY <2>1, <2>2, <2>3, <2>4, <2>5 DEF Authority
<1>4. ASSUME NEW h \in Handles, OpenPersisting(h) PROVE Authority'
  <2>1. /\ phase[h] = "fresh" /\ phase' = [phase EXCEPT ![h] = "opening"]
        /\ UNCHANGED <<usable, mem, receipts>>
    BY <1>4 DEF OpenPersisting, MayOpen
  <2>2. \A r \in receipts' : phase'[r.handle] \in {"open", "dead"}
    BY <1>0, <2>1 DEF TypeOK
  <2> QED BY <2>1, <2>2, QuietAuthority
<1>5. ASSUME NEW h \in Handles,
             ReserveOperationId(h) \/ \E id \in Ids : ReleaseReservation(h, id)
      PROVE  Authority'
  <2>1. UNCHANGED <<phase, usable, receipts>>
    BY <1>5 DEF ReserveOperationId, ReleaseReservation
  <2>2. mem' = mem \/ mem' = [mem EXCEPT ![h].next = mem[h].next + 1]
    BY <1>5 DEF ReserveOperationId, ReleaseReservation
  <2>3. ASSUME NEW g \in Handles PROVE mem'[g].entries = mem[g].entries
    <3>1. mem \in [Handles -> Snapshots] /\ mem[g] \in Snapshots
      BY DEF TypeOK
    <3>2. mem'[g] = mem[g] \/ mem'[g] = [mem[g] EXCEPT !.next = mem[g].next + 1]
      BY <2>2, <3>1
    <3>3. QED
      BY <3>1, <3>2 DEF Snapshots
  <2> QED BY <1>0, <2>1, <2>3, QuietAuthority
<1>6. ASSUME UNCHANGED <<phase, usable, mem, receipts>> PROVE Authority'
  BY <1>0, <1>6, QuietAuthority
<1>7. ASSUME NEW h \in Handles, StageFails(h) PROVE Authority'
  <2>1. \A r \in receipts : phase'[r.handle] \in {"open", "dead"}
    BY <1>0, <1>7 DEF StageFails, TypeOK
  <2> QED BY <1>7, <2>1, QuietAuthority DEF StageFails
<1>8. ASSUME NEW h \in Handles, RenameReportsError(h) \/ SyncDirectoryFails(h) PROVE Authority'
  <2>1. Working(h) /\ Poison(h)
    BY <1>8 DEF RenameReportsError, SyncDirectoryFails
  <2>2. \A g \in Handles : g # h => ~usable[g]
    BY <2>1 DEF Shape, OneOwner, PhaseShape, Locked
  <2>3. \A g \in Handles : ~usable'[g]
    BY <2>1, <2>2 DEF Poison, TypeOK
  <2>4. receipts' \subseteq receipts /\ \A r \in receipts : phase'[r.handle] \in {"open", "dead"}
    BY <1>0, <2>1 DEF Poison, TypeOK
  <2> QED BY <2>3, <2>4, QuietAuthority
<1>9. ASSUME NEW h \in Handles, SyncDirectory(h) PROVE Authority'
  BY <1>9, CommitAuthority
<1>10. ASSUME NEW h \in Handles, Close(h) \/ ProcessCrash(h) PROVE Authority'
  <2>1. /\ Forget({h}) /\ Locked(h)
        /\ \/ receipts' = receipts
           \/ receipts' = {} /\ \A g \in Handles : ~usable'[g]
    <3>1. CASE Close(h)
      BY <3>1 DEF Close, Locked
    <3>2. CASE ProcessCrash(h)
      BY <3>2 DEF ProcessCrash, Forget, Shape, OneOwner, PhaseShape, Locked
    <3> QED BY <1>10, <3>1, <3>2
  <2>2. /\ \A g \in Handles : usable'[g] => usable[g] /\ mem'[g] = mem[g]
        /\ \A g \in Handles : phase'[g] = phase[g] \/ phase'[g] = "dead"
    BY <2>1 DEF Forget
  <2>3. \A r \in receipts : phase'[r.handle] \in {"open", "dead"}
    BY <1>0, <2>2
  <2> QED BY <2>1, <2>2, <2>3, QuietAuthority
<1>11. ASSUME NEW h \in Handles,
              \/ Rename(h)
              \/ \E id \in Ids, p \in Plans : Admit(h, id, p)
              \/ \E r \in receipts : TransitionToRunning(h, r)
              \/ \E r \in receipts, t \in States : FinalizeAdmission(h, r, t)
              \/ \E r \in receipts, ev \in Offered, t \in States : Finalize(h, r, ev, t)
       PROVE  Authority'
  <2>1. UNCHANGED <<phase, usable, mem, receipts>>
    BY <1>11 DEF Rename, Admit, TransitionToRunning, FinalizeAdmission, Finalize
  <2> QED BY <1>6, <2>1
<1> QED
  BY <1>1, <1>2, <1>3, <1>4, <1>5, <1>7, <1>8, <1>9, <1>10, <1>11 DEF Next, Persist

(* In a serving handle live entries and unspent receipts match one to one.  *)
THEOREM AuthorityIsExact == Spec => []AuthorityMatchesJournal
<1>1. Init => Authority
  BY InitAuthority
<1>2. Durable /\ Authority /\ [Next]_vars => Authority'
  BY AuthorityStep DEF Durable
<1>3. Durable /\ Authority => AuthorityMatchesJournal
  BY DEF Durable, TypeOK, Receipts, Authority, AuthorityMatchesJournal, Serving
<1> QED BY <1>1, <1>2, <1>3, DurableInvariant, PTL DEF Spec
=============================================================================
