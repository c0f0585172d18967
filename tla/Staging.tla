------------------------------ MODULE Staging ------------------------------
(***************************************************************************)
(* The protected roots of the cross-volume staging helper                  *)
(* (CrossVolumeStagingProtectedRootLedger.cpp): a snapshot of the reviewed *)
(* source is staged in a root-only directory on the source's volume, then  *)
(* copied into one on the destination's, each with a reservation before    *)
(* it and a seal after it, and the two are paired by lifecycle records     *)
(* that a restarted helper can inspect.  Nothing is published.             *)
(*                                                                         *)
(* A helper is a process with the list of the steps it still has to take,  *)
(* one for each group of system calls.  Whatever fails, is cancelled or    *)
(* dies ends the list where it is and gives the roots back; what was       *)
(* written stays.  A root is a directory on a volume of its own.  fsync    *)
(* hands a file and its name to the drive, F_FULLFSYNC makes the drive     *)
(* write all it was handed; until then a power loss may keep a file, lose  *)
(* it or leave it torn.                                                    *)
(*                                                                         *)
(* Leases are external: a session may begin with any header at any time.   *)
(* Forks of the helper and strangers who write into its roots are left out.*)
(***************************************************************************)
EXTENDS Naturals, Sequences, FiniteSets

CONSTANTS
  Headers,         \* correlations of requests
  Ids,             \* artifact identifiers, random and never repeated
  Helpers,         \* helper processes
  First,           \* the root that comes first in canonical order
  MaxReservations, \* ProtectedRootLedger::kMaximumReservations
  MaxVersion,      \* bound: the last version of the source
  MaxEvents        \* bound: how often a session fails, the power is lost or a ledger is opened

Roots  == {"source", "destination"}
Kinds  == {"record", "artifact", "seal", "pair", "pairSeal"}
Second == CHOOSE r \in Roots : r # First

NoId      == "no id"
NoHeader  == "no header"

ASSUME StagingAssumption ==
  /\ First \in Roots
  /\ NoId \notin Ids /\ NoHeader \notin Headers
  /\ MaxReservations \in Nat /\ MaxVersion \in Nat /\ MaxEvents \in Nat

VARIABLES
  fs,      \* the files of each root: what a read returns, what a power loss may leave
  source,  \* the version of the reviewed source
  todo,    \* the steps each helper has still to take
  run,     \* what each helper's session was asked for and its artifacts
  held,    \* the roots each helper has locked
  slots,   \* m_ActiveReservations of the ledgers of each helper
  staged,  \* history: what StagingSessionRunner::Run returned
  events   \* the failures, power losses and openings of a ledger so far

disk == <<fs, source>>
vars == <<disk, todo, run, held, slots, staged, events>>

-----------------------------------------------------------------------------
(* Files.                                                                   *)

Gone == [is |-> "gone"]
Torn == [is |-> "torn"]  \* in part, or not with the seal's metadata

NoFile == [now |-> Gone, may |-> {Gone}, flushed |-> TRUE]

Record(x)       == [is |-> "record", header |-> x]
Artifact(data)  == [is |-> "artifact", data |-> data]
Seal(x, data)   == [is |-> "seal", header |-> x, data |-> data]
Pair(x, ids, v, seals) == [is |-> "pair", header |-> x, ids |-> ids, version |-> v, seals |-> seals]

Now(r, k, i)        == fs[r][k][i].now
Durable(r, k, i)    == Now(r, k, i) # Gone /\ fs[r][k][i].may = {Now(r, k, i)}
MayBeFound(r, k, i) == fs[r][k][i].may # {Gone}
Unused(r, i)        == \A k \in Kinds : ~MayBeFound(r, k, i)

Put(r, k, i, content) ==
  fs' = [fs EXCEPT ![r][k][i] = [now |-> content, may |-> {Gone, Torn, content}, flushed |-> FALSE]]

Unlinked(r, i) ==
  [fs EXCEPT ![r]["record"][i] = [now |-> Gone, may |-> @.may \cup {Gone}, flushed |-> FALSE]]

(* fsync of some files and of the root, which also hands over what was unlinked. *)
Handed(file) == [file EXCEPT !.flushed = TRUE]

HandedOver(files, r, done) ==
  [files EXCEPT ![r] = [k \in Kinds |-> [i \in Ids |->
    IF <<k, i>> \in done \/ files[r][k][i].now = Gone THEN Handed(files[r][k][i]) ELSE files[r][k][i]]]]

Written(file) == IF file.flushed THEN [file EXCEPT !.may = {file.now}] ELSE file

FlushDrive(r) == fs' = [fs EXCEPT ![r] = [k \in Kinds |-> [i \in Ids |-> Written(fs[r][k][i])]]]

-----------------------------------------------------------------------------
(* The steps of a session: StagingRootAuthority::Acquire, the two writers     *)
(* and StagingPublicationLifecycle::RecordStaged.                             *)

Step(op, r, k) == [op |-> op, root |-> r, kind |-> k]

Writing(r, k) == <<Step("write", r, k), Step("sync", r, k)>>
Reserving(r)  == <<Step("reserve", r, "record")>> \o Writing(r, "record")
Filling(r)    == <<Step("create", r, "artifact"), Step("copy", r, "artifact"), Step("copyRest", r, "artifact")>>
Syncing(r)    == <<Step("sync", r, "artifact"), Step("full", r, "artifact")>>
Sealing(r)    == <<Step("create", r, "seal")>> \o Writing(r, "seal")
Unflushed(r, k) == <<Step("create", r, k)>> \o Writing(r, k) \* mutant: no F_FULLFSYNC
Recording(r, k) == <<Step("create", r, k)>> \o Writing(r, k) \o <<Step("full", r, k)>>

SealsFirst(r) == \* mutant: the seal is written before the artifact is synchronized
  Reserving(r) \o Filling(r) \o Sealing(r) \o Syncing(r)

Staging(r) == Reserving(r) \o Filling(r) \o Syncing(r) \o Sealing(r)
Pairing(r) == Recording(r, "pair") \o Recording(r, "pairSeal")

Acquiring == <<Step("lock", First, "record"), Step("lock", Second, "record")>>
Session ==
  Acquiring \o Staging("source") \o Staging("destination") \o Pairing(First) \o Pairing(Second)
    \o <<Step("return", "destination", "artifact")>>

(* What may be done with a sealed stage, and with one ledger. *)
Preparing == <<Step("lock", "destination", "record"), Step("validate", "destination", "artifact"),
               Step("validate", "destination", "artifact"), Step("permit", "destination", "artifact")>>
Ledger(r)        == <<Step("open", r, "record")>>
Materializing(r) == <<Step("create", r, "artifact")>> \o Syncing(r) \o Sealing(r)

-----------------------------------------------------------------------------
NoVersion == 0
NoRun     == [header |-> NoHeader, version |-> NoVersion, ids |-> [r \in Roots |-> NoId]]

Init ==
  /\ fs = [r \in Roots |-> [k \in Kinds |-> [i \in Ids |-> NoFile]]]
  /\ source = 1
  /\ todo = [h \in Helpers |-> <<>>]
  /\ run = [h \in Helpers |-> NoRun]
  /\ held = [h \in Helpers |-> {}]
  /\ slots = [h \in Helpers |-> {}]
  /\ staged = {}
  /\ events = 0

At(h, op) == todo[h] # <<>> /\ Head(todo[h]).op = op
Root(h)   == Head(todo[h]).root
Kind(h)   == Head(todo[h]).kind
Id(h)     == run[h].ids[Root(h)]
Idle(h)   == todo[h] = <<>>

Proceeds(h)     == todo' = [todo EXCEPT ![h] = Tail(@)]
GoesOn(h, list) == todo' = [todo EXCEPT ![h] = list]
Begins(h, x, v, list) ==
  /\ GoesOn(h, list)
  /\ run' = [run EXCEPT ![h] = [NoRun EXCEPT !.header = x, !.version = v]]

NeverStale(h) == TRUE \* mutant: the source is not looked at again

SourceIsExact(h) == run[h].version \in {NoVersion, source}

Counted ==
  /\ events < MaxEvents
  /\ events' = events + 1

(* Whatever fails, is cancelled, is no longer wanted or dies: the roots are   *)
(* given back and what is in them stays.  Only the failures of a session that *)
(* could go on are counted: one that waits for its owner, is refused a root   *)
(* or a reservation or finds the source changed ends anyway.                  *)
Ends(h) == (\E op \in {"lock", "reserve", "staged", "permit", "open", "sealed"} : At(h, op)) \/ ~SourceIsExact(h)

Abandon(h) ==
  /\ ~Idle(h)
  /\ IF Ends(h) THEN UNCHANGED events ELSE Counted
  /\ todo' = [todo EXCEPT ![h] = <<>>]
  /\ run' = [run EXCEPT ![h] = NoRun]
  /\ held' = [held EXCEPT ![h] = {}]
  /\ slots' = [slots EXCEPT ![h] = {}]
  /\ UNCHANGED <<disk, staged>>

-----------------------------------------------------------------------------
(* Locks.  The lock of a root is tried once; the registry and flock refuse it. *)

StartSession(h, x) ==
  /\ Idle(h)
  /\ Begins(h, x, source, Session)
  /\ UNCHANGED <<disk, held, slots, staged, events>>

OpenLedger(h, r) ==
  /\ Idle(h)
  /\ Counted
  /\ Begins(h, NoHeader, NoVersion, <<Step("lock", r, "record")>> \o Ledger(r))
  /\ UNCHANGED <<disk, held, slots, staged>>

Open(h) ==
  /\ At(h, "lock")
  /\ \A g \in Helpers : Root(h) \notin held[g]
  /\ held' = [held EXCEPT ![h] = @ \cup {Root(h)}]
  /\ Proceeds(h)
  /\ UNCHANGED <<disk, run, slots, staged, events>>

-----------------------------------------------------------------------------
(* Reserve, the writers and RecordStaged, step by step.                       *)

HasExactReservation(h, r) == Now(r, "record", run[h].ids[r]) = Record(run[h].header)

HasExactSealedArtifact(x, r, i) ==
  /\ Now(r, "record", i) = Record(x)
  /\ Now(r, "artifact", i).is = "artifact"
  /\ Now(r, "seal", i) = Seal(x, Now(r, "artifact", i).data)

SlotsOf(h, r) == {s \in slots[h] : s.root = r}

Records(r) == {i \in Ids : Now(r, "record", i) # Gone}

Reserve(h) ==
  LET r == Root(h)
      x == run[h].header
  IN  /\ At(h, "reserve") /\ SourceIsExact(h)
      /\ \A s \in SlotsOf(h, r) : s.header # x
      /\ Cardinality(SlotsOf(h, r)) < MaxReservations
      /\ \A i \in Ids : Now(r, "record", i) # Record(x)
      /\ Cardinality(Records(r)) < MaxReservations
      /\ \E i \in Ids :
           /\ Unused(r, i)
           /\ Put(r, "record", i, Torn)
           /\ run' = [run EXCEPT ![h].ids[r] = i]
      /\ Proceeds(h)
      /\ UNCHANGED <<source, held, slots, staged, events>>

(* The artifact and its seal need the reservation, the first lifecycle record *)
(* both sealed artifacts.                                                     *)
MayCreate(h, r, k) ==
  CASE k \in {"artifact", "seal"}    -> SourceIsExact(h) /\ HasExactReservation(h, r)
    [] k = "pair" /\ r = First       -> /\ SourceIsExact(h)
                                        /\ \A q \in Roots : HasExactSealedArtifact(run[h].header, q, run[h].ids[q])
    [] OTHER                         -> TRUE

Create(h) ==
  /\ At(h, "create")
  /\ Now(Root(h), Kind(h), Id(h)) = Gone
  /\ MayCreate(h, Root(h), Kind(h))
  /\ Put(Root(h), Kind(h), Id(h), IF Kind(h) = "artifact" THEN Artifact(<<>>) ELSE Torn)
  /\ Proceeds(h)
  /\ UNCHANGED <<source, run, held, slots, staged, events>>

(* The snapshot is read from the source as it is by then, the stage from the  *)
(* snapshot.                                                                  *)
CopyChunk(h) ==
  LET data  == Now(Root(h), "artifact", Id(h)).data
      chunk == IF Root(h) = "source" THEN source
               ELSE Now("source", "artifact", run[h].ids["source"]).data[Len(data) + 1]
  IN  /\ At(h, "copy") \/ At(h, "copyRest")
      /\ Root(h) = "destination" => SourceIsExact(h) /\ HasExactReservation(h, Root(h))
      /\ Put(Root(h), "artifact", Id(h), Artifact(Append(data, chunk)))
      /\ Proceeds(h)
      /\ UNCHANGED <<source, run, held, slots, staged, events>>

Manifest(h) ==
  LET ids == run[h].ids
  IN  Pair(run[h].header, ids, run[h].version, [r \in Roots |-> Now(r, "artifact", ids[r]).data])

Content(h) ==
  CASE Kind(h) = "record" -> Record(run[h].header)
    [] Kind(h) = "seal"   -> Seal(run[h].header, Now(Root(h), "artifact", Id(h)).data)
    [] OTHER              -> Manifest(h)

WriteContent(h) ==
  /\ At(h, "write")
  /\ Put(Root(h), Kind(h), Id(h), Content(h))
  /\ Proceeds(h)
  /\ UNCHANGED <<source, run, held, slots, staged, events>>

(* A reservation takes its slot once it is synchronized. *)
Synchronize(h) ==
  /\ At(h, "sync")
  /\ Kind(h) = "artifact" => SourceIsExact(h)
  /\ fs' = HandedOver(fs, Root(h), {<<Kind(h), Id(h)>>})
  /\ slots' = [slots EXCEPT ![h] = IF Kind(h) # "record" THEN @
                ELSE @ \cup {[root |-> Root(h), header |-> run[h].header, id |-> Id(h)]}]
  /\ Proceeds(h)
  /\ UNCHANGED <<source, run, held, staged, events>>

FullSync(h) ==
  /\ At(h, "full")
  /\ FlushDrive(Root(h))
  /\ Proceeds(h)
  /\ UNCHANGED <<source, run, held, slots, staged, events>>

Lifecycle == {"pair", "pairSeal"}

HasExactLifecycleManifest(h, r) == \A k \in Lifecycle : Now(r, k, run[h].ids[r]) = Manifest(h)

(* Run returns the sealed stage and lets both roots go. *)
Return(h) ==
  /\ At(h, "return")
  /\ \A r \in Roots : HasExactLifecycleManifest(h, r)
  /\ staged' = staged \cup {[header |-> run[h].header, ids |-> run[h].ids]}
  /\ GoesOn(h, <<Step("staged", "destination", "artifact")>>)
  /\ held' = [held EXCEPT ![h] = {}]
  /\ slots' = [slots EXCEPT ![h] = {}]
  /\ UNCHANGED <<disk, run, events>>

-----------------------------------------------------------------------------
(* StagingPublicationBarrier::Prepare takes the destination's root again and  *)
(* looks twice, before and after the cancellation callback.  The permit keeps *)
(* the root.                                                                  *)

Prepare(h) ==
  /\ At(h, "staged")
  /\ GoesOn(h, Preparing)
  /\ UNCHANGED <<disk, run, held, slots, staged, events>>

Validate(h) ==
  /\ At(h, "validate")
  /\ SourceIsExact(h)
  /\ HasExactSealedArtifact(run[h].header, "destination", run[h].ids["destination"])
  /\ Proceeds(h)
  /\ UNCHANGED <<disk, run, held, slots, staged, events>>

-----------------------------------------------------------------------------
(* A ledger on its own: Reserve, Release, MaterializeEmptyAndSeal, Reconcile. *)

Slot(h) == [root |-> Root(h), header |-> run[h].header, id |-> Id(h)]
HasReservation(h) == Id(h) # NoId

LedgerReserve(h, x) ==
  /\ At(h, "open") /\ ~HasReservation(h)
  /\ Begins(h, x, NoVersion, Reserving(Root(h)) \o Ledger(Root(h)))
  /\ UNCHANGED <<disk, held, slots, staged, events>>

MaterializeEmptyAndSeal(h) ==
  /\ At(h, "open") /\ HasReservation(h) /\ Slot(h) \in slots[h]
  /\ Root(h) = "destination"
  /\ GoesOn(h, Materializing(Root(h)) \o <<Step("sealed", Root(h), "record")>>)
  /\ UNCHANGED <<disk, run, held, slots, staged, events>>

(* The slot becomes free only if the root could be synchronized; the          *)
(* reservation is used up anyway.                                             *)
Release(h) ==
  LET r == Root(h)
      i == Id(h)
  IN  /\ At(h, "open") /\ HasReservation(h) /\ Slot(h) \in slots[h]
      /\ Now(r, "artifact", i) = Gone /\ Now(r, "seal", i) = Gone
      /\ HasExactReservation(h, r)
      /\ \/ /\ fs' = Unlinked(r, i) /\ UNCHANGED slots
         \/ /\ fs' = HandedOver(Unlinked(r, i), r, {})
            /\ slots' = [slots EXCEPT ![h] = @ \ {Slot(h)}]
      /\ run' = [run EXCEPT ![h] = NoRun]
      /\ UNCHANGED <<source, todo, held, staged, events>>

RemovableBare(r, i) == Now(r, "record", i).is = "record" \* mutant: any reservation may go

(* Only the record of a bare reservation may go. *)
Removable(r, i) ==
  /\ Now(r, "record", i).is = "record"
  /\ \A k \in Kinds \ {"record"} : Now(r, k, i) = Gone

Reconcile(h) ==
  /\ At(h, "open") /\ slots[h] = {}
  /\ GoesOn(h, <<Step("scan", Root(h), "record")>> \o Ledger(Root(h)))
  /\ UNCHANGED <<disk, run, held, slots, staged, events>>

ReconcileOne(h, i) ==
  /\ At(h, "scan") /\ Removable(Root(h), i)
  /\ fs' = Unlinked(Root(h), i)
  /\ UNCHANGED <<source, todo, run, held, slots, staged, events>>

(* The root is synchronized if a record was removed. *)
ReconcileEnds(h) ==
  /\ At(h, "scan")
  /\ \/ UNCHANGED fs
     \/ fs' = HandedOver(fs, Root(h), {})
  /\ Proceeds(h)
  /\ UNCHANGED <<source, run, held, slots, staged, events>>

-----------------------------------------------------------------------------
(* The environment: the source's owner and the power.                         *)

Modify ==
  /\ source < MaxVersion
  /\ \E h \in Helpers : run[h].version = source \* otherwise nobody could tell
  /\ source' = source + 1
  /\ UNCHANGED <<fs, todo, run, held, slots, staged, events>>

Uncertain == {n \in Roots \X Kinds \X Ids : Cardinality(fs[n[1]][n[2]][n[3]].may) > 1}

Left(file, outcome) == {c \in file.may : outcome = IF c \in {Gone, Torn} THEN c.is ELSE "whole"}

PowerLoss ==
  /\ Counted
  /\ \E outcome \in [Uncertain -> {"gone", "torn", "whole"}] :
       LET left == [n \in Uncertain |-> Left(fs[n[1]][n[2]][n[3]], outcome[n])]
       IN  /\ \A n \in Uncertain : left[n] # {}
           /\ fs' = [r \in Roots |-> [k \in Kinds |-> [i \in Ids |->
                LET found == IF <<r, k, i>> \in Uncertain THEN left[<<r, k, i>>] ELSE fs[r][k][i].may
                IN  [now |-> CHOOSE c \in found : TRUE, may |-> found, flushed |-> TRUE]]]]
  /\ todo' = [h \in Helpers |-> <<>>]
  /\ run' = [h \in Helpers |-> NoRun]
  /\ held' = [h \in Helpers |-> {}]
  /\ slots' = [h \in Helpers |-> {}]
  /\ UNCHANGED <<source, staged>>

-----------------------------------------------------------------------------
Next ==
  \/ \E h \in Helpers :
       \/ Abandon(h) \/ Open(h)
       \/ Reserve(h) \/ Create(h) \/ CopyChunk(h) \/ WriteContent(h)
       \/ Synchronize(h) \/ FullSync(h) \/ Return(h)
       \/ Prepare(h) \/ Validate(h)
       \/ MaterializeEmptyAndSeal(h) \/ Release(h) \/ Reconcile(h) \/ ReconcileEnds(h)
       \/ \E i \in Ids : ReconcileOne(h, i)
       \/ \E r \in Roots : OpenLedger(h, r)
       \/ \E x \in Headers : StartSession(h, x) \/ LedgerReserve(h, x)
  \/ Modify \/ PowerLoss

Spec == Init /\ [][Next]_vars

-----------------------------------------------------------------------------
(* StagingPublicationLifecycle::Inspect, which a restarted helper runs with    *)
(* both roots locked.  A lifecycle file that cannot be read counts for every   *)
(* header: nothing tells whose it is.                                          *)

Scan(r, k, x) ==
  {Now(r, k, i) : i \in {j \in Ids : Now(r, k, j).is = "pair" /\ Now(r, k, j).header = x}}

HasSealedArtifacts(pair) ==
  \A r \in Roots :
    /\ HasExactSealedArtifact(pair.header, r, pair.ids[r])
    /\ Now(r, "artifact", pair.ids[r]).data = pair.seals[r]

Inspect(x) ==
  LET found == {n \in Roots \X Lifecycle : Scan(n[1], n[2], x) # {}}
      pairs == UNION {Scan(n[1], n[2], x) : n \in found}
  IN  IF \E r \in Roots, k \in Lifecycle, i \in Ids : Now(r, k, i) = Torn THEN "Malformed"
      ELSE IF found = {} THEN "Absent"
      ELSE IF found # Roots \X Lifecycle THEN "Incomplete"
      ELSE IF Cardinality(pairs) > 1 THEN "Mismatched"
      ELSE IF \A pair \in pairs : HasSealedArtifacts(pair) THEN "ExactPending"
      ELSE "Incomplete"

-----------------------------------------------------------------------------
(* What a session returned is on both disks, whole, whatever happened since:   *)
(* the reservations, artifacts, seals and lifecycle records of both roots      *)
(* survive a power loss, though most of them are never flushed on their own,   *)
(* and no reconciliation takes them away.                                      *)
StagedSurvives ==
  \A s \in staged :
    /\ \A r \in Roots, k \in Kinds : Durable(r, k, s.ids[r])
    /\ Inspect(s.header) \in {"ExactPending", "Malformed"}

(* A seal that a power loss may leave vouches for an artifact and a            *)
(* reservation that it cannot take; a lifecycle seal for the record before it  *)
(* and for the artifact's seal; and a lifecycle record on the second root for  *)
(* the finished ones on the first.                                             *)
SealsAreBacked ==
  \A r \in Roots, i \in Ids :
    /\ MayBeFound(r, "seal", i) => Durable(r, "record", i) /\ Durable(r, "artifact", i)
    /\ MayBeFound(r, "pairSeal", i) => Durable(r, "pair", i) /\ Durable(r, "seal", i)
    /\ Now(Second, "pair", i).is = "pair" => Durable(First, "pairSeal", Now(Second, "pair", i).ids[First])

(* One request is never sealed twice in a root, whatever became of the         *)
(* earlier attempts, and however many helpers made them.                       *)
NoTwins ==
  \A r \in Roots, x \in Headers :
    Cardinality({i \in Ids : \E c \in fs[r]["seal"][i].may : c.is = "seal" /\ c.header = x}) <= 1

(* What an inspection calls exact and pending holds, on both volumes, every    *)
(* part of the source as it was reviewed: no part of a later version, and      *)
(* nothing an earlier attempt left.                                            *)
InspectionIsSound ==
  \A x \in Headers : Inspect(x) = "ExactPending" =>
    \A pair \in Scan(First, "pairSeal", x), r \in Roots :
      Now(r, "artifact", pair.ids[r]).data = <<pair.version, pair.version>>
=============================================================================
