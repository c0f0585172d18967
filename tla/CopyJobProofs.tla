---------------------------- MODULE CopyJobProofs ----------------------------
(***************************************************************************)
(* Theorems about CopyJob, for any number of items and stoppers, any plan  *)
(* type and any answers: each item has one outcome, the one its            *)
(* transaction ended with, before anybody is told that the operation is    *)
(* over; an accepted stop is kept; and what the journal will be asked to   *)
(* record agrees with how the operation ended and is acceptable to it.     *)
(***************************************************************************)
EXTENDS CopyJob, TLAPS

-----------------------------------------------------------------------------
(* The three tables of ConditionalCommit agree: facts about results alone,    *)
(* as in TransactionProofs, which speaks of other variables.                  *)

(* What the transaction produces by itself is well formed. *)
LEMMA OwnResults ==
  /\ Unknown \in CommitResults /\ ResultIsValid(Unknown)
  /\ \A f \in {"Cancelled", "Aborted"} :
       NotPublished(f) \in CommitResults /\ ResultIsValid(NotPublished(f))
BY DEF Unknown, NotPublished, CommitResults, ResultIsValid, Publications, Failures, Syncs, Errnos

(* The provider's table and the mapper's table are the same table. *)
LEMMA TablesAgree ==
  ASSUME NEW r \in CommitResults, ResultIsValid(r)
  PROVE  Consistent(r)
<1>1. CASE r.publication = "NotPublished"
  BY <1>1 DEF ResultIsValid, Consistent
<1>2. CASE r.publication = "Unknown"
  BY <1>2 DEF ResultIsValid, Consistent
<1>3. CASE r.publication = "Published"
  BY <1>3 DEF ResultIsValid, Consistent
<1>4. QED
  BY <1>1, <1>2, <1>3 DEF CommitResults, Publications

(* A valid result maps to an item the journal accepts, whatever the plan.   *)
LEMMA ItemIsValid ==
  ASSUME NEW r \in CommitResults, ResultIsValid(r), r.failure # "Aborted",
         NEW type \in PlanTypes
  PROVE  ValidItemResult(type, ItemOf(r, RemovesSource(type)))
<1> DEFINE removes == RemovesSource(type)
           x == ItemOf(r, removes)
<1>1. removes \in BOOLEAN /\ PublishesDestination(type) = ~removes
  BY DEF RemovesSource, PublishesDestination, PlanTypes, RemovingTypes, PublishingTypes
<1>2. /\ x.status = StatusOf(r) /\ x.error = ErrorOf(r) /\ x.system = r.error
      /\ x.priorError = "None" /\ x.priorSystem = "zero"
      /\ x.bytes = (r.publication = "Published")
      /\ x.dest = (IF removes THEN "NotPublished" ELSE r.publication)
      /\ x.source = (IF removes THEN Removal(r.publication) ELSE "NotRemoved")
      /\ x.sync = r.sync /\ x.syncError = r.syncError
      /\ x.recovery = RecoveryOf(r, removes)
  BY DEF ItemOf
<1>3. r.error # "negative" /\ r.syncError # "negative"
  BY DEF ResultIsValid
<1>4. CASE r.publication = "NotPublished"
  <2>1. NothingHappened(x)
    BY <1>2, <1>4 DEF NothingHappened, Removal
  <2>2. r.sync = "NotAttempted" /\ r.syncError = "zero"
    BY <1>4 DEF ResultIsValid
  <2>3. x.error # "Cleanup"
    BY <1>2, <1>4 DEF ErrorOf
  <2>4. CASE r.failure = "Cancelled"
    BY <1>1, <1>2, <1>3, <1>4, <2>1, <2>2, <2>3, <2>4
    DEF ValidItemResult, ValidSync, ValidPrior, NothingHappened, ResultIsValid, StatusOf, ErrorOf, RecoveryOf
  <2>5. CASE r.failure # "Cancelled"
    <3>1. r.failure \in {"SourceStale", "DestinationParentStale", "DestinationExists", "ProviderFailure"}
          /\ r.error # "zero"
      BY <1>4, <2>5 DEF ResultIsValid
    <3>2. x.status = "Failed" /\ x.error \notin {"None", "Cancelled"} /\ x.recovery = "Retry"
      BY <1>2, <1>4, <3>1 DEF StatusOf, ErrorOf, RecoveryOf
    <3>3. ValidRecovery(x)
      BY <2>1, <3>2 DEF ValidRecovery, NothingHappened
    <3> QED
      BY <1>1, <1>2, <1>3, <2>1, <2>2, <2>3, <3>1, <3>2, <3>3
      DEF ValidItemResult, ValidSync, ValidPrior, NothingHappened
  <2> QED BY <2>4, <2>5
<1>5. CASE r.publication = "Unknown"
  <2>1. r.failure = "ProviderFailure" /\ r.error # "zero" /\ r.sync = "NotAttempted" /\ r.syncError = "zero"
    BY <1>5 DEF ResultIsValid
  <2>2. x.status = "Failed" /\ x.error = "Commit" /\ x.recovery = Inspect(removes)
    BY <1>2, <1>5, <2>1 DEF StatusOf, ErrorOf, RecoveryOf
  <2>3. x.dest = (IF removes THEN "NotPublished" ELSE "Unknown")
        /\ x.source = (IF removes THEN "Unknown" ELSE "NotRemoved")
    BY <1>2, <1>5 DEF Removal
  <2>4. ValidRecovery(x)
    BY <1>1, <2>2, <2>3 DEF ValidRecovery, Inspect
  <2> QED
    BY <1>1, <1>2, <1>3, <2>1, <2>2, <2>3, <2>4 DEF ValidItemResult, ValidSync, ValidPrior
<1>6. CASE r.publication = "Published"
  <2>1. x.dest = (IF removes THEN "NotPublished" ELSE "Published")
        /\ x.source = (IF removes THEN "Removed" ELSE "NotRemoved")
    BY <1>2, <1>6 DEF Removal
  <2>2. \/ r.sync = "Confirmed" /\ r.syncError = "zero"
        \/ r.sync = "Failed" /\ r.syncError # "zero"
    BY <1>6 DEF ResultIsValid, CommitResults, Syncs
  <2>3. CASE r.failure = "None"
    BY <1>1, <1>2, <1>3, <1>6, <2>1, <2>2, <2>3
    DEF ValidItemResult, ValidSync, ValidPrior, ResultIsValid, StatusOf, ErrorOf, RecoveryOf
  <2>4. CASE r.failure # "None"
    <3>1. r.failure \in {"MetadataFailed", "FileSystemSyncFailed", "ProviderFailure"} /\ r.error # "zero"
      BY <1>6, <2>4 DEF ResultIsValid
    <3>2. x.status = "Failed" /\ x.error \in {"Metadata", "Commit"} /\ x.recovery = Inspect(removes)
      BY <1>2, <1>6, <3>1 DEF StatusOf, ErrorOf, RecoveryOf
    <3>3. ValidRecovery(x)
      BY <1>1, <2>1, <3>2 DEF ValidRecovery, Inspect
    <3> QED
      BY <1>1, <1>2, <1>3, <2>1, <2>2, <3>1, <3>2, <3>3 DEF ValidItemResult, ValidSync, ValidPrior
  <2> QED BY <2>3, <2>4
<1>7. QED
  BY <1>4, <1>5, <1>6 DEF CommitResults, Publications

(* An item is never one of the mapper's two refusals. *)
LEMMA ItemIsNoRefusal ==
  ASSUME NEW r \in CommitResults, NEW removes \in BOOLEAN
  PROVE  ItemOf(r, removes) \notin Refused
<1>1. DOMAIN ItemOf(r, removes) # DOMAIN NonExecutionTerminal
      /\ DOMAIN ItemOf(r, removes) # DOMAIN InconsistentResult
  <2>1. "status" \in DOMAIN ItemOf(r, removes)
    BY DEF ItemOf
  <2>2. "status" \notin DOMAIN NonExecutionTerminal /\ "status" \notin DOMAIN InconsistentResult
    BY DEF NonExecutionTerminal, InconsistentResult
  <2> QED BY <2>1, <2>2
<1> QED BY <1>1 DEF Refused

-----------------------------------------------------------------------------
(* The inductive invariant.                                                   *)

(* Where each thread can be.  The worker is launched last, or not at all. *)
StarterSteps == {"idle", "run", "start", "launch", "launch failed", "stop unlaunched", "cancelling", "finish",
                 "ending", "telling", "releasing", "done", "destroyed"}
Performing   == {"item", "claim", "commit", "committing", "wind down"}
WorkerSteps  == {"idle", "execute", "perform", "stop", "cancelling", "storing", "clearing", "finish", "completing",
                 "resuming", "ending", "telling", "releasing", "done", "destroyed"} \cup Performing
StopperSteps == {"idle", "stop", "cancelling", "storing", "clearing", "stopped", "done", "destroyed"}

Places ==
  /\ pc \in [Threads -> Steps]
  /\ pc["starter"] \in StarterSteps /\ pc["worker"] \in WorkerSteps
  /\ \A s \in Stoppers : pc[s] \in StopperSteps
  /\ pc["worker"] \notin {"idle", "destroyed"} => pc["starter"] = "done"
  /\ pc["worker"] = "destroyed" => pc["starter"] = "destroyed"

(* What the flags of the job say of its threads. *)
Runs      == \/ pc["starter"] \in {"launch", "launch failed", "stop unlaunched", "cancelling", "finish", "ending"}
             \/ pc["worker"] \in WorkerSteps \ {"idle", "telling", "releasing", "done", "destroyed"}
WillTell  == \/ pc["starter"] \in {"run", "start", "launch", "launch failed", "stop unlaunched", "cancelling",
                                   "finish", "ending", "telling"}
             \/ pc["worker"] \in WorkerSteps \ {"idle", "releasing", "done", "destroyed"}
Finished  == {"Terminal", "TerminalCancelled"}

FlagsAgree ==
  /\ job.isRunning <=> Runs
  /\ WillTell => job.onFinish
  /\ ~(job.isStopped /\ job.isCompleted)
  /\ job.isCompleted => pc["worker"] \in {"resuming", "ending", "telling", "releasing", "done"} /\ gate.phase \in Finished
  /\ pc["worker"] = "resuming" => job.isCompleted
  /\ pc["worker"] \in {"ending", "telling", "releasing"} => job.isStopped \/ job.isCompleted
  /\ pc["starter"] \in {"cancelling", "finish", "ending", "telling", "releasing"} => job.isStopped
  /\ job.isStopped => gate.phase # "Pending"
  /\ job.isStopped /\ gate.phase = "StopOwned" => lock = "starter"
  /\ job.executionFinished => pc["starter"] \in {"done", "destroyed"} /\ pc["worker"] \in {"idle", "done", "destroyed"}

(* The steps at which a thread has m_TransitionMutex, and those at which the  *)
(* failed launch still does.                                                  *)
Holding   == {"cancelling", "storing", "clearing", "resuming", "stop unlaunched"}
Lingering == {"finish", "ending", "telling", "releasing"}

(* Who owns the items: nobody yet, the worker, whoever stops a job nobody     *)
(* began, nobody any more.                                                    *)
Owners ==
  /\ gate.phase = "CommitOwned" <=> pc["worker"] \in Performing
  /\ \A t \in Threads : pc[t] \in Holding => lock = t
  /\ \A t \in Threads : pc[t] = "cancelling" => gate.phase = "StopOwned"
  /\ gate.phase = "StopOwned" => lock \in Threads /\ pc[lock] = "cancelling"
  /\ lock # Free => pc[lock] \in Holding \/ (lock = "starter" /\ pc["starter"] \in Lingering)
  /\ pc["starter"] \in Lingering => lock = "starter"
  /\ pc["worker"] \in {"finish", "completing"} => gate.phase # "Pending"
  /\ gate.phase = "TerminalCancelled" /\ pc["worker"] # "stop" => job.isStopped

(* Between its two stores a stopped, or completed, job may still be paused:   *)
(* the gate has accepted the stop, the flag is set, the pause is over.        *)
Stores ==
  /\ \A t \in Threads : pc[t] = "storing" =>
       /\ ~job.isStopped /\ ~job.isCompleted
       /\ gate.phase \in Finished \/ (gate.phase = "CommitOwned" /\ gate.stopAccepted)
  /\ \A t \in Threads : pc[t] = "clearing" => job.isStopped
  /\ \A s \in Stoppers : pc[s] = "stopped" => job.isStopped /\ ~job.isPaused
  /\ job.isPaused /\ job.isStopped => \E t \in Threads : pc[t] = "clearing"
  /\ job.isPaused /\ job.isCompleted => pc["worker"] = "resuming"
  /\ pc["starter"] = "stop unlaunched" => ~job.isPaused
  /\ \A s \in Stoppers : s \in cameLate => pc[s] \in {"stopped", "done", "destroyed"}

Stops == job.isStopped \/ \E t \in Threads : pc[t] = "storing"

(* How far the batch is. *)
Counts ==
  /\ gate.phase \in {"Pending", "StopOwned"} =>
       /\ gate.startedItems = 0 /\ ~gate.stopAccepted /\ run = [next |-> 1, cancelled |-> FALSE]
       /\ ran = {} /\ promised = ItemCount
  /\ gate.phase \in Finished => gate.startedItems = ItemCount
  /\ gate.phase = "CommitOwned" =>
       IF gate.stopAccepted THEN promised < ItemCount ELSE promised = ItemCount /\ ~Stops
  /\ pc["worker"] \in {"claim", "commit", "committing"} => run.next <= ItemCount
  /\ pc["worker"] \in {"commit", "committing"} => gate.startedItems = run.next /\ run.next <= promised
  /\ pc["worker"] = "idle" => ran = {}
  /\ ran \subseteq 1 .. promised /\ ran \subseteq 1 .. gate.startedItems
  /\ pc["worker"] \in Performing \ {"wind down"} => ran \subseteq 1 .. run.next - 1 /\ ~run.cancelled

(* The items before this one are settled, those behind it untouched. *)
Reached == CASE gate.phase = "Pending"     -> 1
             [] gate.phase = "StopOwned"   -> sweep
             [] gate.phase = "CommitOwned" -> run.next
             [] OTHER                      -> ItemCount + 1

TxResults == {r \in CommitResults : ResultIsValid(r)}

ItemOK(i) ==
  /\ i < Reached => tx[i] \in TxResults /\ slots[i] = MapResult(tx[i], RemovesIt)
  /\ i >= Reached => /\ slots[i] = Unresolved
                     /\ tx[i] = IF i = Reached /\ pc["worker"] = "committing" THEN Committing ELSE PendingTx
  /\ Status(slots[i]) = "Succeeded" => i \in ran
  /\ Status(slots[i]) # "Cancelled" \/ pc["worker"] \notin Performing \ {"wind down"}

(* Something was cancelled, or failed, or was never run: the batch as a whole *)
(* did not succeed.                                                           *)
NotAll        == \E i \in Items : i \notin ran \/ Status(slots[i]) \in {"Cancelled", "Failed"}
SomeCancelled == \E i \in Items : Status(slots[i]) = "Cancelled"

Outcome ==
  /\ pc["worker"] = "wind down" => (SomeCancelled => run.cancelled) /\ (run.cancelled => NotAll)
  /\ gate.phase = "TerminalCancelled" => NotAll
  /\ gate.phase = "Terminal" => (Stops => NotAll) /\ (SomeCancelled => Stops)

(* What was told was true and stays so; only a stop can have swallowed it.    *)
Swallowed == \E s \in Stoppers : SwallowsTheFinish(s)

Told ==
  /\ "Completed" \in notified => job.isCompleted
  /\ "Stopped" \in notified => job.isStopped
  /\ notified # {} => gate.phase \in Finished
  /\ job.executionFinished \/ pc["starter"] = "releasing" \/ pc["worker"] = "releasing" => notified # {} \/ Swallowed

Ranges ==
  /\ job \in [Flags -> BOOLEAN]
  /\ lock \in Threads \cup {Free}
  /\ gate \in [phase : {"Pending", "CommitOwned", "StopOwned", "TerminalCancelled", "Terminal"},
               startedItems : 0 .. ItemCount, stopAccepted : BOOLEAN]
  /\ tx = [i \in Items |-> tx[i]] /\ DOMAIN tx = Items /\ DOMAIN slots = Items
  /\ run \in [next : 1 .. ItemCount + 1, cancelled : BOOLEAN]
  /\ sweep \in 1 .. ItemCount + 1
  /\ sawRunning \in [Stoppers -> BOOLEAN]
  /\ cameLate \subseteq Stoppers
  /\ notified \subseteq {"Completed", "Stopped"}
  /\ waited \in {"no", "cold", "finished"}
  /\ ran \subseteq Items
  /\ promised \in 0 .. ItemCount

IInv == /\ Ranges /\ Places /\ FlagsAgree /\ Owners /\ Stores
        /\ Counts /\ (\A i \in Items : ItemOK(i)) /\ Outcome /\ Told

LEMMA ThreadNames ==
  /\ Threads = {"starter", "worker"} \cup Stoppers
  /\ "starter" \notin Stoppers /\ "worker" \notin Stoppers
  /\ "starter" \in Threads /\ "worker" \in Threads /\ \A s \in Stoppers : s \in Threads
  /\ Free \notin Threads
BY CopyJobAssumption DEF Threads, Runners, Free

Moves(t, from, to) ==
  /\ t \in Threads /\ pc[t] = from /\ pc'[t] = to
  /\ \A u \in Threads : u # t => pc'[u] = pc[u]
  /\ pc' \in [Threads -> Steps]

LEMMA PcMoves ==
  ASSUME Places, NEW t \in Threads, NEW to \in Steps, Goto(t, to)
  PROVE  Moves(t, pc[t], to)
BY DEF Places, Goto, Moves

(* A step that leaves the items, their owner and a stop alone. *)
LEMMA DataKept ==
  ASSUME IInv, UNCHANGED <<gate, tx, slots, ran, run, sweep, promised>>,
         Stops' = Stops,
         \/ pc'["worker"] = pc["worker"]
         \/ pc["worker"] \notin Performing /\ pc'["worker"] \notin Performing \cup {"idle"}
  PROVE  Counts' /\ (\A i \in Items : ItemOK(i)') /\ Outcome'
<1>1. Counts'
  BY DEF IInv, Counts, Performing, Finished
<1>2. Reached' = Reached
  BY DEF Reached
<1>3. ASSUME NEW i \in Items PROVE ItemOK(i)'
  <2>1. ItemOK(i)
    BY DEF IInv
  <2>2. (pc["worker"] = "committing") = (pc'["worker"] = "committing")
    BY DEF Performing
  <2>3. QED
    BY <1>2, <2>1, <2>2 DEF ItemOK
<1>4. NotAll' = NotAll /\ SomeCancelled' = SomeCancelled
  BY DEF NotAll, SomeCancelled
<1>5. Outcome'
  BY <1>4 DEF IInv, Outcome, Performing, Owners, Places
<1>6. QED
  BY <1>1, <1>3, <1>5

(* An operation that looks finished from outside is.                          *)
LEMMA OverIsFinished ==
  ASSUME Ranges, Places, FlagsAgree, Owners, State \in {"Completed", "Stopped"}
  PROVE  /\ gate.phase \in Finished
         /\ State = "Completed" => job.isCompleted
         /\ State = "Stopped" => job.isStopped
<1>1. /\ ~job.isRunning /\ (job.isCompleted \/ job.isStopped)
      /\ State = "Completed" => job.isCompleted
      /\ State = "Stopped" => job.isStopped
  BY DEF State
<1>2. CASE job.isStopped
  <2>1. gate.phase # "Pending" /\ gate.phase # "CommitOwned"
    BY <1>1, <1>2 DEF FlagsAgree, Owners, Runs, Performing, WorkerSteps
  <2>2. gate.phase # "StopOwned"
    BY <1>1, <1>2 DEF FlagsAgree, Owners, Runs
  <2>3. gate.phase \in {"Pending", "CommitOwned", "StopOwned", "TerminalCancelled", "Terminal"}
    BY DEF Ranges
  <2>4. QED
    BY <1>1, <2>1, <2>2, <2>3 DEF Finished
<1>3. CASE job.isCompleted
  BY <1>1, <1>3 DEF FlagsAgree
<1>4. QED
  BY <1>1, <1>2, <1>3

(* Nobody has the locks, so nobody is in the middle of a stop.                *)
LEMMA NobodyHolds ==
  ASSUME Owners, lock = Free
  PROVE  /\ \A u \in Threads : pc[u] \notin Holding
         /\ pc["starter"] \notin Lingering /\ gate.phase # "StopOwned"
BY ThreadNames DEF Owners

(* A step at which nobody takes or gives a lock, the items or a stop.         *)
LEMMA OwnersKept ==
  ASSUME IInv, UNCHANGED <<gate, lock, cameLate>>,
         job'.isPaused = job.isPaused, job'.isCompleted = job.isCompleted, job'.isStopped = job.isStopped,
         \A u \in Threads : pc'[u] # pc[u] => /\ pc[u] \notin Holding \cup Performing
                                              /\ pc'[u] \notin Holding \cup Performing \cup {"stopped"},
         pc'["starter"] \in Lingering <=> pc["starter"] \in Lingering,
         pc'["worker"] \in {"finish", "completing"} => gate.phase # "Pending",
         gate.phase = "TerminalCancelled" /\ pc'["worker"] # "stop" => job.isStopped,
         \A s \in Stoppers : s \in cameLate => pc'[s] \in {"stopped", "done", "destroyed"}
  PROVE  Owners' /\ Stores' /\ Stops' = Stops
<1>1. Ranges /\ Owners /\ Stores
  BY DEF IInv
<1>2. \A u \in Threads : /\ pc'[u] \in Holding => pc'[u] = pc[u]
                         /\ pc[u] \in Holding => pc'[u] = pc[u]
                         /\ pc'[u] \in Performing => pc'[u] = pc[u]
                         /\ pc[u] \in Performing => pc'[u] = pc[u]
                         /\ pc'[u] = "stopped" => pc'[u] = pc[u]
  OBVIOUS
<1>3. Owners'
  <2>1. gate.phase = "CommitOwned" <=> pc'["worker"] \in Performing
    BY <1>1, <1>2, ThreadNames DEF Owners
  <2>2. \A u \in Threads : /\ pc'[u] \in Holding => lock = u
                           /\ pc'[u] = "cancelling" => gate.phase = "StopOwned"
    BY <1>1, <1>2 DEF Owners, Holding
  <2>3. gate.phase = "StopOwned" => lock \in Threads /\ pc'[lock] = "cancelling"
    BY <1>1, <1>2 DEF Owners, Holding
  <2>4. lock # Free => pc'[lock] \in Holding \/ (lock = "starter" /\ pc'["starter"] \in Lingering)
    BY <1>1, <1>2 DEF Owners, Ranges
  <2>5. pc'["starter"] \in Lingering => lock = "starter"
    BY <1>1 DEF Owners
  <2>6. QED
    BY <2>1, <2>2, <2>3, <2>4, <2>5 DEF Owners
<1>4. \A u \in Threads : /\ pc'[u] = "storing" <=> pc[u] = "storing"
                         /\ pc'[u] = "clearing" <=> pc[u] = "clearing"
                         /\ pc'[u] = "resuming" <=> pc[u] = "resuming"
                         /\ pc'[u] = "stop unlaunched" => pc[u] = "stop unlaunched"
  BY <1>2 DEF Holding
<1>5. Stores'
  <2>1. \A s \in Stoppers : pc'[s] = "stopped" => pc[s] = "stopped"
    BY <1>2, ThreadNames
  <2>2. job.isPaused /\ job.isStopped => \E u \in Threads : pc'[u] = "clearing"
    BY <1>1, <1>4 DEF Stores
  <2>3. \A u \in Threads : /\ pc'[u] = "storing" => ~job.isStopped /\ ~job.isCompleted
                           /\ pc'[u] = "storing" => gate.phase \in Finished \/ (gate.phase = "CommitOwned" /\ gate.stopAccepted)
                           /\ pc'[u] = "clearing" => job.isStopped
    BY <1>1, <1>4 DEF Stores
  <2>4. \A s \in Stoppers : pc'[s] = "stopped" => job.isStopped /\ ~job.isPaused
    BY <1>1, <2>1 DEF Stores
  <2>5. /\ job.isPaused /\ job.isCompleted => pc'["worker"] = "resuming"
        /\ pc'["starter"] = "stop unlaunched" => ~job.isPaused
    BY <1>1, <1>4, ThreadNames DEF Stores
  <2>6. QED
    BY <2>2, <2>3, <2>4, <2>5 DEF Stores
<1>6. Stops' = Stops
  BY <1>4 DEF Stops
<1>7. QED
  BY <1>3, <1>5, <1>6

PlainMove(t, from, to) ==
  /\ from \notin Holding \cup Performing
  /\ to \notin Holding \cup Performing \cup {"idle", "stopped"}
  /\ t = "starter" => (from \in Lingering <=> to \in Lingering)
  /\ t = "worker" => /\ from = "stop" => gate.phase # "TerminalCancelled" \/ job.isStopped
                     /\ to \in {"finish", "completing"} => gate.phase # "Pending"
  /\ from \in {"stopped", "done", "destroyed"} => to \in {"stopped", "done", "destroyed"}

LEMMA MoveKeeps ==
  ASSUME IInv, NEW t, NEW from, NEW to, Moves(t, from, to), PlainMove(t, from, to),
         UNCHANGED <<gate, tx, slots, ran, run, sweep, promised, lock, cameLate>>,
         job'.isPaused = job.isPaused, job'.isCompleted = job.isCompleted, job'.isStopped = job.isStopped
  PROVE  /\ Owners' /\ Stores' /\ Counts' /\ (\A i \in Items : ItemOK(i)') /\ Outcome'
<1>1. Owners /\ Stores
  BY DEF IInv
<1>2. /\ \A u \in Threads : u # t => pc'[u] = pc[u]
      /\ t \in Threads /\ pc[t] = from /\ pc'[t] = to
      /\ from \notin Holding \cup Performing
      /\ to \notin Holding \cup Performing \cup {"idle", "stopped"}
  BY DEF Moves, PlainMove
<1>3. \A u \in Threads : pc'[u] # pc[u] => /\ pc[u] \notin Holding \cup Performing
                                           /\ pc'[u] \notin Holding \cup Performing \cup {"stopped"}
  BY <1>2
<1>4. pc'["starter"] \in Lingering <=> pc["starter"] \in Lingering
  BY <1>2, ThreadNames DEF PlainMove
<1>5. pc'["worker"] \in {"finish", "completing"} => gate.phase # "Pending"
  BY <1>1, <1>2, ThreadNames DEF Owners, PlainMove
<1>6. gate.phase = "TerminalCancelled" /\ pc'["worker"] # "stop" => job.isStopped
  BY <1>1, <1>2, ThreadNames DEF Owners, PlainMove
<1>7. \A s \in Stoppers : s \in cameLate => pc'[s] \in {"stopped", "done", "destroyed"}
  BY <1>1, <1>2, ThreadNames DEF Stores, PlainMove
<1>8. Owners' /\ Stores' /\ Stops' = Stops
  BY <1>3, <1>4, <1>5, <1>6, <1>7, OwnersKept
<1>9. \/ pc'["worker"] = pc["worker"]
      \/ pc["worker"] \notin Performing /\ pc'["worker"] \notin Performing \cup {"idle"}
  BY <1>2, ThreadNames
<1>10. QED
  BY <1>8, <1>9, DataKept

(* A swallowed finish stays so as long as no stop moves on and none runs.      *)
LEMMA StaysSwallowed ==
  ASSUME IInv, \A s \in Stoppers : pc[s] \in {"clearing", "stopped"} => pc'[s] = pc[s],
         job'.isPaused = job.isPaused, job'.isRunning => job.isRunning, UNCHANGED cameLate,
         \A s \in Stoppers : pc[s] # "idle" => sawRunning'[s] = sawRunning[s],
         Swallowed
  PROVE  Swallowed'
<1>1. PICK s \in Stoppers : SwallowsTheFinish(s)
  BY DEF Swallowed
<1>2. pc[s] # "idle" /\ s \in Threads
  BY <1>1, ThreadNames DEF SwallowsTheFinish, At, IInv, Stores
<1>3. pc[s] \in {"clearing", "stopped"} => pc'[s] = pc[s]
  OBVIOUS
<1>4. SwallowsTheFinish(s)'
  BY <1>1, <1>2, <1>3 DEF SwallowsTheFinish, At
<1>5. QED
  BY <1>4 DEF Swallowed

-----------------------------------------------------------------------------
(* Steps that only move a thread or set a flag.                               *)

LEMMA ReadIsRunningIsSafe ==
  ASSUME IInv, NEW s \in Stoppers, ReadIsRunning(s)
  PROVE  IInv'
<1>1. Ranges /\ Places /\ FlagsAgree /\ Owners /\ Stores /\ Told
  BY DEF IInv
<1>2. /\ UNCHANGED <<gate, tx, slots, ran, run, sweep, promised, lock, cameLate>>
      /\ UNCHANGED <<notified, waited>>
      /\ sawRunning' = [sawRunning EXCEPT ![s] = job.isRunning]
  BY <1>1 DEF Ranges, ReadIsRunning, batch, local, seen
<1>3. Moves(s, "idle", "stop")
  BY <1>1, PcMoves, ThreadNames DEF ReadIsRunning, Go, At, Steps, Runners
<1>4. /\ job' \in [Flags -> BOOLEAN]
      /\ job'.wasStarted = job.wasStarted /\ job'.isRunning = job.isRunning /\ job'.isPaused = job.isPaused
      /\ job'.isCompleted = job.isCompleted /\ job'.isStopped = job.isStopped
      /\ job'.executionFinished = job.executionFinished /\ job'.onFinish = job.onFinish
  BY <1>1 DEF Ranges, Flags, ReadIsRunning
<1>5. Ranges'
  <2>1. sawRunning' \in [Stoppers -> BOOLEAN]
    BY <1>1, <1>2 DEF Ranges, Flags
  <2>2. QED
    BY <1>1, <1>2, <1>4, <2>1 DEF Ranges
<1>6. Places'
  BY <1>1, <1>2, <1>3, <1>4, ThreadNames DEF Moves, Places, StarterSteps, WorkerSteps, StopperSteps, Performing
<1>7. FlagsAgree'
  <2>1. pc'["starter"] = pc["starter"] /\ pc'["worker"] = pc["worker"]
    BY <1>3, ThreadNames DEF Moves
  <2>2. Runs' = Runs /\ WillTell' = WillTell
    BY <2>1 DEF Runs, WillTell
  <2>3. QED
    BY <1>1, <1>2, <1>4, <2>1, <2>2 DEF FlagsAgree
<1>8. Owners' /\ Stores' /\ Counts' /\ (\A i \in Items : ItemOK(i)') /\ Outcome'
  <2>1. PlainMove(s, "idle", "stop")
    BY <1>1, <1>3, ThreadNames DEF Moves, PlainMove, Holding, Lingering, Performing, Places, StarterSteps, WorkerSteps, StopperSteps, Performing
  <2>2. QED
    BY <1>2, <1>3, <1>4, <2>1, MoveKeeps
<1>9. Told'
  <2>1. \A u \in Stoppers : pc[u] # "idle" => sawRunning'[u] = sawRunning[u]
    BY <1>1, <1>2, <1>3 DEF Moves, Ranges
  <2>2. \A u \in Stoppers : pc[u] \in {"clearing", "stopped"} => pc'[u] = pc[u]
    BY <1>3, ThreadNames DEF Moves
  <2>3. Swallowed => Swallowed'
    BY <1>2, <1>4, <2>1, <2>2, StaysSwallowed
  <2>4. QED
    BY <1>1, <1>2, <1>3, <1>4, <2>3, ThreadNames DEF Moves, Told
<1>10. QED
  BY <1>5, <1>6, <1>7, <1>8, <1>9 DEF IInv

LEMMA ColdStopTellsIsSafe ==
  ASSUME IInv, NEW s \in Stoppers, ColdStopTells(s)
  PROVE  IInv'
<1>1. Ranges /\ Places /\ FlagsAgree /\ Owners /\ Stores /\ Told
  BY DEF IInv
<1>2. /\ UNCHANGED <<gate, tx, slots, ran, run, sweep, promised, lock, cameLate>>
      /\ UNCHANGED <<sawRunning, waited>>
      /\ notified' = (IF sawRunning[s] THEN notified ELSE notified \cup ({State} \cap {"Completed", "Stopped"}))
  BY <1>1 DEF Ranges, ColdStopTells, JobFinished, batch, local, seen
<1>3. Moves(s, "stopped", "done")
  BY <1>1, PcMoves, ThreadNames DEF ColdStopTells, Go, At, Steps, Runners
<1>4. /\ job' \in [Flags -> BOOLEAN]
      /\ job'.wasStarted = job.wasStarted /\ job'.isRunning = job.isRunning /\ job'.isPaused = job.isPaused
      /\ job'.isCompleted = job.isCompleted /\ job'.isStopped = job.isStopped
      /\ job'.executionFinished = job.executionFinished /\ job'.onFinish = job.onFinish
  BY <1>1 DEF Ranges, Flags, ColdStopTells
<1>5. Ranges'
  BY <1>1, <1>2, <1>4 DEF Ranges
<1>6. Places'
  BY <1>1, <1>2, <1>3, <1>4, ThreadNames DEF Moves, Places, StarterSteps, WorkerSteps, StopperSteps, Performing
<1>7. FlagsAgree'
  <2>1. pc'["starter"] = pc["starter"] /\ pc'["worker"] = pc["worker"]
    BY <1>3, ThreadNames DEF Moves
  <2>2. Runs' = Runs /\ WillTell' = WillTell
    BY <2>1 DEF Runs, WillTell
  <2>3. QED
    BY <1>1, <1>2, <1>4, <2>1, <2>2 DEF FlagsAgree
<1>8. Owners' /\ Stores' /\ Counts' /\ (\A i \in Items : ItemOK(i)') /\ Outcome'
  <2>1. PlainMove(s, "stopped", "done")
    BY <1>1, <1>3, ThreadNames DEF Moves, PlainMove, Holding, Lingering, Performing, Places, StarterSteps, WorkerSteps, StopperSteps, Performing
  <2>2. QED
    BY <1>2, <1>3, <1>4, <2>1, MoveKeeps
<1>9. Told'
  <2>1. /\ "Completed" \in notified' => job'.isCompleted
        /\ "Stopped" \in notified' => job'.isStopped
        /\ notified' # {} => gate'.phase \in Finished
    BY <1>1, <1>2, <1>4, OverIsFinished DEF Told
  <2>2. notified # {} => notified' # {}
    BY <1>2
  <2>3. job.isStopped /\ ~job.isPaused
    BY <1>1, <1>3 DEF Stores, Moves
  <2>4. ASSUME job.executionFinished \/ pc["starter"] = "releasing" \/ pc["worker"] = "releasing"
        PROVE  notified' # {} \/ Swallowed'
    <3>1. ~job.isRunning /\ ~job.isCompleted
      BY <1>1, <2>3, <2>4 DEF FlagsAgree, Runs, Places, WorkerSteps
    <3>2. State = "Stopped"
      BY <2>3, <3>1 DEF State
    <3>3. CASE ~sawRunning[s]
      BY <1>2, <3>2, <3>3
    <3>4. CASE sawRunning[s] /\ notified = {}
      <4>1. PICK u \in Stoppers : SwallowsTheFinish(u)
        BY <1>1, <2>4, <3>4 DEF Told, Swallowed
      <4>2. SwallowsTheFinish(u)'
        BY <1>2, <1>3, <1>4, <3>4, <4>1, ThreadNames DEF SwallowsTheFinish, At, Moves
      <4>3. QED
        BY <4>2 DEF Swallowed
    <3>5. QED
      BY <2>2, <3>3, <3>4
  <2>5. QED
    BY <1>1, <1>3, <1>4, <2>1, <2>4, ThreadNames DEF Moves, Told
<1>10. QED
  BY <1>5, <1>6, <1>7, <1>8, <1>9 DEF IInv

LEMMA PauseIsSafe ==
  ASSUME IInv, Pause
  PROVE  IInv'
<1>1. Ranges /\ Places /\ FlagsAgree /\ Owners /\ Stores /\ Told
  BY DEF IInv
<1>2. /\ UNCHANGED <<gate, tx, slots, ran, run, sweep, promised, lock, cameLate>>
      /\ UNCHANGED <<pc, sawRunning, notified, waited>>
  BY <1>1 DEF Ranges, Pause, batch, local, seen
<1>3. /\ job' \in [Flags -> BOOLEAN]
      /\ job'.wasStarted = job.wasStarted /\ job'.isRunning = job.isRunning /\ job'.isPaused = TRUE
      /\ job'.isCompleted = job.isCompleted /\ job'.isStopped = job.isStopped
      /\ job'.executionFinished = job.executionFinished /\ job'.onFinish = job.onFinish
  BY <1>1 DEF Ranges, Flags, Pause
<1>4. Ranges' /\ Places' /\ Owners'
  BY <1>1, <1>2, <1>3 DEF Ranges, Places, Owners
<1>5. FlagsAgree'
  <2>1. Runs' = Runs /\ WillTell' = WillTell
    BY <1>2 DEF Runs, WillTell
  <2>2. QED
    BY <1>1, <1>2, <1>3, <2>1 DEF FlagsAgree
<1>6. Stores' /\ (Swallowed => Swallowed')
  <2>1. \A u \in Threads : pc[u] \notin Holding
    BY <1>1, NobodyHolds DEF Pause
  <2>2. Stores'
    <3>1. ~job.isCompleted /\ ~job.isStopped
      BY DEF Pause
    <3>2. QED
      BY <1>1, <1>2, <1>3, <2>1, <3>1, ThreadNames DEF Stores, Holding
  <2>3. Swallowed => Swallowed'
    BY <1>2, <1>3, <2>1, ThreadNames DEF Swallowed, SwallowsTheFinish, At, Holding
  <2>4. QED
    BY <2>2, <2>3
<1>7. Told'
  BY <1>1, <1>2, <1>3, <1>6 DEF Told
<1>8. Counts' /\ (\A i \in Items : ItemOK(i)') /\ Outcome'
  <2>1. Stops' = Stops
    BY <1>2, <1>3 DEF Stops
  <2>2. QED
    BY <1>2, <2>1, DataKept
<1>9. QED
  BY <1>4, <1>5, <1>6, <1>7, <1>8 DEF IInv

LEMMA ResumeIsSafe ==
  ASSUME IInv, Resume
  PROVE  IInv'
<1>1. Ranges /\ Places /\ FlagsAgree /\ Owners /\ Stores /\ Told
  BY DEF IInv
<1>2. /\ UNCHANGED <<gate, tx, slots, ran, run, sweep, promised, lock, cameLate>>
      /\ UNCHANGED <<pc, sawRunning, notified, waited>>
  BY <1>1 DEF Ranges, Resume, batch, local, seen
<1>3. /\ job' \in [Flags -> BOOLEAN]
      /\ job'.wasStarted = job.wasStarted /\ job'.isRunning = job.isRunning /\ job'.isPaused = FALSE
      /\ job'.isCompleted = job.isCompleted /\ job'.isStopped = job.isStopped
      /\ job'.executionFinished = job.executionFinished /\ job'.onFinish = job.onFinish
  BY <1>1 DEF Ranges, Flags, Resume
<1>4. Ranges' /\ Places' /\ Owners'
  BY <1>1, <1>2, <1>3 DEF Ranges, Places, Owners
<1>5. FlagsAgree'
  <2>1. Runs' = Runs /\ WillTell' = WillTell
    BY <1>2 DEF Runs, WillTell
  <2>2. QED
    BY <1>1, <1>2, <1>3, <2>1 DEF FlagsAgree
<1>6. Stores' /\ (Swallowed => Swallowed')
  <2>1. \A u \in Threads : pc[u] \notin Holding
    BY <1>1, NobodyHolds DEF Resume
  <2>2. Stores'
    <3>1. /\ \A u \in Threads : pc[u] \notin {"storing", "clearing"}
          /\ \A s \in Stoppers : pc[s] = "stopped" => job.isStopped
          /\ \A s \in Stoppers : s \in cameLate => pc[s] \in {"stopped", "done", "destroyed"}
      BY <1>1, <2>1 DEF Stores, Holding
    <3>2. ~job'.isPaused /\ job'.isStopped = job.isStopped /\ UNCHANGED <<pc, cameLate>>
      BY <1>2, <1>3
    <3>3. pc'["starter"] = "stop unlaunched" => ~job'.isPaused
      BY <3>2
    <3>4. QED
      BY <3>1, <3>2, <3>3, ThreadNames DEF Stores
  <2>3. Swallowed => Swallowed'
    BY <1>2, <1>3, <2>1, ThreadNames DEF Swallowed, SwallowsTheFinish, At, Holding
  <2>4. QED
    BY <2>2, <2>3
<1>7. Told'
  BY <1>1, <1>2, <1>3, <1>6 DEF Told
<1>8. Counts' /\ (\A i \in Items : ItemOK(i)') /\ Outcome'
  <2>1. Stops' = Stops
    BY <1>2, <1>3 DEF Stops
  <2>2. QED
    BY <1>2, <2>1, DataKept
<1>9. QED
  BY <1>4, <1>5, <1>6, <1>7, <1>8 DEF IInv

LEMMA WaitIsSafe ==
  ASSUME IInv, Wait
  PROVE  IInv'
<1>1. Ranges /\ Places /\ FlagsAgree /\ Owners /\ Stores /\ Told
  BY DEF IInv
<1>2. /\ UNCHANGED <<gate, tx, slots, ran, run, sweep, promised, lock, cameLate>>
      /\ UNCHANGED <<pc, sawRunning, notified>>
      /\ waited' \in {"no", "cold", "finished"}
  BY <1>1 DEF Ranges, Wait, batch, local, seen
<1>3. /\ job' \in [Flags -> BOOLEAN]
      /\ job'.wasStarted = job.wasStarted /\ job'.isRunning = job.isRunning /\ job'.isPaused = job.isPaused
      /\ job'.isCompleted = job.isCompleted /\ job'.isStopped = job.isStopped
      /\ job'.executionFinished = job.executionFinished /\ job'.onFinish = job.onFinish
  BY <1>1 DEF Ranges, Flags, Wait
<1>4. Ranges' /\ Places' /\ Owners'
  BY <1>1, <1>2, <1>3 DEF Ranges, Places, Owners
<1>5. FlagsAgree'
  <2>1. Runs' = Runs /\ WillTell' = WillTell
    BY <1>2 DEF Runs, WillTell
  <2>2. QED
    BY <1>1, <1>2, <1>3, <2>1 DEF FlagsAgree
<1>6. Stores' /\ (Swallowed => Swallowed')
  BY <1>1, <1>2, <1>3 DEF Stores, Swallowed, SwallowsTheFinish, At
<1>7. Told'
  BY <1>1, <1>2, <1>3, <1>6 DEF Told
<1>8. Counts' /\ (\A i \in Items : ItemOK(i)') /\ Outcome'
  <2>1. Stops' = Stops
    BY <1>2, <1>3 DEF Stops
  <2>2. QED
    BY <1>2, <2>1, DataKept
<1>9. QED
  BY <1>4, <1>5, <1>6, <1>7, <1>8 DEF IInv

LEMMA ReadIsStoppedIsSafe ==
  ASSUME IInv, NEW t \in Runners, ReadIsStopped(t)
  PROVE  IInv'
<1>1. Ranges /\ Places /\ FlagsAgree /\ Owners /\ Stores /\ Told
  BY DEF IInv
<1>2. /\ UNCHANGED <<gate, tx, slots, ran, run, sweep, promised, lock, cameLate>>
      /\ UNCHANGED <<sawRunning, notified, waited>>
  BY <1>1 DEF Ranges, ReadIsStopped, batch, local, seen
<1>3. Moves(t, "finish", IF job.isStopped THEN "ending" ELSE "completing")
  BY <1>1, PcMoves, ThreadNames DEF ReadIsStopped, Go, At, Steps, Runners
<1>4. /\ job' \in [Flags -> BOOLEAN]
      /\ job'.wasStarted = job.wasStarted /\ job'.isRunning = job.isRunning /\ job'.isPaused = job.isPaused
      /\ job'.isCompleted = job.isCompleted /\ job'.isStopped = job.isStopped
      /\ job'.executionFinished = job.executionFinished /\ job'.onFinish = job.onFinish
  BY <1>1 DEF Ranges, Flags, ReadIsStopped
<1>5. Ranges'
  BY <1>1, <1>2, <1>4 DEF Ranges
<1>6. Places' /\ (t = "starter" => job.isStopped)
  <2>1. t = "starter" => job.isStopped
    BY <1>1, <1>3 DEF Moves, FlagsAgree
  <2>2. CASE job.isStopped
    BY <1>1, <1>3, <2>2, ThreadNames DEF Runners, Moves, Places, StarterSteps, WorkerSteps, StopperSteps, Performing
  <2>3. CASE ~job.isStopped
    <3>1. t = "worker"
      BY <2>1, <2>3 DEF Runners
    <3>2. QED
      BY <1>1, <1>3, <2>3, <3>1, ThreadNames DEF Moves, Places, StarterSteps, WorkerSteps, StopperSteps, Performing
  <2>4. QED
    BY <2>1, <2>2, <2>3
<1>7. FlagsAgree'
  BY <1>1, <1>2, <1>3, <1>4, ThreadNames DEF Moves, FlagsAgree, Runs, WillTell, Owners, Places, StarterSteps, WorkerSteps, StopperSteps, Performing
<1>8. Owners' /\ Stores' /\ Counts' /\ (\A i \in Items : ItemOK(i)') /\ Outcome'
  <2>1. PlainMove(t, "finish", IF job.isStopped THEN "ending" ELSE "completing")
    BY <1>1, <1>3, <1>6, ThreadNames DEF Moves, PlainMove, Holding, Lingering, Performing, Owners
  <2>2. QED
    BY <1>2, <1>3, <1>4, <2>1, MoveKeeps
<1>9. Told'
  <2>1. Swallowed => Swallowed'
    <3>1. /\ job'.isPaused = job.isPaused /\ (job'.isRunning => job.isRunning) /\ UNCHANGED cameLate
          /\ \A s \in Stoppers : pc[s] # "idle" => sawRunning'[s] = sawRunning[s]
          /\ \A s \in Stoppers : pc[s] \in {"clearing", "stopped"} => pc'[s] = pc[s]
      BY <1>2, <1>3, <1>4, ThreadNames DEF Moves
    <3>2. QED
      BY <3>1, StaysSwallowed
  <2>2. QED
    BY <1>1, <1>2, <1>3, <1>4, <2>1, ThreadNames DEF Moves, Told, FlagsAgree, Places
<1>10. QED
  BY <1>5, <1>6, <1>7, <1>8, <1>9 DEF IInv

(* A job that was not stopped is completed, under the locks.                  *)
LEMMA SetCompletedIsSafe ==
  ASSUME IInv, NEW t \in Runners, SetCompleted(t)
  PROVE  IInv'
<1>1. Ranges /\ Places /\ FlagsAgree /\ Owners /\ Stores /\ Told
  BY DEF IInv
<1>2. /\ UNCHANGED <<gate, tx, slots, ran, run, sweep, promised, cameLate>>
      /\ UNCHANGED <<sawRunning, notified, waited>>
  BY DEF SetCompleted, batch, local, seen
<1>3. t = "worker" /\ pc["worker"] = "completing" /\ pc["starter"] = "done"
  BY <1>1 DEF SetCompleted, Go, At, Places, StarterSteps, Runners
<1>4. lock = Free \/ lock = "worker"
  BY <1>3 DEF SetCompleted, CanLock
<1>5. lock = Free
  BY <1>1, <1>3, <1>4, ThreadNames DEF Owners, Holding
<1>6. gate.phase \in Finished
  BY <1>1, <1>3, <1>5, NobodyHolds DEF Owners, Performing, Ranges, Finished
<1>7. CASE job.isCompleted \/ job.isStopped
  <2>1. UNCHANGED <<job, lock>> /\ Moves("worker", "completing", "ending")
    <3>1. Go("worker", "completing", "ending") /\ UNCHANGED <<job, lock>> /\ "ending" \in Steps
      BY <1>3, <1>7 DEF SetCompleted, Steps
    <3>2. QED
      BY <1>1, <1>3, <3>1, PcMoves, ThreadNames DEF Go
  <2>2. pc'["worker"] = "ending" /\ pc'["starter"] = "done" /\ ~job.executionFinished
    BY <1>1, <1>3, <2>1, ThreadNames DEF Moves, FlagsAgree
  <2>3. Ranges' /\ Places'
    BY <1>1, <1>2, <2>1, <2>2, ThreadNames DEF Ranges, Places, Moves, StarterSteps, WorkerSteps
  <2>4. FlagsAgree'
    <3>1. Runs' /\ Runs /\ WillTell
      BY <1>3, <2>2 DEF Runs, WillTell, WorkerSteps
    <3>2. QED
      BY <1>1, <1>2, <1>3, <1>6, <1>7, <2>1, <2>2, <3>1 DEF FlagsAgree
  <2>5. Owners' /\ Stores' /\ Counts' /\ (\A i \in Items : ItemOK(i)') /\ Outcome'
    <3>1. PlainMove("worker", "completing", "ending")
      BY DEF PlainMove, Holding, Performing
    <3>2. QED
      BY <1>2, <2>1, <3>1, MoveKeeps
  <2>6. Told'
    BY <1>1, <1>2, <2>1, <2>2 DEF Told
  <2>7. QED
    BY <2>3, <2>4, <2>5, <2>6 DEF IInv
<1>8. CASE ~job.isCompleted /\ ~job.isStopped
  <2>1. /\ Moves("worker", "completing", "resuming")
        /\ job' = [job EXCEPT !.isCompleted = TRUE] /\ lock' = "worker"
    <3>1. /\ Go("worker", "completing", "resuming") /\ "resuming" \in Steps
          /\ job' = [job EXCEPT !.isCompleted = TRUE] /\ lock' = "worker"
      BY <1>3, <1>8 DEF SetCompleted, Steps
    <3>2. QED
      BY <1>1, <1>3, <3>1, PcMoves, ThreadNames DEF Go
  <2>2. /\ job' \in [Flags -> BOOLEAN] /\ job'.isCompleted
        /\ job'.isRunning = job.isRunning /\ job'.isStopped = FALSE /\ job'.isPaused = job.isPaused
        /\ job'.executionFinished = job.executionFinished /\ job'.onFinish = job.onFinish
    BY <1>1, <1>8, <2>1 DEF Ranges, Flags
  <2>3. /\ pc'["worker"] = "resuming" /\ pc'["starter"] = "done" /\ ~job.executionFinished
        /\ \A u \in Threads : u # "worker" => pc'[u] = pc[u] /\ pc[u] \notin Holding
    BY <1>1, <1>3, <1>5, <2>1, NobodyHolds, ThreadNames DEF Moves, FlagsAgree
  <2>4. Ranges' /\ Places'
    <3>1. Ranges'
      BY <1>1, <1>2, <2>1, <2>2, ThreadNames DEF Ranges
    <3>2. Places'
      BY <1>1, <2>1, <2>3, ThreadNames DEF Places, Moves, StarterSteps, WorkerSteps
    <3>3. QED
      BY <3>1, <3>2
  <2>5. FlagsAgree'
    <3>1. Runs' /\ Runs /\ WillTell
      BY <1>3, <2>3 DEF Runs, WillTell, WorkerSteps
    <3>2. QED
      BY <1>1, <1>2, <1>6, <2>2, <2>3, <3>1 DEF FlagsAgree
  <2>6. Owners'
    <3>1. gate.phase = "Terminal"
      BY <1>1, <1>3, <1>6, <1>8 DEF Owners, Finished
    <3>2. \A u \in Threads : pc'[u] \in Holding => u = "worker"
      BY <2>3
    <3>3. \A u \in Threads : pc'[u] # "cancelling"
      BY <2>3 DEF Holding
    <3>4. pc'["worker"] \in Holding \ Performing /\ pc'["starter"] \notin Lingering
      BY <2>3 DEF Holding, Performing, Lingering
    <3>5. pc'["worker"] \notin {"finish", "completing"}
      BY <2>3
    <3>6. QED
      BY <1>2, <2>1, <3>1, <3>2, <3>3, <3>4, <3>5 DEF Owners
  <2>7. Stores'
    <3>1. \A u \in Threads : pc'[u] \notin {"storing", "clearing"}
      BY <2>3 DEF Holding
    <3>2. \A s \in Stoppers : pc'[s] = pc[s] /\ pc[s] # "stopped"
      BY <1>1, <1>8, <2>3, ThreadNames DEF Stores
    <3>3. \A s \in Stoppers : s \in cameLate => pc[s] \in {"stopped", "done", "destroyed"}
      BY <1>1 DEF Stores
    <3>4. QED
      BY <1>2, <2>2, <2>3, <3>1, <3>2, <3>3 DEF Stores
  <2>8. Stops' = Stops
    <3>1. \A u \in Threads : pc[u] # "storing" /\ pc'[u] # "storing"
      BY <1>3, <2>3 DEF Holding
    <3>2. QED
      BY <1>8, <2>2, <3>1 DEF Stops
  <2>9. Counts' /\ (\A i \in Items : ItemOK(i)') /\ Outcome'
    BY <1>2, <1>3, <2>3, <2>8, DataKept DEF Performing
  <2>10. Told'
    BY <1>1, <1>2, <1>8, <2>2, <2>3 DEF Told
  <2>11. QED
    BY <2>4, <2>5, <2>6, <2>7, <2>9, <2>10 DEF IInv
<1>9. QED
  BY <1>7, <1>8

LEMMA ResumeCompletedIsSafe ==
  ASSUME IInv, NEW t \in Runners, ResumeCompleted(t)
  PROVE  IInv'
<1>1. Ranges /\ Places /\ FlagsAgree /\ Owners /\ Stores /\ Told
  BY DEF IInv
<1>2. /\ UNCHANGED <<gate, tx, slots, ran, run, sweep, promised, cameLate>>
      /\ UNCHANGED <<sawRunning, notified, waited>>
      /\ lock' = Free /\ job' = [job EXCEPT !.isPaused = FALSE]
  BY DEF ResumeCompleted, batch, local, seen
<1>3. t = "worker" /\ pc["worker"] = "resuming" /\ pc["starter"] = "done"
  BY <1>1 DEF ResumeCompleted, Go, At, Places, StarterSteps, Runners
<1>4. Moves("worker", "resuming", "ending")
  <2>1. Goto("worker", "ending") /\ "ending" \in Steps
    BY <1>3 DEF ResumeCompleted, Go, Steps
  <2>2. QED
    BY <1>1, <1>3, <2>1, PcMoves, ThreadNames
<1>5. /\ job' \in [Flags -> BOOLEAN] /\ job'.isPaused = FALSE
      /\ job'.isRunning = job.isRunning /\ job'.isStopped = job.isStopped /\ job'.isCompleted = job.isCompleted
      /\ job'.executionFinished = job.executionFinished /\ job'.onFinish = job.onFinish
  BY <1>1, <1>2 DEF Ranges, Flags
<1>6. job.isCompleted /\ ~job.isStopped /\ gate.phase \in Finished /\ lock = "worker"
  BY <1>1, <1>3, ThreadNames DEF FlagsAgree, Owners, Holding
<1>7. /\ pc'["worker"] = "ending" /\ pc'["starter"] = "done" /\ ~job.executionFinished
      /\ \A u \in Threads : u # "worker" => pc'[u] = pc[u] /\ pc[u] \notin Holding
  BY <1>1, <1>3, <1>4, <1>6, ThreadNames DEF Moves, FlagsAgree, Owners
<1>8. Ranges' /\ Places'
  BY <1>1, <1>2, <1>4, <1>5, <1>7, ThreadNames DEF Ranges, Places, Moves, StarterSteps, WorkerSteps
<1>9. FlagsAgree'
  <2>1. Runs' /\ Runs /\ WillTell
    BY <1>3, <1>7 DEF Runs, WillTell, WorkerSteps
  <2>2. QED
    BY <1>1, <1>2, <1>5, <1>6, <1>7, <2>1 DEF FlagsAgree
<1>10. Owners'
  BY <1>1, <1>2, <1>3, <1>5, <1>6, <1>7, ThreadNames DEF Owners, Holding, Lingering, Performing, Finished
<1>11. Stores'
  <2>1. \A u \in Threads : pc'[u] \notin {"storing", "clearing"}
    BY <1>7 DEF Holding
  <2>2. \A s \in Stoppers : pc'[s] = pc[s] /\ pc[s] # "stopped"
    BY <1>1, <1>6, <1>7, ThreadNames DEF Stores
  <2>3. \A s \in Stoppers : s \in cameLate => pc[s] \in {"stopped", "done", "destroyed"}
    BY <1>1 DEF Stores
  <2>4. QED
    BY <1>2, <1>5, <1>7, <2>1, <2>2, <2>3 DEF Stores
<1>12. Stops' = Stops
  <2>1. \A u \in Threads : pc[u] # "storing" /\ pc'[u] # "storing"
    BY <1>3, <1>7 DEF Holding
  <2>2. QED
    BY <1>5, <2>1 DEF Stops
<1>13. Counts' /\ (\A i \in Items : ItemOK(i)') /\ Outcome'
  BY <1>2, <1>3, <1>7, <1>12, DataKept DEF Performing
<1>14. Told'
  BY <1>1, <1>2, <1>5, <1>7 DEF Told
<1>15. QED
  BY <1>8, <1>9, <1>10, <1>11, <1>13, <1>14 DEF IInv

LEMMA ClearIsRunningIsSafe ==
  ASSUME IInv, NEW t \in Runners, ClearIsRunning(t)
  PROVE  IInv'
<1>1. Ranges /\ Places /\ FlagsAgree /\ Owners /\ Stores /\ Told
  BY DEF IInv
<1>2. /\ UNCHANGED <<gate, tx, slots, ran, run, sweep, promised, lock, cameLate>>
      /\ UNCHANGED <<sawRunning, notified, waited>>
  BY <1>1 DEF Ranges, ClearIsRunning, batch, local, seen
<1>3. Moves(t, "ending", "telling")
  BY <1>1, PcMoves, ThreadNames DEF ClearIsRunning, Go, At, Steps, Runners
<1>4. /\ job' \in [Flags -> BOOLEAN]
      /\ job'.wasStarted = job.wasStarted /\ job'.isRunning = FALSE /\ job'.isPaused = job.isPaused
      /\ job'.isCompleted = job.isCompleted /\ job'.isStopped = job.isStopped
      /\ job'.executionFinished = job.executionFinished /\ job'.onFinish = job.onFinish
  BY <1>1 DEF Ranges, Flags, ClearIsRunning
<1>5. Ranges'
  BY <1>1, <1>2, <1>4 DEF Ranges
<1>6. Places'
  BY <1>1, <1>2, <1>3, <1>4, ThreadNames DEF Moves, Places, StarterSteps, WorkerSteps, StopperSteps, Performing
<1>7. FlagsAgree'
  BY <1>1, <1>2, <1>3, <1>4, ThreadNames DEF Moves, FlagsAgree, Runs, WillTell, Owners, Places, StarterSteps, WorkerSteps, StopperSteps, Performing
<1>8. Owners' /\ Stores' /\ Counts' /\ (\A i \in Items : ItemOK(i)') /\ Outcome'
  <2>1. PlainMove(t, "ending", "telling")
    BY <1>1, <1>3, ThreadNames DEF Moves, PlainMove, Holding, Lingering, Performing, Places, StarterSteps, WorkerSteps, StopperSteps, Performing
  <2>2. QED
    BY <1>2, <1>3, <1>4, <2>1, MoveKeeps
<1>9. Told'
  <2>1. Swallowed => Swallowed'
    <3>1. /\ job'.isPaused = job.isPaused /\ (job'.isRunning => job.isRunning) /\ UNCHANGED cameLate
          /\ \A s \in Stoppers : pc[s] # "idle" => sawRunning'[s] = sawRunning[s]
          /\ \A s \in Stoppers : pc[s] \in {"clearing", "stopped"} => pc'[s] = pc[s]
      BY <1>2, <1>3, <1>4, ThreadNames DEF Moves
    <3>2. QED
      BY <3>1, StaysSwallowed
  <2>2. QED
    BY <1>1, <1>2, <1>3, <1>4, <2>1, ThreadNames DEF Moves, Told, FlagsAgree, Places
<1>10. QED
  BY <1>5, <1>6, <1>7, <1>8, <1>9 DEF IInv

LEMMA CallOnFinishIsSafe ==
  ASSUME IInv, NEW t \in Runners, CallOnFinish(t)
  PROVE  IInv'
<1>1. Ranges /\ Places /\ FlagsAgree /\ Owners /\ Stores /\ Told
  BY DEF IInv
<1>2. /\ UNCHANGED <<gate, tx, slots, ran, run, sweep, promised, lock, cameLate>>
      /\ UNCHANGED <<sawRunning, waited>>
      /\ notified' = (IF job.onFinish THEN notified \cup ({State} \cap {"Completed", "Stopped"}) ELSE notified)
  BY <1>1 DEF Ranges, CallOnFinish, JobFinished, batch, local, seen
<1>3. Moves(t, "telling", "releasing")
  BY <1>1, PcMoves, ThreadNames DEF CallOnFinish, Go, At, Steps, Runners
<1>4. /\ job' \in [Flags -> BOOLEAN]
      /\ job'.wasStarted = job.wasStarted /\ job'.isRunning = job.isRunning /\ job'.isPaused = job.isPaused
      /\ job'.isCompleted = job.isCompleted /\ job'.isStopped = job.isStopped
      /\ job'.executionFinished = job.executionFinished /\ job'.onFinish = FALSE
  BY <1>1 DEF Ranges, Flags, CallOnFinish
<1>5. Ranges'
  BY <1>1, <1>2, <1>4 DEF Ranges
<1>6. Places'
  BY <1>1, <1>2, <1>3, <1>4, ThreadNames DEF Moves, Places, StarterSteps, WorkerSteps, StopperSteps, Performing
<1>7. FlagsAgree'
  BY <1>1, <1>2, <1>3, <1>4, ThreadNames DEF Moves, FlagsAgree, Runs, WillTell, Owners, Places, StarterSteps, WorkerSteps, StopperSteps, Performing
<1>8. Owners' /\ Stores' /\ Counts' /\ (\A i \in Items : ItemOK(i)') /\ Outcome'
  <2>1. PlainMove(t, "telling", "releasing")
    BY <1>1, <1>3, ThreadNames DEF Moves, PlainMove, Holding, Lingering, Performing, Places, StarterSteps, WorkerSteps, StopperSteps, Performing
  <2>2. QED
    BY <1>2, <1>3, <1>4, <2>1, MoveKeeps
<1>9. Told'
  <2>1. /\ "Completed" \in notified' => job'.isCompleted
        /\ "Stopped" \in notified' => job'.isStopped
        /\ notified' # {} => gate'.phase \in Finished
    BY <1>1, <1>2, <1>4, OverIsFinished DEF Told
  <2>2. job.onFinish
    BY <1>1, <1>3 DEF Moves, FlagsAgree, WillTell, WorkerSteps, Runners
  <2>3. ~job.isRunning /\ (job.isCompleted \/ job.isStopped) /\ pc["worker"] # "resuming"
    BY <1>1, <1>3, ThreadNames DEF Moves, Runs, Places, WorkerSteps, Runners, FlagsAgree
  <2>4. CASE ~job.isPaused
    <3>1. State \in {"Completed", "Stopped"}
      BY <2>3, <2>4 DEF State
    <3>2. notified' # {}
      BY <1>2, <2>2, <3>1
    <3>3. QED
      BY <2>1, <3>2 DEF Told
  <2>5. CASE job.isPaused
    <3>1. job.isStopped
      BY <1>1, <2>3, <2>5 DEF Stores
    <3>2. PICK u \in Threads : pc[u] = "clearing"
      BY <1>1, <2>5, <3>1 DEF Stores
    <3>3. u # t /\ u # "starter" /\ lock = u
      BY <1>1, <1>3, <3>2 DEF Moves, Places, StarterSteps, Owners, Holding
    <3>4. t # "starter"
      BY <1>1, <1>3, <3>3, ThreadNames DEF Moves, Owners, Lingering
    <3>5. u \in Stoppers /\ pc'[u] = "clearing"
      BY <1>3, <3>2, <3>3, <3>4, ThreadNames DEF Moves, Runners
    <3>6. Swallowed'
      BY <1>4, <2>3, <2>5, <3>5 DEF Swallowed, SwallowsTheFinish, At
    <3>7. QED
      BY <2>1, <3>6 DEF Told
  <2>6. QED
    BY <2>4, <2>5
<1>10. QED
  BY <1>5, <1>6, <1>7, <1>8, <1>9 DEF IInv

LEMMA ReleaseIsSafe ==
  ASSUME IInv, NEW t \in Runners, Release(t)
  PROVE  IInv'
<1>1. Ranges /\ Places /\ FlagsAgree /\ Owners /\ Stores /\ Told
  BY DEF IInv
<1>2. /\ UNCHANGED <<gate, tx, slots, ran, run, sweep, promised, cameLate>>
      /\ UNCHANGED <<sawRunning, notified, waited>>
      /\ lock' = IF lock = t THEN Free ELSE lock
  BY DEF Release, batch, local, seen
<1>3. Moves(t, "releasing", "done")
  BY <1>1, PcMoves, ThreadNames DEF Release, Go, At, Steps, Runners
<1>4. /\ job' \in [Flags -> BOOLEAN]
      /\ job'.wasStarted = job.wasStarted /\ job'.isRunning = job.isRunning /\ job'.isPaused = job.isPaused
      /\ job'.isCompleted = job.isCompleted /\ job'.isStopped = job.isStopped
      /\ job'.executionFinished = TRUE /\ job'.onFinish = job.onFinish
  BY <1>1 DEF Ranges, Flags, Release
<1>5. Ranges'
  BY <1>1, <1>2, <1>4 DEF Ranges
<1>6. Places'
  BY <1>1, <1>2, <1>3, <1>4, ThreadNames DEF Moves, Places, StarterSteps, WorkerSteps, StopperSteps, Performing
<1>7. FlagsAgree'
  BY <1>1, <1>2, <1>3, <1>4, ThreadNames DEF Moves, FlagsAgree, Runs, WillTell, Owners, Places, StarterSteps, WorkerSteps, StopperSteps, Performing
<1>8. Owners' /\ Stores' /\ Counts' /\ (\A i \in Items : ItemOK(i)') /\ Outcome'
  <2>1. CASE t = "worker"
    <3>1. lock # "worker"
      BY <1>1, <1>3, <2>1, ThreadNames DEF Moves, Owners, Holding
    <3>2. lock' = lock
      BY <1>2, <2>1, <3>1
    <3>3. PlainMove(t, "releasing", "done")
      BY <2>1 DEF PlainMove, Holding, Performing
    <3>4. QED
      BY <1>2, <1>3, <1>4, <3>2, <3>3, MoveKeeps
  <2>2. CASE t = "starter"
    <3>1. /\ pc["starter"] = "releasing" /\ pc'["starter"] = "done"
          /\ pc'["worker"] = pc["worker"] /\ \A s \in Stoppers : pc'[s] = pc[s]
      BY <1>3, <2>2, ThreadNames DEF Moves
    <3>2. lock = "starter" /\ lock' = Free
      BY <1>1, <1>2, <2>2, <3>1 DEF Owners, Lingering
    <3>3. gate.phase # "StopOwned" /\ \A u \in Threads : pc[u] \notin Holding /\ pc'[u] \notin Holding
      BY <1>1, <3>1, <3>2, ThreadNames DEF Owners, Holding
    <3>4. Owners'
      BY <1>1, <1>2, <1>4, <3>1, <3>2, <3>3 DEF Owners, Holding, Lingering
    <3>5. Stores'
      BY <1>1, <1>2, <1>4, <3>1, <3>3, ThreadNames DEF Stores, Holding
    <3>6. Stops' = Stops
      BY <1>4, <3>3 DEF Stops, Holding
    <3>7. Counts' /\ (\A i \in Items : ItemOK(i)') /\ Outcome'
      BY <1>2, <3>1, <3>6, DataKept
    <3>8. QED
      BY <3>4, <3>5, <3>7
  <2>3. QED
    BY <2>1, <2>2 DEF Runners
<1>9. Told'
  <2>1. Swallowed => Swallowed'
    <3>1. \A u \in Stoppers : pc[u] \in {"clearing", "stopped"} => pc'[u] = pc[u]
      BY <1>3, ThreadNames DEF Moves
    <3>2. QED
      BY <1>2, <1>4, <3>1, StaysSwallowed
  <2>2. notified # {} \/ Swallowed
    BY <1>1, <1>3 DEF Moves, Told, Runners
  <2>3. QED
    BY <1>1, <1>2, <1>4, <2>1, <2>2 DEF Told
<1>10. QED
  BY <1>5, <1>6, <1>7, <1>8, <1>9 DEF IInv

LEMMA SetCallbacksIsSafe ==
  ASSUME IInv, SetCallbacks
  PROVE  IInv'
<1>1. Ranges /\ Places /\ FlagsAgree /\ Owners /\ Stores /\ Told
  BY DEF IInv
<1>2. /\ UNCHANGED <<gate, tx, slots, ran, run, sweep, promised, lock, cameLate>>
      /\ UNCHANGED <<sawRunning, notified, waited>>
  BY <1>1 DEF Ranges, SetCallbacks, batch, local, seen
<1>3. Moves("starter", "idle", "run")
  BY <1>1, PcMoves, ThreadNames DEF SetCallbacks, Go, At, Steps, Runners
<1>4. /\ job' \in [Flags -> BOOLEAN]
      /\ job'.wasStarted = job.wasStarted /\ job'.isRunning = job.isRunning /\ job'.isPaused = job.isPaused
      /\ job'.isCompleted = job.isCompleted /\ job'.isStopped = job.isStopped
      /\ job'.executionFinished = job.executionFinished /\ job'.onFinish = TRUE
  BY <1>1 DEF Ranges, Flags, SetCallbacks
<1>5. Ranges'
  BY <1>1, <1>2, <1>4 DEF Ranges
<1>6. Places'
  BY <1>1, <1>2, <1>3, <1>4, ThreadNames DEF Moves, Places, StarterSteps, WorkerSteps, StopperSteps, Performing
<1>7. FlagsAgree'
  BY <1>1, <1>2, <1>3, <1>4, ThreadNames DEF Moves, FlagsAgree, Runs, WillTell, Owners, Places, StarterSteps, WorkerSteps, StopperSteps, Performing
<1>8. Owners' /\ Stores' /\ Counts' /\ (\A i \in Items : ItemOK(i)') /\ Outcome'
  <2>1. PlainMove("starter", "idle", "run")
    BY <1>1, <1>3, ThreadNames DEF Moves, PlainMove, Holding, Lingering, Performing, Places, StarterSteps, WorkerSteps, StopperSteps, Performing
  <2>2. QED
    BY <1>2, <1>3, <1>4, <2>1, MoveKeeps
<1>9. Told'
  <2>1. Swallowed => Swallowed'
    <3>1. /\ job'.isPaused = job.isPaused /\ (job'.isRunning => job.isRunning) /\ UNCHANGED cameLate
          /\ \A s \in Stoppers : pc[s] # "idle" => sawRunning'[s] = sawRunning[s]
          /\ \A s \in Stoppers : pc[s] \in {"clearing", "stopped"} => pc'[s] = pc[s]
      BY <1>2, <1>3, <1>4, ThreadNames DEF Moves
    <3>2. QED
      BY <3>1, StaysSwallowed
  <2>2. QED
    BY <1>1, <1>2, <1>3, <1>4, <2>1, ThreadNames DEF Moves, Told, FlagsAgree, Places
<1>10. QED
  BY <1>5, <1>6, <1>7, <1>8, <1>9 DEF IInv

LEMMA RunIsSafe ==
  ASSUME IInv, Run
  PROVE  IInv'
<1>1. Ranges /\ Places /\ FlagsAgree /\ Owners /\ Stores /\ Told
  BY DEF IInv
<1>2. /\ UNCHANGED <<gate, tx, slots, ran, run, sweep, promised, lock, cameLate>>
      /\ UNCHANGED <<sawRunning, notified, waited>>
  BY <1>1 DEF Ranges, Run, batch, local, seen
<1>3. Moves("starter", "run", IF job.wasStarted \/ job.isRunning \/ job.isStopped THEN "done" ELSE "start")
  BY <1>1, PcMoves, ThreadNames DEF Run, Go, At, Steps, Runners
<1>4. /\ job' \in [Flags -> BOOLEAN]
      /\ job'.wasStarted = job.wasStarted /\ job'.isRunning = job.isRunning /\ job'.isPaused = job.isPaused
      /\ job'.isCompleted = job.isCompleted /\ job'.isStopped = job.isStopped
      /\ job'.executionFinished = job.executionFinished /\ job'.onFinish = job.onFinish
  BY <1>1 DEF Ranges, Flags, Run
<1>5. Ranges'
  BY <1>1, <1>2, <1>4 DEF Ranges
<1>6. Places'
  BY <1>1, <1>2, <1>3, <1>4, ThreadNames DEF Moves, Places, StarterSteps, WorkerSteps, StopperSteps, Performing
<1>7. FlagsAgree'
  BY <1>1, <1>2, <1>3, <1>4, ThreadNames DEF Moves, FlagsAgree, Runs, WillTell, Owners, Places, StarterSteps, WorkerSteps, StopperSteps, Performing
<1>8. Owners' /\ Stores' /\ Counts' /\ (\A i \in Items : ItemOK(i)') /\ Outcome'
  <2>1. PlainMove("starter", "run", IF job.wasStarted \/ job.isRunning \/ job.isStopped THEN "done" ELSE "start")
    BY <1>1, <1>3, ThreadNames DEF Moves, PlainMove, Holding, Lingering, Performing, Places, StarterSteps, WorkerSteps, StopperSteps, Performing
  <2>2. QED
    BY <1>2, <1>3, <1>4, <2>1, MoveKeeps
<1>9. Told'
  <2>1. Swallowed => Swallowed'
    <3>1. /\ job'.isPaused = job.isPaused /\ (job'.isRunning => job.isRunning) /\ UNCHANGED cameLate
          /\ \A s \in Stoppers : pc[s] # "idle" => sawRunning'[s] = sawRunning[s]
          /\ \A s \in Stoppers : pc[s] \in {"clearing", "stopped"} => pc'[s] = pc[s]
      BY <1>2, <1>3, <1>4, ThreadNames DEF Moves
    <3>2. QED
      BY <3>1, StaysSwallowed
  <2>2. QED
    BY <1>1, <1>2, <1>3, <1>4, <2>1, ThreadNames DEF Moves, Told, FlagsAgree, Places
<1>10. QED
  BY <1>5, <1>6, <1>7, <1>8, <1>9 DEF IInv

LEMMA RecordStartIsSafe ==
  ASSUME IInv, RecordStart
  PROVE  IInv'
<1>1. Ranges /\ Places /\ FlagsAgree /\ Owners /\ Stores /\ Told
  BY DEF IInv
<1>2. /\ UNCHANGED <<gate, tx, slots, ran, run, sweep, promised, lock, cameLate>>
      /\ UNCHANGED <<sawRunning, notified, waited>>
  BY <1>1 DEF Ranges, RecordStart, batch, local, seen
<1>3. Moves("starter", "start", "launch")
  BY <1>1, PcMoves, ThreadNames DEF RecordStart, Go, At, Steps, Runners
<1>4. /\ job' \in [Flags -> BOOLEAN]
      /\ job'.wasStarted = TRUE /\ job'.isRunning = TRUE /\ job'.isPaused = job.isPaused
      /\ job'.isCompleted = job.isCompleted /\ job'.isStopped = job.isStopped
      /\ job'.executionFinished = job.executionFinished /\ job'.onFinish = job.onFinish
  BY <1>1 DEF Ranges, Flags, RecordStart
<1>5. Ranges'
  BY <1>1, <1>2, <1>4 DEF Ranges
<1>6. Places'
  BY <1>1, <1>2, <1>3, <1>4, ThreadNames DEF Moves, Places, StarterSteps, WorkerSteps, StopperSteps, Performing
<1>7. FlagsAgree'
  BY <1>1, <1>2, <1>3, <1>4, ThreadNames DEF Moves, FlagsAgree, Runs, WillTell, Owners, Places, StarterSteps, WorkerSteps, StopperSteps, Performing
<1>8. Owners' /\ Stores' /\ Counts' /\ (\A i \in Items : ItemOK(i)') /\ Outcome'
  <2>1. PlainMove("starter", "start", "launch")
    BY <1>1, <1>3, ThreadNames DEF Moves, PlainMove, Holding, Lingering, Performing, Places, StarterSteps, WorkerSteps, StopperSteps, Performing
  <2>2. QED
    BY <1>2, <1>3, <1>4, <2>1, MoveKeeps
<1>9. Told'
  <2>1. ~job'.executionFinished /\ pc'["starter"] # "releasing" /\ pc'["worker"] # "releasing"
    BY <1>1, <1>3, <1>4, ThreadNames DEF Moves, FlagsAgree, Places
  <2>2. QED
    BY <1>1, <1>2, <1>4, <2>1 DEF Told
<1>10. QED
  BY <1>5, <1>6, <1>7, <1>8, <1>9 DEF IInv

LEMMA LaunchFailsIsSafe ==
  ASSUME IInv, LaunchFails
  PROVE  IInv'
<1>1. Ranges /\ Places /\ FlagsAgree /\ Owners /\ Stores /\ Told
  BY DEF IInv
<1>2. /\ UNCHANGED <<gate, tx, slots, ran, run, sweep, promised, lock, cameLate>>
      /\ UNCHANGED <<sawRunning, notified, waited>>
  BY <1>1 DEF Ranges, LaunchFails, batch, local, seen
<1>3. Moves("starter", "launch", "launch failed")
  BY <1>1, PcMoves, ThreadNames DEF LaunchFails, Go, At, Steps, Runners
<1>4. /\ job' \in [Flags -> BOOLEAN]
      /\ job'.wasStarted = job.wasStarted /\ job'.isRunning = job.isRunning /\ job'.isPaused = job.isPaused
      /\ job'.isCompleted = job.isCompleted /\ job'.isStopped = job.isStopped
      /\ job'.executionFinished = job.executionFinished /\ job'.onFinish = job.onFinish
  BY <1>1 DEF Ranges, Flags, LaunchFails
<1>5. Ranges'
  BY <1>1, <1>2, <1>4 DEF Ranges
<1>6. Places'
  BY <1>1, <1>2, <1>3, <1>4, ThreadNames DEF Moves, Places, StarterSteps, WorkerSteps, StopperSteps, Performing
<1>7. FlagsAgree'
  BY <1>1, <1>2, <1>3, <1>4, ThreadNames DEF Moves, FlagsAgree, Runs, WillTell, Owners, Places, StarterSteps, WorkerSteps, StopperSteps, Performing
<1>8. Owners' /\ Stores' /\ Counts' /\ (\A i \in Items : ItemOK(i)') /\ Outcome'
  <2>1. PlainMove("starter", "launch", "launch failed")
    BY <1>1, <1>3, ThreadNames DEF Moves, PlainMove, Holding, Lingering, Performing, Places, StarterSteps, WorkerSteps, StopperSteps, Performing
  <2>2. QED
    BY <1>2, <1>3, <1>4, <2>1, MoveKeeps
<1>9. Told'
  <2>1. Swallowed => Swallowed'
    <3>1. /\ job'.isPaused = job.isPaused /\ (job'.isRunning => job.isRunning) /\ UNCHANGED cameLate
          /\ \A s \in Stoppers : pc[s] # "idle" => sawRunning'[s] = sawRunning[s]
          /\ \A s \in Stoppers : pc[s] \in {"clearing", "stopped"} => pc'[s] = pc[s]
      BY <1>2, <1>3, <1>4, ThreadNames DEF Moves
    <3>2. QED
      BY <3>1, StaysSwallowed
  <2>2. QED
    BY <1>1, <1>2, <1>3, <1>4, <2>1, ThreadNames DEF Moves, Told, FlagsAgree, Places
<1>10. QED
  BY <1>5, <1>6, <1>7, <1>8, <1>9 DEF IInv

LEMMA ResumeUnlaunchedIsSafe ==
  ASSUME IInv, ResumeUnlaunched
  PROVE  IInv'
<1>1. Ranges /\ Places /\ FlagsAgree /\ Owners /\ Stores /\ Told
  BY DEF IInv
<1>2. /\ UNCHANGED <<gate, tx, slots, ran, run, sweep, promised, cameLate>>
      /\ UNCHANGED <<sawRunning, notified, waited>>
      /\ lock = Free /\ lock' = "starter" /\ job' = [job EXCEPT !.isPaused = FALSE]
  BY DEF ResumeUnlaunched, batch, local, seen
<1>3. Moves("starter", "launch failed", "stop unlaunched")
  BY <1>1, PcMoves, ThreadNames DEF ResumeUnlaunched, Go, At, Steps
<1>4. /\ job' \in [Flags -> BOOLEAN]
      /\ job'.wasStarted = job.wasStarted /\ job'.isRunning = job.isRunning /\ job'.isPaused = FALSE
      /\ job'.isCompleted = job.isCompleted /\ job'.isStopped = job.isStopped
      /\ job'.executionFinished = job.executionFinished /\ job'.onFinish = job.onFinish
  BY <1>1, <1>2 DEF Ranges, Flags
<1>5. /\ pc["starter"] = "launch failed" /\ pc'["starter"] = "stop unlaunched"
      /\ pc["worker"] = "idle" /\ pc'["worker"] = "idle" /\ ~job.executionFinished
      /\ \A u \in Threads : pc[u] \notin Holding /\ (u # "starter" => pc'[u] = pc[u])
  BY <1>1, <1>2, <1>3, NobodyHolds, ThreadNames DEF Moves, Places, FlagsAgree
<1>6. Ranges' /\ Places'
  BY <1>1, <1>2, <1>3, <1>4, <1>5, ThreadNames DEF Ranges, Places, Moves, StarterSteps, WorkerSteps
<1>7. FlagsAgree'
  <2>1. Runs' /\ Runs /\ WillTell
    BY <1>5 DEF Runs, WillTell
  <2>2. QED
    BY <1>1, <1>2, <1>4, <1>5, <2>1, NobodyHolds DEF FlagsAgree
<1>8. Owners'
  BY <1>1, <1>2, <1>4, <1>5, NobodyHolds, ThreadNames DEF Owners, Holding, Lingering, Performing
<1>9. Stores'
  <2>1. \A u \in Threads : pc'[u] \notin {"storing", "clearing"}
    BY <1>5 DEF Holding
  <2>2. /\ \A s \in Stoppers : pc'[s] = "stopped" => job.isStopped
        /\ \A s \in Stoppers : s \in cameLate => pc'[s] \in {"stopped", "done", "destroyed"}
    BY <1>1, <1>5, ThreadNames DEF Stores
  <2>3. QED
    BY <1>2, <1>4, <2>1, <2>2 DEF Stores
<1>10. Stops' = Stops
  BY <1>4, <1>5 DEF Stops, Holding
<1>11. Counts' /\ (\A i \in Items : ItemOK(i)') /\ Outcome'
  BY <1>2, <1>5, <1>10, DataKept
<1>12. Told'
  BY <1>1, <1>2, <1>4, <1>5 DEF Told
<1>13. QED
  BY <1>6, <1>7, <1>8, <1>9, <1>11, <1>12 DEF IInv

LEMMA ExecuteIsSafe ==
  ASSUME IInv, Execute
  PROVE  IInv'
<1>1. Ranges /\ Places /\ FlagsAgree /\ Owners /\ Stores /\ Told
  BY DEF IInv
<1>2. /\ UNCHANGED <<gate, tx, slots, ran, run, sweep, promised, lock, cameLate>>
      /\ UNCHANGED <<sawRunning, notified, waited>>
  BY <1>1 DEF Ranges, Execute, batch, local, seen
<1>3. Moves("worker", "execute", IF job.isStopped THEN "finish" ELSE "perform")
  BY <1>1, PcMoves, ThreadNames DEF Execute, Go, At, Steps, Runners
<1>4. /\ job' \in [Flags -> BOOLEAN]
      /\ job'.wasStarted = job.wasStarted /\ job'.isRunning = job.isRunning /\ job'.isPaused = job.isPaused
      /\ job'.isCompleted = job.isCompleted /\ job'.isStopped = job.isStopped
      /\ job'.executionFinished = job.executionFinished /\ job'.onFinish = job.onFinish
  BY <1>1 DEF Ranges, Flags, Execute
<1>5. Ranges'
  BY <1>1, <1>2, <1>4 DEF Ranges
<1>6. Places'
  BY <1>1, <1>2, <1>3, <1>4, ThreadNames DEF Moves, Places, StarterSteps, WorkerSteps, StopperSteps, Performing
<1>7. FlagsAgree'
  BY <1>1, <1>2, <1>3, <1>4, ThreadNames DEF Moves, FlagsAgree, Runs, WillTell, Owners, Places, StarterSteps, WorkerSteps, StopperSteps, Performing
<1>8. Owners' /\ Stores' /\ Counts' /\ (\A i \in Items : ItemOK(i)') /\ Outcome'
  <2>1. PlainMove("worker", "execute", IF job.isStopped THEN "finish" ELSE "perform")
    BY <1>1 DEF PlainMove, Holding, Performing, FlagsAgree
  <2>2. QED
    BY <1>2, <1>3, <1>4, <2>1, MoveKeeps
<1>9. Told'
  <2>1. Swallowed => Swallowed'
    <3>1. /\ job'.isPaused = job.isPaused /\ (job'.isRunning => job.isRunning) /\ UNCHANGED cameLate
          /\ \A s \in Stoppers : pc[s] # "idle" => sawRunning'[s] = sawRunning[s]
          /\ \A s \in Stoppers : pc[s] \in {"clearing", "stopped"} => pc'[s] = pc[s]
      BY <1>2, <1>3, <1>4, ThreadNames DEF Moves
    <3>2. QED
      BY <3>1, StaysSwallowed
  <2>2. QED
    BY <1>1, <1>2, <1>3, <1>4, <2>1, ThreadNames DEF Moves, Told, FlagsAgree, Places
<1>10. QED
  BY <1>5, <1>6, <1>7, <1>8, <1>9 DEF IInv

LEMMA ExecuteThrowsIsSafe ==
  ASSUME IInv, ExecuteThrows
  PROVE  IInv'
<1>1. Ranges /\ Places /\ FlagsAgree /\ Owners /\ Stores /\ Told
  BY DEF IInv
<1>2. /\ UNCHANGED <<gate, tx, slots, ran, run, sweep, promised, lock, cameLate>>
      /\ UNCHANGED <<sawRunning, notified, waited>>
  BY <1>1 DEF Ranges, ExecuteThrows, batch, local, seen
<1>3. Moves("worker", "execute", "stop")
  BY <1>1, PcMoves, ThreadNames DEF ExecuteThrows, Go, At, Steps, Runners
<1>4. /\ job' \in [Flags -> BOOLEAN]
      /\ job'.wasStarted = job.wasStarted /\ job'.isRunning = job.isRunning /\ job'.isPaused = job.isPaused
      /\ job'.isCompleted = job.isCompleted /\ job'.isStopped = job.isStopped
      /\ job'.executionFinished = job.executionFinished /\ job'.onFinish = job.onFinish
  BY <1>1 DEF Ranges, Flags, ExecuteThrows
<1>5. Ranges'
  BY <1>1, <1>2, <1>4 DEF Ranges
<1>6. Places'
  BY <1>1, <1>2, <1>3, <1>4, ThreadNames DEF Moves, Places, StarterSteps, WorkerSteps, StopperSteps, Performing
<1>7. FlagsAgree'
  BY <1>1, <1>2, <1>3, <1>4, ThreadNames DEF Moves, FlagsAgree, Runs, WillTell, Owners, Places, StarterSteps, WorkerSteps, StopperSteps, Performing
<1>8. Owners' /\ Stores' /\ Counts' /\ (\A i \in Items : ItemOK(i)') /\ Outcome'
  <2>1. PlainMove("worker", "execute", "stop")
    BY <1>1, <1>3, ThreadNames DEF Moves, PlainMove, Holding, Lingering, Performing, Places, StarterSteps, WorkerSteps, StopperSteps, Performing
  <2>2. QED
    BY <1>2, <1>3, <1>4, <2>1, MoveKeeps
<1>9. Told'
  <2>1. Swallowed => Swallowed'
    <3>1. /\ job'.isPaused = job.isPaused /\ (job'.isRunning => job.isRunning) /\ UNCHANGED cameLate
          /\ \A s \in Stoppers : pc[s] # "idle" => sawRunning'[s] = sawRunning[s]
          /\ \A s \in Stoppers : pc[s] \in {"clearing", "stopped"} => pc'[s] = pc[s]
      BY <1>2, <1>3, <1>4, ThreadNames DEF Moves
    <3>2. QED
      BY <3>1, StaysSwallowed
  <2>2. QED
    BY <1>1, <1>2, <1>3, <1>4, <2>1, ThreadNames DEF Moves, Told, FlagsAgree, Places
<1>10. QED
  BY <1>5, <1>6, <1>7, <1>8, <1>9 DEF IInv

-----------------------------------------------------------------------------
(* What the items' slots can hold. *)
LEMMA RemovesItIsBoolean == RemovesIt \in BOOLEAN
BY CopyJobAssumption DEF RemovesIt, RemovesSource, RemovingTypes

(* What a transaction ends with is mapped to a slot that says the same.       *)
LEMMA MapFacts ==
  ASSUME NEW r \in TxResults
  PROVE  /\ MapResult(r, RemovesIt) # Unresolved
         /\ MapResult(r, RemovesIt) # InconsistentResult
         /\ r.failure = "Aborted" => /\ MapResult(r, RemovesIt) = NonExecutionTerminal
                                     /\ Status(MapResult(r, RemovesIt)) = "None"
         /\ r.failure # "Aborted" => /\ MapResult(r, RemovesIt) = ItemOf(r, RemovesIt)
                                     /\ HasResult(MapResult(r, RemovesIt))
                                     /\ Status(MapResult(r, RemovesIt)) = StatusOf(r)
<1>1. r \in CommitResults /\ ResultIsValid(r) /\ Consistent(r)
  BY TablesAgree DEF TxResults
<1>2. CASE r.failure = "Aborted"
  <2>1. MapResult(r, RemovesIt) = NonExecutionTerminal
    BY <1>1, <1>2 DEF MapResult
  <2>2. DOMAIN NonExecutionTerminal = {"refused"} /\ DOMAIN Unresolved = {"slot"}
    BY DEF NonExecutionTerminal, Unresolved
  <2>3. NonExecutionTerminal # InconsistentResult
    BY DEF NonExecutionTerminal, InconsistentResult
  <2>4. ~HasResult(NonExecutionTerminal)
    BY DEF HasResult, Refused
  <2>5. QED
    BY <1>2, <2>1, <2>2, <2>3, <2>4 DEF Status
<1>3. CASE r.failure # "Aborted"
  <2>1. MapResult(r, RemovesIt) = ItemOf(r, RemovesIt)
    BY <1>1, <1>3 DEF MapResult
  <2>2. ItemOf(r, RemovesIt) \notin Refused
    BY <1>1, ItemIsNoRefusal, RemovesItIsBoolean
  <2>3. "status" \in DOMAIN ItemOf(r, RemovesIt) /\ ItemOf(r, RemovesIt).status = StatusOf(r)
    BY DEF ItemOf
  <2>4. "status" \notin DOMAIN Unresolved
    BY DEF Unresolved
  <2>5. HasResult(ItemOf(r, RemovesIt))
    BY <2>2, <2>3, <2>4 DEF HasResult
  <2>6. QED
    BY <1>3, <2>1, <2>2, <2>3, <2>4, <2>5 DEF Status, Refused
<1>4. QED
  BY <1>2, <1>3

LEMMA NoStatusYet == Status(Unresolved) = "None" /\ ~HasResult(Unresolved)
BY DEF Status, HasResult

LEMMA PendingIsNoResult ==
  /\ PendingTx \notin CommitResults /\ Committing \notin CommitResults /\ PendingTx # Committing
<1>1. \A r \in CommitResults : "publication" \in DOMAIN r
  BY DEF CommitResults
<1>2. "publication" \notin DOMAIN PendingTx /\ "publication" \notin DOMAIN Committing
  BY DEF PendingTx, Committing
<1>3. PendingTx # Committing
  BY DEF PendingTx, Committing
<1>4. QED
  BY <1>1, <1>2, <1>3

LEMMA AbortResults ==
  ASSUME NEW f \in {"Cancelled", "Aborted"}, NEW confirmed \in BOOLEAN
  PROVE  /\ AbortResult(f, confirmed) \in TxResults
         /\ AbortResult(f, confirmed).failure \in {f, "ProviderFailure"}
<1>1. AbortResult(f, confirmed) \in {NotPublished(f), Unknown}
  BY DEF AbortResult
<1>2. NotPublished(f).failure = f /\ Unknown.failure = "ProviderFailure"
  BY DEF NotPublished, Unknown
<1>3. QED
  BY <1>1, <1>2, OwnResults DEF TxResults

LEMMA AnswersAreResults ==
  ASSUME NEW answer \in Answers, NEW confirmed \in BOOLEAN, NEW early \in BOOLEAN
  PROVE  /\ CommitResult(answer, early, confirmed) \in TxResults
         /\ early => CommitResult(answer, early, confirmed).failure \in {"Cancelled", "ProviderFailure"}
<1>1. CASE early
  BY <1>1, AbortResults DEF CommitResult
<1>2. CASE ~early
  <2>1. \/ CommitResult(answer, early, confirmed) = Unknown
        \/ CommitResult(answer, early, confirmed) = answer /\ ResultIsValid(answer)
    BY <1>2 DEF CommitResult
  <2>2. answer \in CommitResults
    BY CopyJobAssumption
  <2>3. QED
    BY <1>2, <2>1, <2>2, OwnResults DEF TxResults
<1>3. QED
  BY <1>1, <1>2

(* An item nobody touched gets the outcome it is settled with.                *)
Settles(i, statuses) ==
  /\ tx' = [j \in Items |-> tx'[j]] /\ DOMAIN tx' = Items /\ DOMAIN slots' = Items
  /\ \A j \in Items \ {i} : tx'[j] = tx[j] /\ slots'[j] = slots[j]
  /\ tx'[i] \in TxResults /\ slots'[i] = MapResult(tx'[i], RemovesIt)
  /\ Status(slots'[i]) \in statuses

LEMMA SettleOne ==
  ASSUME Ranges, NEW i \in Items, tx[i] = PendingTx, slots[i] = Unresolved,
         NEW f \in {"Cancelled", "Aborted"}, NEW confirmed \in BOOLEAN,
         Settle(i, AbortResult(f, confirmed))
  PROVE  Settles(i, IF f = "Cancelled" THEN {"Cancelled", "Failed"} ELSE {"None", "Failed"}) /\ ran' = ran
<1> DEFINE r == AbortResult(f, confirmed)
<1>1. r \in TxResults /\ r.failure \in {f, "ProviderFailure"}
  BY AbortResults
<1> HIDE DEF r
<1>2. tx' = [tx EXCEPT ![i] = IF @ = PendingTx THEN r ELSE @] /\ ran' = ran
  BY DEF Settle, r
<1>3. slots' = [slots EXCEPT ![i] = IF @ = Unresolved THEN MapResult(r, RemovesIt) ELSE @]
  BY DEF Settle, Publish, r
<1>4. DOMAIN tx = Items /\ DOMAIN slots = Items
  BY DEF Ranges
<1>5. tx'[i] = r /\ slots'[i] = MapResult(r, RemovesIt)
  BY <1>2, <1>3, <1>4
<1>6. Status(MapResult(r, RemovesIt)) \in (IF f = "Cancelled" THEN {"Cancelled", "Failed"} ELSE {"None", "Failed"})
  BY <1>1, MapFacts DEF StatusOf
<1>7. tx' = [j \in Items |-> tx'[j]]
  BY <1>2, <1>4
<1>8. QED
  BY <1>1, <1>2, <1>3, <1>4, <1>5, <1>6, <1>7 DEF Settles

-----------------------------------------------------------------------------
(* The launch, the stops and their sweeps.                                    *)

LEMMA LaunchWorkerIsSafe ==
  ASSUME IInv, LaunchWorker
  PROVE  IInv'
<1>1. Ranges /\ Places /\ FlagsAgree /\ Owners /\ Stores /\ Told
  BY DEF IInv
<1>2. UNCHANGED <<job, lock, gate, tx, slots, ran, run, sweep, sawRunning, cameLate, notified, waited, promised>>
  BY DEF LaunchWorker, batch, local, seen
<1>3. /\ pc["starter"] = "launch" /\ pc'["starter"] = "done" /\ pc'["worker"] = "execute"
      /\ \A s \in Stoppers : pc'[s] = pc[s]
      /\ pc' \in [Threads -> Steps]
  BY <1>1, ThreadNames DEF LaunchWorker, At, Places, Steps
<1>4. pc["worker"] = "idle"
  BY <1>1, <1>3 DEF Places
<1>5. Ranges'
  BY <1>1, <1>2 DEF Ranges
<1>6. Places'
  BY <1>1, <1>3 DEF Places, StarterSteps, WorkerSteps
<1>7. FlagsAgree'
  <2>1. Runs /\ Runs' /\ WillTell
    BY <1>3 DEF Runs, WillTell, WorkerSteps
  <2>2. QED
    BY <1>1, <1>2, <1>3, <1>4, <2>1 DEF FlagsAgree
<1>8. Owners' /\ Stores' /\ Stops' = Stops
  <2>1. \A u \in Threads : pc'[u] # pc[u] => /\ pc[u] \notin Holding \cup Performing
                                             /\ pc'[u] \notin Holding \cup Performing \cup {"stopped"}
    BY <1>3, <1>4, ThreadNames DEF Holding, Performing
  <2>2. pc'["starter"] \in Lingering <=> pc["starter"] \in Lingering
    BY <1>3 DEF Lingering
  <2>3. gate.phase = "TerminalCancelled" /\ pc'["worker"] # "stop" => job.isStopped
    BY <1>1, <1>4 DEF Owners
  <2>4. \A s \in Stoppers : s \in cameLate => pc'[s] \in {"stopped", "done", "destroyed"}
    BY <1>1, <1>3 DEF Stores
  <2>5. pc'["worker"] \notin {"finish", "completing"}
    BY <1>3
  <2>6. QED
    BY <1>2, <2>1, <2>2, <2>3, <2>4, <2>5, OwnersKept
<1>9. Told'
  <2>1. ~job.executionFinished
    BY <1>1, <1>3 DEF FlagsAgree
  <2>2. QED
    BY <1>1, <1>2, <1>3, <2>1 DEF Told
<1>10. Counts' /\ (\A i \in Items : ItemOK(i)') /\ Outcome'
  BY <1>2, <1>3, <1>4, <1>8, DataKept DEF Performing
<1>11. QED
  BY <1>5, <1>6, <1>7, <1>8, <1>9, <1>10 DEF IInv

LEMMA SweepItemIsSafe ==
  ASSUME IInv, NEW t \in Threads, SweepItem(t)
  PROVE  IInv'
<1>1. Ranges /\ Places /\ FlagsAgree /\ Owners /\ Stores /\ Counts /\ Told
  BY DEF IInv
<1>2. UNCHANGED <<job, lock, gate, pc, run, sawRunning, cameLate, notified, waited, promised>>
  BY DEF SweepItem, seen
<1>3. pc[t] = "cancelling" /\ sweep \in Items /\ sweep' = sweep + 1
  BY <1>1 DEF SweepItem, At, Ranges, Items
<1>4. gate.phase = "StopOwned" /\ pc["worker"] \notin Performing
  BY <1>1, <1>3 DEF Owners
<1>5. Reached = sweep /\ Reached' = sweep + 1
  BY <1>2, <1>3, <1>4 DEF Reached
<1>6. tx[sweep] = PendingTx /\ slots[sweep] = Unresolved
  <2>1. ItemOK(sweep) /\ sweep >= Reached
    BY <1>3, <1>5, CopyJobAssumption DEF IInv, Items
  <2>2. QED
    BY <1>4, <2>1 DEF ItemOK, Performing
<1>7. Settles(sweep, {"Cancelled", "Failed"}) /\ ran' = ran
  <2>1. PICK confirmed \in BOOLEAN : Settle(sweep, AbortResult("Cancelled", confirmed))
    BY DEF SweepItem, CancelItem
  <2>2. QED
    BY <1>1, <1>3, <1>6, <2>1, SettleOne
<1>8. Ranges'
  <2>1. sweep' \in 1 .. ItemCount + 1
    BY <1>3, CopyJobAssumption DEF Items
  <2>2. tx' = [i \in Items |-> tx'[i]] /\ DOMAIN tx' = Items /\ DOMAIN slots' = Items
    BY <1>7 DEF Settles
  <2>3. QED
    BY <1>1, <1>2, <1>7, <2>1, <2>2 DEF Ranges
<1>9. Places' /\ FlagsAgree' /\ Owners' /\ Stores' /\ Told' /\ Stops' = Stops
  <2>1. Places'
    BY <1>1, <1>2 DEF Places
  <2>2. FlagsAgree'
    BY <1>1, <1>2 DEF FlagsAgree, Runs, WillTell
  <2>3. Owners'
    BY <1>1, <1>2 DEF Owners
  <2>4. Stores' /\ Stops' = Stops
    BY <1>1, <1>2 DEF Stores, Stops
  <2>5. Told'
    BY <1>1, <1>2 DEF Told, Swallowed, SwallowsTheFinish, At
  <2>6. QED
    BY <2>1, <2>2, <2>3, <2>4, <2>5
<1>10. Counts'
  BY <1>1, <1>2, <1>7, <1>9 DEF Counts
<1>11. ASSUME NEW i \in Items PROVE ItemOK(i)'
  <2>1. CASE i = sweep
    <3>1. i < Reached' /\ ~(i >= Reached')
      BY <1>3, <1>5, <2>1 DEF Items
    <3>2. Status(slots'[i]) # "Succeeded" /\ pc'["worker"] \notin Performing
      BY <1>2, <1>4, <1>7, <2>1 DEF Settles
    <3>3. QED
      BY <1>7, <2>1, <3>1, <3>2 DEF ItemOK, Settles
  <2>2. CASE i # sweep
    <3>1. tx'[i] = tx[i] /\ slots'[i] = slots[i]
      BY <1>7, <2>2 DEF Settles
    <3>2. ((i < Reached) <=> (i < Reached')) /\ ((i >= Reached) <=> (i >= Reached'))
      BY <1>3, <1>5, <2>2, CopyJobAssumption DEF Items
    <3>3. ItemOK(i)
      BY DEF IInv
    <3>4. QED
      BY <1>2, <1>4, <1>7, <3>1, <3>2, <3>3 DEF ItemOK, Performing
  <2>3. QED
    BY <2>1, <2>2
<1>12. Outcome'
  BY <1>2, <1>4 DEF Outcome, Performing
<1>13. QED
  BY <1>8, <1>9, <1>10, <1>11, <1>12 DEF IInv

Phases    == {"Pending", "CommitOwned", "StopOwned", "TerminalCancelled", "Terminal"}
GateRange == [phase : Phases, startedItems : 0 .. ItemCount, stopAccepted : BOOLEAN]

LEMMA GateChanges ==
  ASSUME Ranges, NEW phase \in Phases
  PROVE  /\ gate \in GateRange
         /\ gate' = [gate EXCEPT !.phase = phase] =>
              /\ gate' \in GateRange /\ gate'.phase = phase
              /\ gate'.startedItems = gate.startedItems /\ gate'.stopAccepted = gate.stopAccepted
         /\ gate' = [gate EXCEPT !.phase = phase, !.startedItems = ItemCount] =>
              gate' \in GateRange /\ gate'.phase = phase /\ gate'.startedItems = ItemCount
         /\ gate' = [gate EXCEPT !.startedItems = ItemCount, !.phase = phase] =>
              gate' \in GateRange /\ gate'.phase = phase /\ gate'.startedItems = ItemCount
<1>1. gate \in GateRange
  BY DEF Ranges, GateRange, Phases
<1>2. ItemCount \in 0 .. ItemCount
  BY CopyJobAssumption
<1>3. QED
  BY <1>1, <1>2 DEF GateRange

(* A step that leaves the items alone and does not move their owner on.       *)
LEMMA ItemsKept ==
  ASSUME IInv, UNCHANGED <<tx, slots, ran>>, Reached' = Reached,
         (pc'["worker"] = "committing") <=> (pc["worker"] = "committing"),
         pc'["worker"] \in Performing \ {"wind down"} => pc["worker"] \in Performing \ {"wind down"}
  PROVE  \A i \in Items : ItemOK(i)'
<1> SUFFICES ASSUME NEW i \in Items PROVE ItemOK(i)'
  OBVIOUS
<1>1. ItemOK(i)
  BY DEF IInv
<1>2. QED
  BY <1>1 DEF ItemOK

LEMMA NothingRanNotAll == ASSUME ran = {} PROVE NotAll
<1>1. 1 \in Items
  BY CopyJobAssumption DEF Items
<1>2. QED
  BY <1>1 DEF NotAll

LEMMA SweepEndsIsSafe ==
  ASSUME IInv, NEW t \in Threads, NEW then, SweepEnds(t, then),
         \/ t \in Stoppers \cup {"worker"} /\ then = "storing"
         \/ t = "starter" /\ then = "finish"
  PROVE  IInv'
<1>1. Ranges /\ Places /\ FlagsAgree /\ Owners /\ Stores /\ Counts /\ Told
  BY DEF IInv
<1>2. /\ UNCHANGED <<job, lock, tx, slots, ran, run, sweep, sawRunning, cameLate, notified, waited>>
      /\ promised' = 0
      /\ gate' = [gate EXCEPT !.phase = "Terminal", !.startedItems = ItemCount]
  BY DEF SweepEnds, batch, local
<1>3. Moves(t, "cancelling", then)
  <2>1. then \in Steps /\ Goto(t, then) /\ pc[t] = "cancelling"
    BY DEF SweepEnds, Go, At, Steps
  <2>2. QED
    BY <1>1, <2>1, PcMoves
<1>4. /\ gate.phase = "StopOwned" /\ lock = t /\ pc["worker"] \notin Performing
      /\ \A u \in Threads : u # t => pc[u] \notin Holding
  BY <1>1, <1>3 DEF Moves, Owners, Holding
<1>5. /\ ran = {} /\ notified = {} /\ ~job.isCompleted /\ sweep = ItemCount + 1
      /\ t # "starter" => ~job.isStopped
  <2>1. ran = {} /\ notified = {} /\ ~job.isCompleted
    BY <1>1, <1>4 DEF Counts, Told, FlagsAgree, Finished
  <2>2. sweep > ItemCount
    BY DEF SweepEnds
  <2>3. QED
    BY <1>1, <1>4, <2>1, <2>2, CopyJobAssumption DEF Ranges, FlagsAgree
<1>6. /\ gate' \in GateRange
      /\ gate'.phase = "Terminal" /\ gate'.startedItems = ItemCount
  <2>1. "Terminal" \in Phases
    BY DEF Phases
  <2>2. QED
    BY <1>1, <1>2, <2>1, GateChanges
<1>7. /\ pc[t] = "cancelling" /\ pc'[t] = then /\ \A u \in Threads : u # t => pc'[u] = pc[u]
      /\ then \in {"storing", "finish"} /\ pc'["worker"] \notin Performing
  <2>1. /\ pc[t] = "cancelling" /\ pc'[t] = then /\ \A u \in Threads : u # t => pc'[u] = pc[u]
        /\ then \in {"storing", "finish"}
    BY <1>3 DEF Moves
  <2>2. QED
    BY <1>4, <2>1, ThreadNames DEF Performing
<1>8. Ranges'
  BY <1>1, <1>2, <1>6, CopyJobAssumption DEF Ranges, GateRange, Phases
<1>9. Places'
  BY <1>1, <1>3, ThreadNames DEF Moves, Places, StarterSteps, WorkerSteps, StopperSteps
<1>10. FlagsAgree'
  <2>1. Runs' = Runs /\ WillTell' = WillTell
    BY <1>3, ThreadNames DEF Moves, Runs, WillTell, WorkerSteps
  <2>2. /\ pc'["starter"] \in {"cancelling", "finish", "ending", "telling", "releasing"} => job.isStopped
        /\ pc'["worker"] \in {"ending", "telling", "releasing"} => job.isStopped
        /\ pc'["worker"] # "resuming"
    BY <1>1, <1>5, <1>7, ThreadNames DEF FlagsAgree
  <2>3. job.executionFinished => pc'["starter"] \in {"done", "destroyed"} /\ pc'["worker"] \in {"idle", "done", "destroyed"}
    BY <1>1, <1>7, ThreadNames DEF FlagsAgree
  <2>4. QED
    BY <1>1, <1>2, <1>5, <1>6, <2>1, <2>2, <2>3 DEF FlagsAgree
<1>11. Owners'
  <2>1. \A u \in Threads : pc'[u] # "cancelling" /\ (pc'[u] \in Holding => u = t)
    BY <1>4, <1>7 DEF Holding
  <2>2. lock # Free => pc'[lock] \in Holding \/ (lock = "starter" /\ pc'["starter"] \in Lingering)
    BY <1>4, <1>7, ThreadNames DEF Holding, Lingering
  <2>3. pc'["starter"] \in Lingering => lock = "starter"
    BY <1>1, <1>4, <1>7, ThreadNames DEF Owners
  <2>4. QED
    BY <1>2, <1>4, <1>6, <1>7, <2>1, <2>2, <2>3 DEF Owners
<1>12. Stores'
  <2>1. \A u \in Threads : pc'[u] \notin {"clearing", "resuming", "stop unlaunched"} /\ pc[u] # "clearing"
    BY <1>4, <1>7 DEF Holding
  <2>2. \A u \in Threads : pc'[u] = "storing" => ~job.isStopped
    BY <1>4, <1>5, <1>7, ThreadNames DEF Holding
  <2>3. \A s \in Stoppers : /\ pc'[s] = "stopped" => pc[s] = "stopped"
                            /\ s \in cameLate => pc'[s] \in {"stopped", "done", "destroyed"}
    BY <1>1, <1>7, ThreadNames DEF Stores
  <2>4. ~(job.isPaused /\ job.isStopped)
    BY <1>1, <2>1 DEF Stores
  <2>5. \A s \in Stoppers : pc'[s] = "stopped" => job.isStopped /\ ~job.isPaused
    BY <1>1, <2>3 DEF Stores
  <2>6. QED
    BY <1>2, <1>5, <1>6, <2>1, <2>2, <2>3, <2>4, <2>5, ThreadNames DEF Stores, Finished
<1>13. Counts'
  BY <1>2, <1>5, <1>6, <1>7 DEF Counts, Finished, Performing
<1>14. \A i \in Items : ItemOK(i)'
  <2>1. Reached' = Reached
    BY <1>4, <1>5, <1>6 DEF Reached
  <2>2. QED
    BY <1>2, <1>4, <1>7, <2>1, ItemsKept DEF Performing
<1>15. Outcome'
  <2>1. Stops'
    <3>1. CASE t = "starter"
      BY <1>1, <1>2, <1>7, <3>1 DEF FlagsAgree, Stops
    <3>2. CASE t # "starter"
      BY <1>7, <3>2 DEF Stops
    <3>3. QED
      BY <3>1, <3>2
  <2>2. NotAll'
    BY <1>2, <1>5, NothingRanNotAll DEF NotAll
  <2>3. QED
    BY <1>6, <1>7, <2>1, <2>2 DEF Outcome, Performing
<1>16. Told'
  <2>1. \A s \in Stoppers : pc[s] \in {"clearing", "stopped"} => pc'[s] = pc[s]
    BY <1>7, ThreadNames
  <2>2. Swallowed => Swallowed'
    BY <1>2, <2>1, StaysSwallowed
  <2>3. pc'["starter"] = "releasing" \/ pc'["worker"] = "releasing" => pc["starter"] = "releasing" \/ pc["worker"] = "releasing"
    BY <1>7, ThreadNames
  <2>4. QED
    BY <1>1, <1>2, <1>5, <2>2, <2>3 DEF Told
<1>17. QED
  BY <1>8, <1>9, <1>10, <1>11, <1>12, <1>13, <1>14, <1>15, <1>16 DEF IInv

(* The first store of a stop: the job is stopped, and still paused if it was. *)
LEMMA StoreStoppedIsSafe ==
  ASSUME IInv, NEW t \in Stoppers \cup {"worker"}, StoreStopped(t)
  PROVE  IInv'
<1>1. Ranges /\ Places /\ FlagsAgree /\ Owners /\ Stores /\ Told
  BY DEF IInv
<1>2. /\ UNCHANGED <<gate, tx, slots, ran, run, sweep, promised, lock, cameLate>>
      /\ UNCHANGED <<sawRunning, notified, waited>>
      /\ job' = [job EXCEPT !.isStopped = TRUE]
  BY DEF StoreStopped, batch, local, seen
<1>3. Moves(t, "storing", "clearing")
  BY <1>1, PcMoves, ThreadNames DEF StoreStopped, Go, At, Steps
<1>4. /\ job' \in [Flags -> BOOLEAN] /\ job'.isStopped /\ job'.isPaused = job.isPaused
      /\ job'.wasStarted = job.wasStarted /\ job'.isRunning = job.isRunning
      /\ job'.isCompleted = job.isCompleted
      /\ job'.executionFinished = job.executionFinished /\ job'.onFinish = job.onFinish
  BY <1>1, <1>2 DEF Ranges, Flags
<1>5. /\ t \in Threads /\ t # "starter" /\ pc[t] = "storing" /\ pc'[t] = "clearing"
      /\ \A u \in Threads : u # t => pc'[u] = pc[u]
  BY <1>3, ThreadNames DEF Moves
<1>6. /\ lock = t /\ ~job.isStopped /\ ~job.isCompleted
      /\ gate.phase \in Finished \cup {"CommitOwned"}
      /\ \A u \in Threads : u # t => pc[u] \notin Holding
  BY <1>1, <1>5 DEF Owners, Stores, Holding
<1>7. Ranges'
  BY <1>1, <1>2, <1>4 DEF Ranges
<1>8. Places'
  BY <1>1, <1>3, <1>5, ThreadNames DEF Moves, Places, WorkerSteps, StopperSteps
<1>9. FlagsAgree'
  <2>1. Runs' = Runs /\ WillTell' = WillTell
    BY <1>5, ThreadNames DEF Runs, WillTell, WorkerSteps
  <2>2. pc'["starter"] = pc["starter"] /\ (pc'["worker"] = pc["worker"] \/ (pc["worker"] = "storing" /\ pc'["worker"] = "clearing"))
    BY <1>5, ThreadNames
  <2>3. QED
    BY <1>1, <1>2, <1>4, <1>6, <2>1, <2>2 DEF FlagsAgree, Finished
<1>10. Owners'
  <2>1. \A u \in Threads : /\ pc'[u] \in Holding <=> pc[u] \in Holding
                           /\ pc'[u] \in Performing <=> pc[u] \in Performing
                           /\ pc'[u] = "cancelling" <=> pc[u] = "cancelling"
                           /\ pc'[u] \in {"finish", "completing"} => pc'[u] = pc[u]
    BY <1>5 DEF Holding, Performing
  <2>2. pc'["starter"] = pc["starter"]
    BY <1>5, ThreadNames
  <2>3. QED
    BY <1>1, <1>2, <1>4, <1>6, <2>1, <2>2, ThreadNames DEF Owners, Finished
<1>11. Stores'
  <2>1. \A u \in Threads : pc'[u] \notin {"storing", "stop unlaunched"} /\ (pc'[u] = "clearing" <=> u = t)
    BY <1>5, <1>6 DEF Holding
  <2>2. \A s \in Stoppers : /\ pc'[s] # "stopped"
                            /\ s \in cameLate => pc'[s] \in {"stopped", "done", "destroyed"}
    BY <1>1, <1>5, <1>6, ThreadNames DEF Stores
  <2>3. QED
    BY <1>2, <1>4, <1>5, <1>6, <2>1, <2>2, ThreadNames DEF Stores
<1>12. Stops' = Stops
  BY <1>4, <1>5 DEF Stops
<1>13. Counts' /\ (\A i \in Items : ItemOK(i)') /\ Outcome'
  <2>1. \/ pc'["worker"] = pc["worker"]
        \/ pc["worker"] \notin Performing /\ pc'["worker"] \notin Performing \cup {"idle"}
    BY <1>5, ThreadNames DEF Performing
  <2>2. QED
    BY <1>2, <1>12, <2>1, DataKept
<1>14. Told'
  <2>1. \A s \in Stoppers : pc[s] \in {"clearing", "stopped"} => pc'[s] = pc[s]
    BY <1>5, ThreadNames
  <2>2. Swallowed => Swallowed'
    BY <1>2, <1>4, <2>1, StaysSwallowed
  <2>3. pc'["starter"] = "releasing" \/ pc'["worker"] = "releasing" => pc["starter"] = "releasing" \/ pc["worker"] = "releasing"
    BY <1>5, ThreadNames
  <2>4. QED
    BY <1>1, <1>2, <1>4, <2>2, <2>3 DEF Told
<1>15. QED
  BY <1>7, <1>8, <1>9, <1>10, <1>11, <1>13, <1>14 DEF IInv

(* The second store: the pause is over, too late if the run has ended.        *)
LEMMA ClearPausedIsSafe ==
  ASSUME IInv, NEW t, NEW then, ClearPaused(t, then),
         \/ t \in Stoppers /\ then = "stopped"
         \/ t = "worker" /\ then = "finish"
  PROVE  IInv'
<1>1. Ranges /\ Places /\ FlagsAgree /\ Owners /\ Stores /\ Told
  BY DEF IInv
<1>2. /\ UNCHANGED <<gate, tx, slots, ran, run, sweep, promised>>
      /\ UNCHANGED <<sawRunning, notified, waited>>
      /\ job' = [job EXCEPT !.isPaused = FALSE] /\ lock' = Free
      /\ cameLate' = IF t \in Stoppers /\ job.isPaused /\ ~job.isRunning THEN cameLate \cup {t} ELSE cameLate
  BY DEF ClearPaused, batch, seen
<1>3. Moves(t, "clearing", then)
  <2>1. t \in Threads /\ then \in Steps /\ Goto(t, then) /\ pc[t] = "clearing"
    BY ThreadNames DEF ClearPaused, Go, At, Steps
  <2>2. QED
    BY <1>1, <2>1, PcMoves
<1>4. /\ job' \in [Flags -> BOOLEAN] /\ ~job'.isPaused /\ job'.isStopped = job.isStopped
      /\ job'.wasStarted = job.wasStarted /\ job'.isRunning = job.isRunning
      /\ job'.isCompleted = job.isCompleted
      /\ job'.executionFinished = job.executionFinished /\ job'.onFinish = job.onFinish
  BY <1>1, <1>2 DEF Ranges, Flags
<1>5. /\ t \in Threads /\ t # "starter" /\ pc[t] = "clearing" /\ pc'[t] = then
      /\ \A u \in Threads : u # t => pc'[u] = pc[u]
      /\ then = "finish" <=> t = "worker"
      /\ then \in {"stopped", "finish"}
  BY <1>3, ThreadNames DEF Moves
<1>6. /\ lock = t /\ job.isStopped /\ ~job.isCompleted
      /\ gate.phase \notin {"Pending", "StopOwned"}
      /\ \A u \in Threads : u # t => pc[u] \notin Holding
  <2>1. lock = t /\ \A u \in Threads : u # t => pc[u] \notin Holding
    BY <1>1, <1>5 DEF Owners, Holding
  <2>2. job.isStopped
    BY <1>1, <1>5 DEF Stores
  <2>3. QED
    BY <1>1, <1>5, <2>1, <2>2 DEF Owners, FlagsAgree
<1>7. Ranges'
  <2>1. cameLate' \subseteq Stoppers
    BY <1>1, <1>2 DEF Ranges
  <2>2. QED
    BY <1>1, <1>2, <1>4, <2>1 DEF Ranges
<1>8. Places'
  BY <1>1, <1>3, <1>5, ThreadNames DEF Moves, Places, WorkerSteps, StopperSteps
<1>9. FlagsAgree'
  <2>1. Runs' = Runs /\ WillTell' = WillTell
    BY <1>5, ThreadNames DEF Runs, WillTell, WorkerSteps
  <2>2. pc'["starter"] = pc["starter"] /\ (pc'["worker"] = pc["worker"] \/ (pc["worker"] = "clearing" /\ pc'["worker"] = "finish"))
    BY <1>5, ThreadNames
  <2>3. QED
    BY <1>1, <1>2, <1>4, <1>6, <2>1, <2>2 DEF FlagsAgree
<1>10. Owners'
  <2>1. \A u \in Threads : pc'[u] \notin Holding
    BY <1>5, <1>6 DEF Holding
  <2>2. pc'["worker"] \in Performing <=> pc["worker"] \in Performing
    BY <1>5, ThreadNames DEF Performing
  <2>3. pc'["starter"] \notin Lingering
    BY <1>1, <1>5, <1>6, ThreadNames DEF Owners
  <2>4. QED
    BY <1>1, <1>2, <1>4, <1>6, <2>1, <2>2, <2>3 DEF Owners, Holding
<1>11. Stores'
  <2>1. \A u \in Threads : pc'[u] \notin {"storing", "clearing", "stop unlaunched"}
    BY <1>5, <1>6 DEF Holding
  <2>2. \A s \in Stoppers : s \in cameLate' => pc'[s] \in {"stopped", "done", "destroyed"}
    BY <1>1, <1>2, <1>5, ThreadNames DEF Stores, Ranges
  <2>3. QED
    BY <1>4, <1>6, <2>1, <2>2, ThreadNames DEF Stores
<1>12. Stops' = Stops
  BY <1>4, <1>6 DEF Stops
<1>13. Counts' /\ (\A i \in Items : ItemOK(i)') /\ Outcome'
  <2>1. \/ pc'["worker"] = pc["worker"]
        \/ pc["worker"] \notin Performing /\ pc'["worker"] \notin Performing \cup {"idle"}
    BY <1>5, ThreadNames DEF Performing
  <2>2. QED
    BY <1>2, <1>12, <2>1, DataKept
<1>14. Swallowed => Swallowed'
  <2>1. SUFFICES ASSUME NEW s \in Stoppers, SwallowsTheFinish(s) PROVE SwallowsTheFinish(s)'
    BY DEF Swallowed
  <2>2. s \in Threads
    BY ThreadNames
  <2>3. CASE s = t
    <3>1. s \notin cameLate /\ pc[s] = "clearing"
      BY <1>1, <1>5, <2>3 DEF Stores
    <3>2. job.isPaused /\ ~job.isRunning
      BY <2>1, <3>1 DEF SwallowsTheFinish
    <3>3. s \in cameLate' /\ pc'[s] = "stopped"
      BY <1>1, <1>2, <1>5, <2>3, <3>2, ThreadNames DEF Ranges
    <3>4. QED
      BY <3>3 DEF SwallowsTheFinish, At
  <2>4. CASE s # t
    <3>1. pc[s] # "clearing" /\ pc'[s] = pc[s]
      BY <1>5, <1>6, <2>2, <2>4 DEF Holding
    <3>2. s \in cameLate' <=> s \in cameLate
      BY <1>2, <2>4
    <3>3. QED
      BY <1>2, <1>4, <2>1, <3>1, <3>2 DEF SwallowsTheFinish, At
  <2>5. QED
    BY <2>3, <2>4
<1>15. Told'
  <2>1. pc'["starter"] = "releasing" \/ pc'["worker"] = "releasing" => pc["starter"] = "releasing" \/ pc["worker"] = "releasing"
    BY <1>5, ThreadNames
  <2>2. QED
    BY <1>1, <1>2, <1>4, <1>14, <2>1 DEF Told
<1>16. QED
  BY <1>7, <1>8, <1>9, <1>10, <1>11, <1>13, <1>15 DEF IInv

(* The two who decide: a thread in Operation::Stop and the worker.            *)
Decider(t, else) ==
  \/ t \in Stoppers /\ else = "done"
  \/ t = "worker" /\ else = "finish"

LEMMA DecidersMove ==
  ASSUME Places, NEW t, NEW else, NEW to \in {else, "cancelling", "storing"},
         Decider(t, else), At(t, "stop"), Goto(t, to)
  PROVE  Moves(t, "stop", to) /\ t \in Threads /\ t # "starter"
<1>1. to \in Steps /\ t \in Threads /\ t # "starter"
  BY ThreadNames DEF Decider, Steps
<1>2. QED
  BY <1>1, PcMoves DEF At

LEMMA StopRefusedIsSafe ==
  ASSUME IInv, NEW t, NEW else, Decider(t, else), At(t, "stop"), StopRefused(t, else),
         UNCHANGED <<job, batch, run, sawRunning, cameLate, notified, waited>>
  PROVE  IInv'
<1>1. Ranges /\ Places /\ FlagsAgree /\ Owners /\ Told
  BY DEF IInv
<1>2. /\ UNCHANGED <<gate, tx, slots, ran, run, sweep, promised, lock, cameLate>>
      /\ UNCHANGED <<job, sawRunning, notified, waited>>
  BY DEF StopRefused, batch
<1>3. Moves(t, "stop", else)
  BY <1>1, DecidersMove DEF StopRefused
<1>4. job.isStopped \/ job.isCompleted \/ gate.phase = "Terminal" \/ gate.phase = "CommitOwned"
  BY DEF StopRefused
<1>5. /\ t \in Threads /\ pc[t] = "stop" /\ pc'[t] = else /\ t # "starter"
      /\ \A u \in Threads : u # t => pc'[u] = pc[u]
      /\ else \in {"done", "finish"} /\ (else = "finish" <=> t = "worker")
  BY <1>3, ThreadNames DEF Moves, Decider
<1>6. Ranges'
  BY <1>1, <1>2 DEF Ranges
<1>7. Places'
  BY <1>1, <1>3, <1>5, ThreadNames DEF Moves, Places, WorkerSteps, StopperSteps
<1>8. FlagsAgree'
  <2>1. Runs' = Runs /\ WillTell' = WillTell
    BY <1>5, ThreadNames DEF Runs, WillTell, WorkerSteps
  <2>2. pc'["starter"] = pc["starter"] /\ (pc'["worker"] = pc["worker"] \/ (pc["worker"] = "stop" /\ pc'["worker"] = "finish"))
    BY <1>5, ThreadNames
  <2>3. QED
    BY <1>1, <1>2, <2>1, <2>2 DEF FlagsAgree
<1>9. Owners' /\ Stores' /\ Counts' /\ (\A i \in Items : ItemOK(i)') /\ Outcome'
  <2>1. PlainMove(t, "stop", else)
    <3>1. gate.phase # "Pending"
      BY <1>1, <1>4 DEF FlagsAgree, Finished
    <3>2. t = "worker" => gate.phase # "TerminalCancelled" \/ job.isStopped
      BY <1>1, <1>4, <1>5 DEF FlagsAgree
    <3>3. QED
      BY <1>5, <3>1, <3>2 DEF PlainMove, Holding, Performing
  <2>2. QED
    BY <1>2, <1>3, <2>1, MoveKeeps
<1>10. Told'
  <2>1. \A s \in Stoppers : pc[s] \in {"clearing", "stopped"} => pc'[s] = pc[s]
    BY <1>5, ThreadNames
  <2>2. Swallowed => Swallowed'
    BY <1>2, <2>1, StaysSwallowed
  <2>3. pc'["starter"] = "releasing" \/ pc'["worker"] = "releasing" => pc["starter"] = "releasing" \/ pc["worker"] = "releasing"
    BY <1>5, ThreadNames
  <2>4. QED
    BY <1>1, <1>2, <2>2, <2>3 DEF Told
<1>11. QED
  BY <1>6, <1>7, <1>8, <1>9, <1>10 DEF IInv

(* A stop is accepted: the thread has the locks and goes on to the stores.    *)
LEMMA AcceptedStop ==
  ASSUME IInv, NEW t, NEW else, Decider(t, else), At(t, "stop"), lock = Free,
         ~job.isStopped, ~job.isCompleted, Goto(t, "storing"), lock' = t,
         UNCHANGED <<job, cameLate, sawRunning, notified>>,
         gate'.phase \in Finished \/ (gate'.phase = "CommitOwned" /\ gate'.stopAccepted),
         gate'.phase = "CommitOwned" <=> gate.phase = "CommitOwned",
         gate'.phase # "TerminalCancelled", notified # {} => gate'.phase \in Finished
  PROVE  /\ t \in Threads /\ t # "starter" /\ pc[t] = "stop" /\ pc'[t] = "storing"
         /\ \A u \in Threads : u # t => pc'[u] = pc[u]
         /\ Places' /\ FlagsAgree' /\ Owners' /\ Stores' /\ Told' /\ Stops'
<1>1. Ranges /\ Places /\ FlagsAgree /\ Owners /\ Stores /\ Told
  BY DEF IInv
<1>2. /\ t \in Threads /\ t # "starter" /\ pc[t] = "stop" /\ pc'[t] = "storing"
      /\ \A u \in Threads : u # t => pc'[u] = pc[u]
      /\ Moves(t, "stop", "storing")
  BY <1>1, DecidersMove DEF Moves
<1>3. /\ \A u \in Threads : pc[u] \notin Holding /\ (pc'[u] \in Holding <=> u = t)
      /\ pc'["starter"] = pc["starter"] /\ pc["starter"] \notin Lingering
  BY <1>1, <1>2, NobodyHolds, ThreadNames DEF Holding
<1>4. Places'
  BY <1>1, <1>2, ThreadNames DEF Moves, Places, WorkerSteps, StopperSteps, Decider
<1>5. FlagsAgree'
  <2>1. Runs' = Runs /\ WillTell' = WillTell
    BY <1>2, ThreadNames DEF Runs, WillTell, WorkerSteps
  <2>2. pc'["worker"] = pc["worker"] \/ (pc["worker"] = "stop" /\ pc'["worker"] = "storing")
    BY <1>2, ThreadNames
  <2>3. QED
    BY <1>1, <1>3, <2>1, <2>2 DEF FlagsAgree, Finished
<1>6. Owners'
  <2>1. pc'["worker"] \in Performing <=> pc["worker"] \in Performing
    BY <1>2, ThreadNames DEF Performing
  <2>2. pc'["worker"] \in {"finish", "completing"} => gate'.phase # "Pending"
    BY DEF Finished
  <2>3. \A u \in Threads : pc'[u] # "cancelling"
    BY <1>2, <1>3 DEF Holding
  <2>4. gate'.phase # "StopOwned"
    BY DEF Finished
  <2>5. QED
    BY <1>1, <1>2, <1>3, <2>1, <2>2, <2>3, <2>4 DEF Owners
<1>7. Stores'
  <2>1. \A u \in Threads : pc'[u] \notin {"clearing", "stop unlaunched"}
    BY <1>2, <1>3 DEF Holding
  <2>2. \A s \in Stoppers : /\ pc'[s] # "stopped"
                            /\ s \in cameLate => pc'[s] \in {"stopped", "done", "destroyed"}
    BY <1>1, <1>2, ThreadNames DEF Stores
  <2>3. QED
    BY <1>2, <2>1, <2>2, ThreadNames DEF Stores
<1>8. Told'
  <2>1. \A s \in Stoppers : pc[s] \in {"clearing", "stopped"} => pc'[s] = pc[s]
    BY <1>2, ThreadNames
  <2>2. Swallowed => Swallowed'
    BY <2>1, StaysSwallowed
  <2>3. pc'["starter"] = "releasing" \/ pc'["worker"] = "releasing" => pc["starter"] = "releasing" \/ pc["worker"] = "releasing"
    BY <1>2, ThreadNames
  <2>4. QED
    BY <1>1, <2>2, <2>3 DEF Told
<1>9. Stops'
  BY <1>2 DEF Stops
<1>10. QED
  BY <1>2, <1>4, <1>5, <1>6, <1>7, <1>8, <1>9

LEMMA StopAfterTheRunIsSafe ==
  ASSUME IInv, NEW t, NEW else, Decider(t, else), At(t, "stop"), lock = Free,
         ~job.isStopped, ~job.isCompleted, StopAfterTheRun(t),
         UNCHANGED <<job, batch, run, sawRunning, cameLate, notified, waited>>
  PROVE  IInv'
<1>1. Ranges /\ Owners /\ Counts
  BY DEF IInv
<1>2. /\ UNCHANGED <<job, tx, slots, ran, run, sweep, sawRunning, cameLate, notified, waited>>
      /\ gate.phase = "TerminalCancelled" /\ gate' = [gate EXCEPT !.phase = "Terminal"]
      /\ lock' = t /\ Goto(t, "storing")
      /\ promised' = IF gate.startedItems < promised THEN gate.startedItems ELSE promised
  BY DEF StopAfterTheRun, Accept, batch
<1>3. /\ gate' \in GateRange /\ gate'.phase = "Terminal"
      /\ gate'.startedItems = gate.startedItems /\ gate'.stopAccepted = gate.stopAccepted
  <2>1. "Terminal" \in Phases
    BY DEF Phases
  <2>2. QED
    BY <1>1, <1>2, <2>1, GateChanges
<1>4. /\ t \in Threads /\ pc[t] = "stop" /\ pc'[t] = "storing"
      /\ \A u \in Threads : u # t => pc'[u] = pc[u]
      /\ Places' /\ FlagsAgree' /\ Owners' /\ Stores' /\ Told' /\ Stops'
  BY <1>2, <1>3, AcceptedStop DEF Finished
<1>5. promised' = promised
  <2>1. gate.startedItems = ItemCount /\ promised \in 0 .. ItemCount
    BY <1>1, <1>2 DEF Counts, Finished, Ranges
  <2>2. QED
    BY <1>2, <2>1, CopyJobAssumption
<1>6. pc["worker"] = "stop" /\ pc'["worker"] \in {"stop", "storing"}
  <2>1. pc["worker"] = "stop"
    BY <1>1, <1>2 DEF Owners
  <2>2. QED
    BY <1>4, <2>1, ThreadNames
<1>7. Ranges'
  BY <1>1, <1>2, <1>3, <1>4, <1>5 DEF Ranges, GateRange, Phases
<1>8. Counts'
  BY <1>1, <1>2, <1>3, <1>5, <1>6 DEF Counts, Finished, Performing
<1>9. \A i \in Items : ItemOK(i)'
  <2>1. Reached' = Reached
    BY <1>2, <1>3 DEF Reached
  <2>2. QED
    BY <1>2, <1>6, <2>1, ItemsKept DEF Performing
<1>10. Outcome'
  <2>1. NotAll
    BY <1>2 DEF IInv, Outcome
  <2>2. QED
    BY <1>2, <1>3, <1>4, <1>6, <2>1 DEF Outcome, NotAll
<1>11. QED
  BY <1>4, <1>7, <1>8, <1>9, <1>10 DEF IInv

LEMMA StopDuringTheRunIsSafe ==
  ASSUME IInv, NEW t, NEW else, Decider(t, else), At(t, "stop"), lock = Free,
         ~job.isStopped, ~job.isCompleted, StopDuringTheRun(t),
         UNCHANGED <<job, batch, run, sawRunning, cameLate, notified, waited>>
  PROVE  IInv'
<1>1. Ranges /\ Owners /\ Counts /\ Told
  BY DEF IInv
<1>2. /\ UNCHANGED <<job, tx, slots, ran, run, sweep, sawRunning, cameLate, notified, waited>>
      /\ gate.phase = "CommitOwned" /\ gate.startedItems < ItemCount
      /\ gate' = [gate EXCEPT !.stopAccepted = TRUE]
      /\ lock' = t /\ Goto(t, "storing")
      /\ promised' = IF gate.startedItems < promised THEN gate.startedItems ELSE promised
  BY DEF StopDuringTheRun, Accept, batch
<1>3. /\ gate' \in GateRange /\ gate'.phase = "CommitOwned"
      /\ gate'.startedItems = gate.startedItems /\ gate'.stopAccepted
  BY <1>1, <1>2 DEF Ranges, GateRange, Phases
<1>4. /\ t \in Threads /\ pc[t] = "stop" /\ pc'[t] = "storing"
      /\ \A u \in Threads : u # t => pc'[u] = pc[u]
      /\ Places' /\ FlagsAgree' /\ Owners' /\ Stores' /\ Told' /\ Stops'
  <2>1. notified = {}
    BY <1>1, <1>2 DEF Told, Finished
  <2>2. QED
    BY <1>2, <1>3, <2>1, AcceptedStop
<1>5. pc["worker"] \in Performing /\ pc'["worker"] = pc["worker"]
  <2>1. pc["worker"] \in Performing
    BY <1>1, <1>2 DEF Owners
  <2>2. QED
    BY <1>4, <2>1, ThreadNames DEF Performing
<1>6. /\ promised' \in 0 .. ItemCount /\ promised' < ItemCount /\ ran \subseteq 1 .. promised'
      /\ \A n \in Nat : n <= promised /\ n <= gate.startedItems => n <= promised'
  <2>1. promised \in 0 .. ItemCount /\ gate.startedItems \in 0 .. ItemCount
        /\ ran \subseteq 1 .. promised /\ ran \subseteq 1 .. gate.startedItems
    BY <1>1 DEF Ranges, Counts
  <2>2. QED
    BY <1>2, <2>1, CopyJobAssumption
<1>7. Ranges'
  BY <1>1, <1>2, <1>3, <1>4, <1>6 DEF Ranges, GateRange, Phases
<1>8. Counts'
  <2>1. run.next \in Nat
    BY <1>1, CopyJobAssumption DEF Ranges
  <2>2. pc'["worker"] \in {"commit", "committing"} => gate'.startedItems = run'.next /\ run'.next <= promised'
    <3>1. SUFFICES ASSUME pc["worker"] \in {"commit", "committing"}
                   PROVE  gate'.startedItems = run'.next /\ run'.next <= promised'
      BY <1>5
    <3>2. gate.startedItems = run.next /\ run.next <= promised
      BY <1>1, <3>1 DEF Counts
    <3>3. QED
      BY <1>2, <1>3, <1>6, <2>1, <3>2
  <2>3. QED
    BY <1>1, <1>2, <1>3, <1>5, <1>6, <2>2 DEF Counts, Finished
<1>9. \A i \in Items : ItemOK(i)'
  <2>1. Reached' = Reached
    BY <1>2, <1>3 DEF Reached
  <2>2. QED
    BY <1>2, <1>5, <2>1, ItemsKept
<1>10. Outcome'
  BY <1>2, <1>3, <1>5 DEF IInv, Outcome, NotAll, SomeCancelled
<1>11. QED
  BY <1>4, <1>7, <1>8, <1>9, <1>10 DEF IInv

LEMMA StopBeforeTheRunIsSafe ==
  ASSUME IInv, NEW t, NEW else, Decider(t, else), At(t, "stop"), lock = Free,
         ~job.isStopped, ~job.isCompleted, StopBeforeTheRun(t),
         UNCHANGED <<job, batch, run, sawRunning, cameLate, notified, waited>>
  PROVE  IInv'
<1>1. Ranges /\ Places /\ FlagsAgree /\ Owners /\ Stores /\ Counts /\ Told
  BY DEF IInv
<1>2. /\ UNCHANGED <<job, tx, slots, ran, run, sawRunning, cameLate, notified, waited, promised>>
      /\ gate.phase = "Pending" /\ gate' = [gate EXCEPT !.phase = "StopOwned"]
      /\ lock' = t /\ sweep' = 1
  BY DEF StopBeforeTheRun, batch
<1>3. Moves(t, "stop", "cancelling") /\ t \in Threads /\ t # "starter"
  BY <1>1, DecidersMove DEF StopBeforeTheRun
<1>4. /\ pc[t] = "stop" /\ pc'[t] = "cancelling" /\ pc'["starter"] = pc["starter"]
      /\ \A u \in Threads : u # t => pc'[u] = pc[u]
      /\ pc'["worker"] = pc["worker"] \/ (pc["worker"] = "stop" /\ pc'["worker"] = "cancelling")
  BY <1>3, ThreadNames DEF Moves
<1>5. /\ \A u \in Threads : pc[u] \notin Holding
      /\ pc["starter"] \notin Lingering
  BY <1>1, NobodyHolds
<1>6. pc["worker"] \notin Performing /\ pc'["worker"] \notin Performing
  BY <1>1, <1>2, <1>4 DEF Owners, Performing
<1>7. /\ gate' \in GateRange /\ gate'.phase = "StopOwned"
      /\ gate'.startedItems = gate.startedItems /\ gate'.stopAccepted = gate.stopAccepted
  <2>1. "StopOwned" \in Phases
    BY DEF Phases
  <2>2. QED
    BY <1>1, <1>2, <2>1, GateChanges
<1>8. Ranges'
  <2>1. sweep' \in 1 .. ItemCount + 1
    BY <1>2, CopyJobAssumption
  <2>2. QED
    BY <1>1, <1>2, <1>3, <1>7, <2>1 DEF Ranges, GateRange, Phases
<1>9. Places'
  BY <1>1, <1>3, <1>4, ThreadNames DEF Moves, Places, StopperSteps, WorkerSteps
<1>10. FlagsAgree'
  <2>1. Runs' = Runs /\ WillTell' = WillTell
    BY <1>4 DEF Runs, WillTell, WorkerSteps
  <2>2. ~job.isStopped /\ ~job.isCompleted
    OBVIOUS
  <2>3. pc'["worker"] \in {"ending", "telling", "releasing"} => pc["worker"] \in {"ending", "telling", "releasing"}
    BY <1>4
  <2>4. QED
    BY <1>1, <1>2, <1>4, <2>1, <2>2, <2>3 DEF FlagsAgree
<1>11. Owners'
  <2>1. \A u \in Threads : pc'[u] \in Holding <=> u = t
    BY <1>4, <1>5 DEF Holding
  <2>2. QED
    BY <1>2, <1>3, <1>4, <1>5, <1>6, <1>7, <2>1 DEF Owners, Holding
<1>12. Stores'
  <2>1. \A u \in Threads : pc'[u] \notin {"storing", "clearing", "stop unlaunched"}
    BY <1>4, <1>5 DEF Holding
  <2>2. \A s \in Stoppers : /\ pc'[s] # "stopped"
                            /\ s \in cameLate => pc'[s] \in {"stopped", "done", "destroyed"}
    BY <1>1, <1>4, ThreadNames DEF Stores
  <2>3. QED
    BY <1>2, <2>1, <2>2, ThreadNames DEF Stores
<1>13. Counts'
  BY <1>1, <1>2, <1>6, <1>7 DEF Counts, Finished, Performing
<1>14. \A i \in Items : ItemOK(i)'
  <2>1. Reached' = Reached
    BY <1>2, <1>7 DEF Reached
  <2>2. QED
    BY <1>2, <1>6, <2>1, ItemsKept DEF Performing
<1>15. Outcome'
  BY <1>6, <1>7 DEF Outcome, Performing
<1>16. Told'
  <2>1. notified = {}
    BY <1>1, <1>2 DEF Told, Finished
  <2>2. Swallowed => Swallowed'
    <3>1. \A s \in Stoppers : pc[s] \in {"clearing", "stopped"} => pc'[s] = pc[s]
      BY <1>4, ThreadNames
    <3>2. QED
      BY <1>2, <3>1, StaysSwallowed
  <2>3. pc'["worker"] = "releasing" => pc["worker"] = "releasing"
    BY <1>4
  <2>4. QED
    BY <1>1, <1>2, <1>4, <2>1, <2>2, <2>3 DEF Told
<1>17. QED
  BY <1>8, <1>9, <1>10, <1>11, <1>12, <1>13, <1>14, <1>15, <1>16 DEF IInv

LEMMA DecideIsSafe ==
  ASSUME IInv, NEW t, NEW else, Decider(t, else), At(t, "stop"), Decide(t, else)
  PROVE  IInv'
<1>1. UNCHANGED <<job, batch, run, sawRunning, cameLate, notified, waited>> /\ lock = Free
  BY DEF Decide
<1>2. CASE StopRefused(t, else)
  BY <1>1, <1>2, StopRefusedIsSafe
<1>3. CASE /\ ~job.isStopped /\ ~job.isCompleted
           /\ StopAfterTheRun(t) \/ StopDuringTheRun(t) \/ StopBeforeTheRun(t)
  BY <1>1, <1>3, StopAfterTheRunIsSafe, StopDuringTheRunIsSafe, StopBeforeTheRunIsSafe
<1>4. QED
  BY <1>2, <1>3 DEF Decide

LEMMA StopUnlaunchedIsSafe ==
  ASSUME IInv, StopUnlaunched
  PROVE  IInv'
<1>1. Ranges /\ Places /\ FlagsAgree /\ Owners /\ Stores /\ Counts /\ Told
  BY DEF IInv
<1>2. /\ UNCHANGED <<lock, tx, slots, ran, run, sawRunning, cameLate, notified, waited, promised>>
      /\ job' = [job EXCEPT !.isStopped = TRUE]
  BY DEF StopUnlaunched, batch, seen
<1>3. /\ job' \in [Flags -> BOOLEAN] /\ job'.isStopped /\ job'.isPaused = job.isPaused
      /\ job'.wasStarted = job.wasStarted /\ job'.isRunning = job.isRunning
      /\ job'.isCompleted = job.isCompleted
      /\ job'.executionFinished = job.executionFinished /\ job'.onFinish = job.onFinish
  BY <1>1, <1>2 DEF Ranges, Flags
<1>4. pc["starter"] = "stop unlaunched" /\ lock = "starter" /\ ~job.isPaused
      /\ \A u \in Threads : u # "starter" => pc[u] \notin Holding
  <2>1. pc["starter"] = "stop unlaunched"
    BY DEF StopUnlaunched, Go, At
  <2>2. QED
    BY <1>1, <2>1, ThreadNames DEF Owners, Stores, Holding
<1>5. pc["worker"] = "idle" /\ ran = {} /\ ~job.isCompleted /\ ~job.executionFinished
  <2>1. pc["worker"] = "idle"
    BY <1>1, <1>4 DEF Places
  <2>2. QED
    BY <1>1, <1>4, <2>1 DEF Counts, FlagsAgree
<1>6. gate.phase \in {"Pending"} \cup Finished
  BY <1>1, <1>4, <1>5 DEF Ranges, Owners, Performing, Finished
<1>7. ASSUME \A u \in Threads : u # "starter" => pc'[u] = pc[u],
             pc'["starter"] \in {"cancelling", "finish"}
      PROVE  Stores' /\ Told' /\ Stops'
  <2>1. \A u \in Threads : pc'[u] \notin {"storing", "clearing", "stop unlaunched"}
    BY <1>4, <1>7 DEF Holding
  <2>2. \A s \in Stoppers : s \in cameLate => pc'[s] \in {"stopped", "done", "destroyed"}
    BY <1>1, <1>7, ThreadNames DEF Stores
  <2>3. Stores'
    BY <1>2, <1>3, <1>4, <2>1, <2>2, ThreadNames DEF Stores
  <2>4. gate.phase # "Pending" => gate' = gate
    BY DEF StopUnlaunched
  <2>5. notified # {} => gate'.phase \in Finished
    BY <1>1, <2>4 DEF Told, Finished
  <2>6. pc'["worker"] # "releasing" /\ pc'["starter"] # "releasing"
    BY <1>5, <1>7, ThreadNames
  <2>7. Told'
    BY <1>1, <1>2, <1>3, <1>5, <2>5, <2>6 DEF Told
  <2>8. QED
    BY <1>3, <2>3, <2>7 DEF Stops
<1>8. CASE gate.phase = "Pending"
  <2>1. /\ Moves("starter", "stop unlaunched", "cancelling")
        /\ gate' = [gate EXCEPT !.phase = "StopOwned"] /\ sweep' = 1
    <3>1. /\ Goto("starter", "cancelling") /\ gate' = [gate EXCEPT !.phase = "StopOwned"] /\ sweep' = 1
      BY <1>8 DEF StopUnlaunched, Go
    <3>2. "cancelling" \in Steps
      BY DEF Steps
    <3>3. QED
      BY <1>1, <1>4, <3>1, <3>2, PcMoves, ThreadNames
  <2>2. /\ gate' \in GateRange /\ gate'.phase = "StopOwned"
        /\ gate'.startedItems = gate.startedItems /\ gate'.stopAccepted = gate.stopAccepted
    <3>1. "StopOwned" \in Phases
      BY DEF Phases
    <3>2. QED
      BY <1>1, <2>1, <3>1, GateChanges
  <2>3. /\ pc'["worker"] = "idle" /\ pc'["starter"] = "cancelling"
        /\ \A u \in Threads : u # "starter" => pc'[u] = pc[u] /\ pc'[u] \notin Holding
    BY <1>4, <1>5, <2>1, ThreadNames DEF Moves
  <2>4. Ranges'
    <3>1. sweep' \in 1 .. ItemCount + 1
      <4>1. 1 \in 1 .. ItemCount + 1
        BY CopyJobAssumption
      <4>2. QED
        BY <2>1, <4>1
    <3>2. QED
      BY <1>1, <1>2, <1>3, <2>2, <3>1 DEF Ranges, GateRange, Phases
  <2>5. Places'
    BY <1>1, <2>1, <2>3, ThreadNames DEF Moves, Places, StarterSteps, WorkerSteps
  <2>6. FlagsAgree'
    <3>1. Runs /\ Runs' /\ WillTell
      BY <1>4, <2>3 DEF Runs, WillTell
    <3>2. QED
      BY <1>1, <1>2, <1>3, <1>4, <1>5, <2>2, <2>3, <3>1 DEF FlagsAgree
  <2>7. Owners'
    BY <1>2, <1>4, <2>2, <2>3, ThreadNames DEF Owners, Performing, Holding, Lingering
  <2>8. Counts'
    BY <1>1, <1>2, <1>8, <2>2, <2>3 DEF Counts, Finished, Performing
  <2>9. \A i \in Items : ItemOK(i)'
    <3>1. Reached' = Reached
      BY <1>8, <2>1, <2>2 DEF Reached
    <3>2. QED
      BY <1>2, <1>5, <2>3, <3>1, ItemsKept DEF Performing
  <2>10. Outcome'
    BY <2>2, <2>3 DEF Outcome
  <2>11. Stores' /\ Told'
    BY <1>7, <2>3
  <2>12. QED
    BY <2>4, <2>5, <2>6, <2>7, <2>8, <2>9, <2>10, <2>11 DEF IInv
<1>9. CASE gate.phase # "Pending"
  <2>1. Moves("starter", "stop unlaunched", "finish") /\ UNCHANGED <<gate, sweep>>
    <3>1. Goto("starter", "finish") /\ UNCHANGED <<gate, sweep>>
      BY <1>9 DEF StopUnlaunched, Go
    <3>2. "finish" \in Steps
      BY DEF Steps
    <3>3. QED
      BY <1>1, <1>4, <3>1, <3>2, PcMoves, ThreadNames
  <2>2. /\ pc'["worker"] = "idle" /\ pc'["starter"] = "finish"
        /\ \A u \in Threads : u # "starter" => pc'[u] = pc[u] /\ pc'[u] \notin Holding
    BY <1>4, <1>5, <2>1, ThreadNames DEF Moves
  <2>3. gate.phase \in Finished
    BY <1>6, <1>9
  <2>4. Ranges'
    BY <1>1, <1>2, <1>3, <2>1 DEF Ranges
  <2>5. Places'
    BY <1>1, <2>1, <2>2, ThreadNames DEF Moves, Places, StarterSteps, WorkerSteps
  <2>6. FlagsAgree'
    <3>1. Runs /\ Runs' /\ WillTell
      BY <1>4, <2>2 DEF Runs, WillTell
    <3>2. QED
      BY <1>1, <1>2, <1>3, <1>4, <1>5, <1>9, <2>1, <2>2, <3>1 DEF FlagsAgree
  <2>7. Owners'
    BY <1>2, <1>3, <1>4, <2>1, <2>2, <2>3, ThreadNames DEF Owners, Performing, Finished, Holding, Lingering
  <2>8. Counts'
    BY <1>1, <1>2, <1>5, <2>1, <2>2, <2>3 DEF Counts, Finished, Performing
  <2>9. \A i \in Items : ItemOK(i)'
    <3>1. Reached' = Reached
      BY <1>2, <2>1 DEF Reached
    <3>2. QED
      BY <1>2, <1>5, <2>2, <3>1, ItemsKept DEF Performing
  <2>10. Stores' /\ Told' /\ Stops'
    BY <1>7, <2>2
  <2>11. Outcome'
    <3>1. NotAll'
      BY <1>2, <1>5, NothingRanNotAll DEF NotAll
    <3>2. QED
      BY <2>2, <2>10, <3>1 DEF Outcome
  <2>12. QED
    BY <2>4, <2>5, <2>6, <2>7, <2>8, <2>9, <2>10, <2>11 DEF IInv
<1>10. QED
  BY <1>8, <1>9

-----------------------------------------------------------------------------
(* The worker's run over the batch.                                           *)

LEMMA TakeGateIsSafe ==
  ASSUME IInv, TakeGate
  PROVE  IInv'
<1>1. Ranges /\ Places /\ FlagsAgree /\ Owners /\ Stores /\ Counts /\ Told
  BY DEF IInv
<1>2. UNCHANGED <<job, lock, tx, slots, ran, run, sweep, sawRunning, cameLate, notified, waited, promised>>
  BY DEF TakeGate, batch, local, seen
<1>3. pc["worker"] = "perform" /\ pc["starter"] = "done" /\ ~job.isCompleted /\ ~job.executionFinished
  <2>1. pc["worker"] = "perform"
    BY DEF TakeGate, Go, At
  <2>2. QED
    BY <1>1, <2>1 DEF Places, FlagsAgree
<1>4. CASE gate.phase = "Pending"
  <2>1. Moves("worker", "perform", "item") /\ gate' = [gate EXCEPT !.phase = "CommitOwned"]
    <3>1. Goto("worker", "item") /\ gate' = [gate EXCEPT !.phase = "CommitOwned"] /\ "item" \in Steps
      BY <1>4 DEF TakeGate, Go, Steps
    <3>2. QED
      BY <1>1, <1>3, <3>1, PcMoves, ThreadNames
  <2>2. /\ gate' \in GateRange /\ gate'.phase = "CommitOwned"
        /\ gate'.startedItems = gate.startedItems /\ gate'.stopAccepted = gate.stopAccepted
    <3>1. "CommitOwned" \in Phases
      BY DEF Phases
    <3>2. QED
      BY <1>1, <2>1, <3>1, GateChanges
  <2>3. /\ pc'["worker"] = "item" /\ pc'["starter"] = "done"
        /\ \A u \in Threads : u # "worker" => pc'[u] = pc[u]
    BY <1>3, <2>1, ThreadNames DEF Moves
  <2>4. ~job.isStopped /\ \A u \in Threads : pc[u] \notin {"cancelling", "storing", "clearing"}
    <3>1. ~job.isStopped
      BY <1>1, <1>4 DEF FlagsAgree
    <3>2. QED
      BY <1>1, <1>4, <3>1 DEF Owners, Stores, Finished
  <2>5. \A u \in Threads : pc'[u] \notin {"cancelling", "storing", "clearing"}
    BY <2>3, <2>4
  <2>6. /\ gate.startedItems = 0 /\ ~gate.stopAccepted /\ run.next = 1 /\ ~run.cancelled
        /\ ran = {} /\ promised = ItemCount
    <3>1. /\ gate.startedItems = 0 /\ ~gate.stopAccepted /\ run = [next |-> 1, cancelled |-> FALSE]
          /\ ran = {} /\ promised = ItemCount
      BY <1>1, <1>4 DEF Counts
    <3>2. QED
      BY <3>1
  <2>7. Ranges'
    BY <1>1, <1>2, <2>2 DEF Ranges, GateRange, Phases
  <2>8. Places'
    BY <1>1, <2>1, <2>3, ThreadNames DEF Moves, Places, WorkerSteps, Performing
  <2>9. FlagsAgree'
    <3>1. Runs /\ Runs' /\ WillTell
      BY <1>3, <2>3 DEF Runs, WillTell, WorkerSteps, Performing
    <3>2. QED
      BY <1>1, <1>2, <1>3, <2>2, <2>3, <2>4, <3>1 DEF FlagsAgree
  <2>10. Owners'
    <3>1. \A u \in Threads : pc'[u] \in Holding => pc[u] \in Holding /\ u # "worker"
      BY <2>3 DEF Holding
    <3>2. lock # Free => pc'[lock] \in Holding \/ (lock = "starter" /\ pc'["starter"] \in Lingering)
      BY <1>1, <1>3, <2>3 DEF Owners, Ranges, Holding, Lingering
    <3>3. pc'["worker"] \in Performing /\ pc'["starter"] \notin Lingering /\ pc'["worker"] \notin {"finish", "completing"}
      BY <2>3 DEF Performing, Lingering
    <3>4. QED
      BY <1>1, <1>2, <2>2, <2>5, <3>1, <3>2, <3>3 DEF Owners
  <2>11. Stores' /\ ~Stops'
    <3>1. \A s \in Stoppers : /\ pc'[s] # "stopped"
                              /\ s \in cameLate => pc'[s] \in {"stopped", "done", "destroyed"}
      BY <1>1, <2>3, <2>4, ThreadNames DEF Stores
    <3>2. QED
      BY <1>2, <1>3, <2>3, <2>4, <2>5, <3>1 DEF Stores, Stops
  <2>12. Counts'
    BY <1>2, <2>2, <2>3, <2>6, <2>11 DEF Counts, Finished, Performing
  <2>13. ASSUME NEW i \in Items PROVE ItemOK(i)'
    <3>1. Reached = 1 /\ Reached' = 1
      BY <1>2, <1>4, <2>2, <2>6 DEF Reached
    <3>2. i >= Reached /\ ~(i < Reached)
      BY <3>1, CopyJobAssumption DEF Items
    <3>3. ItemOK(i)
      BY DEF IInv
    <3>4. slots[i] = Unresolved
      BY <3>2, <3>3 DEF ItemOK
    <3>5. Status(slots'[i]) = "None"
      BY <1>2, <3>4, NoStatusYet
    <3>6. QED
      BY <1>2, <1>3, <2>3, <3>1, <3>2, <3>3, <3>5 DEF ItemOK
  <2>14. Outcome'
    BY <2>2, <2>3 DEF Outcome
  <2>15. Told'
    BY <1>1, <1>2, <1>3, <1>4, <2>2, <2>3 DEF Told, Finished
  <2>16. QED
    BY <2>7, <2>8, <2>9, <2>10, <2>11, <2>12, <2>13, <2>14, <2>15 DEF IInv
<1>5. CASE gate.phase # "Pending"
  <2>1. Moves("worker", "perform", "finish") /\ UNCHANGED gate
    <3>1. Goto("worker", "finish") /\ UNCHANGED gate /\ "finish" \in Steps
      BY <1>5 DEF TakeGate, Go, Steps
    <3>2. QED
      BY <1>1, <1>3, <3>1, PcMoves, ThreadNames
  <2>2. pc'["worker"] = "finish" /\ pc'["starter"] = "done"
    BY <1>3, <2>1, ThreadNames DEF Moves
  <2>3. Ranges'
    BY <1>1, <1>2, <2>1 DEF Ranges
  <2>4. Places'
    BY <1>1, <2>1, <2>2, ThreadNames DEF Moves, Places, WorkerSteps
  <2>5. FlagsAgree'
    <3>1. Runs /\ Runs' /\ WillTell
      BY <1>3, <2>2 DEF Runs, WillTell, WorkerSteps
    <3>2. QED
      BY <1>1, <1>2, <1>3, <2>1, <2>2, <3>1 DEF FlagsAgree
  <2>6. Owners' /\ Stores' /\ Counts' /\ (\A i \in Items : ItemOK(i)') /\ Outcome'
    <3>1. PlainMove("worker", "perform", "finish")
      BY <1>5 DEF PlainMove, Holding, Performing
    <3>2. QED
      BY <1>2, <2>1, <3>1, MoveKeeps
  <2>7. Told'
    BY <1>1, <1>2, <1>3, <2>1, <2>2 DEF Told
  <2>8. QED
    BY <2>3, <2>4, <2>5, <2>6, <2>7 DEF IInv
<1>6. QED
  BY <1>4, <1>5

(* The worker at work: it has the items, and nobody is told anything yet.     *)
LEMMA WorkerWorks ==
  ASSUME IInv, pc["worker"] \in Performing, NEW to \in Performing, pc' = [pc EXCEPT !["worker"] = to],
         UNCHANGED <<job, lock, notified, cameLate>>,
         gate'.phase = gate.phase, gate'.stopAccepted = gate.stopAccepted
  PROVE  /\ gate.phase = "CommitOwned" /\ pc'["worker"] = to /\ notified = {}
         /\ Places' /\ FlagsAgree' /\ Owners' /\ Stores' /\ Told' /\ Stops' = Stops
<1>1. Ranges /\ Places /\ FlagsAgree /\ Owners /\ Stores /\ Told
  BY DEF IInv
<1>2. gate.phase = "CommitOwned" /\ pc["starter"] = "done" /\ pc["worker"] \in WorkerSteps
  BY <1>1 DEF Owners, Places, Performing
<1>3. Moves("worker", pc["worker"], to)
  <2>1. to \in Steps
    BY DEF Performing, Steps
  <2>2. QED
    BY <1>1, <2>1, PcMoves, ThreadNames DEF Goto
<1>4. /\ pc'["worker"] = to /\ pc'["starter"] = "done"
      /\ \A u \in Threads : u # "worker" => pc'[u] = pc[u]
  BY <1>2, <1>3, ThreadNames DEF Moves
<1>5. to \notin Holding /\ pc["worker"] \notin Holding
  BY DEF Performing, Holding
<1>6. ~job.isCompleted /\ ~job.executionFinished
  BY <1>1, <1>2 DEF FlagsAgree, Performing, Finished
<1>7. notified = {}
  BY <1>1, <1>2 DEF Told, Finished
<1>8. Places'
  BY <1>1, <1>3, <1>4, ThreadNames DEF Places, Moves, StarterSteps, WorkerSteps, Performing
<1>9. FlagsAgree'
  <2>1. Runs /\ Runs' /\ WillTell
    BY <1>4 DEF Runs, WillTell, WorkerSteps, Performing
  <2>2. to \notin {"resuming", "ending", "telling", "releasing", "done"}
    BY DEF Performing
  <2>3. QED
    BY <1>1, <1>2, <1>4, <1>6, <2>1, <2>2 DEF FlagsAgree
<1>10. Owners'
  <2>1. to \notin {"finish", "completing"}
    BY DEF Performing
  <2>2. \A u \in Threads : pc'[u] \in Holding => pc'[u] = pc[u]
    BY <1>4, <1>5
  <2>3. lock # Free => pc'[lock] \in Holding \/ (lock = "starter" /\ pc'["starter"] \in Lingering)
    BY <1>1, <1>2, <1>4, <1>5 DEF Owners, Ranges, Lingering
  <2>4. pc'["starter"] \notin Lingering
    BY <1>4 DEF Lingering
  <2>5. \A u \in Threads : pc'[u] # "cancelling"
    BY <1>1, <1>2, <2>2 DEF Owners, Holding
  <2>6. QED
    BY <1>1, <1>2, <1>4, <2>1, <2>2, <2>3, <2>4, <2>5 DEF Owners
<1>11. Stores' /\ Stops' = Stops
  <2>1. \A u \in Threads : /\ pc'[u] = "storing" <=> pc[u] = "storing"
                           /\ pc'[u] = "clearing" <=> pc[u] = "clearing"
    BY <1>4, <1>5 DEF Holding
  <2>2. \A s \in Stoppers : pc'[s] = pc[s]
    BY <1>4, ThreadNames
  <2>3. Stops' = Stops
    BY <2>1 DEF Stops
  <2>4. Stores'
    <3>1. \A t \in Threads : pc'[t] = "storing" =>
            /\ ~job'.isStopped /\ ~job'.isCompleted
            /\ gate'.phase \in Finished \/ (gate'.phase = "CommitOwned" /\ gate'.stopAccepted)
      BY <1>1, <2>1 DEF Stores
    <3>2. \A t \in Threads : pc'[t] = "clearing" => job'.isStopped
      BY <1>1, <2>1 DEF Stores
    <3>3. \A s \in Stoppers : /\ pc'[s] = "stopped" => job'.isStopped /\ ~job'.isPaused
                              /\ s \in cameLate' => pc'[s] \in {"stopped", "done", "destroyed"}
      BY <1>1, <2>2 DEF Stores
    <3>4. job'.isPaused /\ job'.isStopped => \E t \in Threads : pc'[t] = "clearing"
      BY <1>1, <2>1 DEF Stores
    <3>5. ~job'.isCompleted /\ pc'["starter"] = "done"
      BY <1>4, <1>6
    <3>6. QED
      BY <3>1, <3>2, <3>3, <3>4, <3>5 DEF Stores
  <2>5. QED
    BY <2>3, <2>4
<1>12. Told'
  <2>1. to # "releasing"
    BY DEF Performing
  <2>2. QED
    BY <1>1, <1>4, <1>6, <1>7, <2>1 DEF Told
<1>13. QED
  BY <1>2, <1>4, <1>7, <1>8, <1>9, <1>10, <1>11, <1>12

(* Where the run is, when it is at work.                                      *)
LEMMA RunBounds ==
  ASSUME IInv
  PROVE  /\ run.next \in 1 .. ItemCount + 1 /\ run.next \in Nat /\ ItemCount \in Nat
         /\ run.next <= ItemCount => run.next \in Items
         /\ promised \in 0 .. ItemCount /\ ran \subseteq Items
BY CopyJobAssumption DEF IInv, Ranges, Items

LEMMA BlockIfPausedIsSafe ==
  ASSUME IInv, BlockIfPaused
  PROVE  IInv'
<1>1. /\ UNCHANGED <<job, lock, gate, tx, slots, ran, run, sweep, sawRunning, cameLate, notified, waited, promised>>
      /\ pc["worker"] = "item" /\ pc' = [pc EXCEPT !["worker"] = "claim"] /\ run.next <= ItemCount
  BY DEF BlockIfPaused, batch, local, seen, Go, At, Goto
<1>2. /\ gate.phase = "CommitOwned" /\ pc'["worker"] = "claim"
      /\ Places' /\ FlagsAgree' /\ Owners' /\ Stores' /\ Told' /\ Stops' = Stops
  <2>1. "item" \in Performing /\ "claim" \in Performing
    BY DEF Performing
  <2>2. QED
    BY <1>1, <2>1, WorkerWorks
<1>3. Ranges'
  BY <1>1 DEF IInv, Ranges
<1>4. Counts'
  BY <1>1, <1>2 DEF IInv, Counts, Performing, Finished
<1>5. \A i \in Items : ItemOK(i)'
  <2>1. Reached' = Reached
    BY <1>1 DEF Reached
  <2>2. QED
    BY <1>1, <1>2, <2>1, ItemsKept DEF Performing
<1>6. Outcome'
  BY <1>1, <1>2 DEF Outcome
<1>7. QED
  BY <1>2, <1>3, <1>4, <1>5, <1>6 DEF IInv

(* Something is left to do, or was kept from being done: not all of it ran.   *)
LEMMA WindingDownCancelled ==
  ASSUME IInv, pc["worker"] \in Performing \ {"committing"}, gate.phase = "CommitOwned",
         run' = [run EXCEPT !.cancelled = TRUE], pc' = [pc EXCEPT !["worker"] = "wind down"],
         UNCHANGED <<job, lock, gate, tx, slots, ran, sweep, sawRunning, cameLate, notified, waited, promised>>,
         NotAll
  PROVE  IInv'
<1>1. "wind down" \in Performing
  BY DEF Performing
<1>2. /\ pc'["worker"] = "wind down"
      /\ Places' /\ FlagsAgree' /\ Owners' /\ Stores' /\ Told' /\ Stops' = Stops
  BY <1>1, WorkerWorks
<1>3. /\ run' \in [next : 1 .. ItemCount + 1, cancelled : BOOLEAN]
      /\ run'.next = run.next /\ run'.cancelled
  BY DEF IInv, Ranges
<1>4. Ranges'
  BY <1>3 DEF IInv, Ranges
<1>5. Counts'
  BY <1>2, <1>3 DEF IInv, Counts, Performing, Finished
<1>6. ASSUME NEW i \in Items PROVE ItemOK(i)'
  <2>1. Reached' = Reached /\ Reached = run.next
    BY <1>3 DEF Reached
  <2>2. ItemOK(i)
    BY DEF IInv
  <2>3. QED
    BY <1>2, <2>1, <2>2 DEF ItemOK
<1>7. Outcome'
  BY <1>2, <1>3 DEF Outcome, NotAll
<1>8. QED
  BY <1>2, <1>4, <1>5, <1>6, <1>7 DEF IInv

LEMMA PerformThrowsIsSafe ==
  ASSUME IInv, PerformThrows
  PROVE  IInv'
<1>1. /\ run' = [run EXCEPT !.cancelled = TRUE] /\ pc' = [pc EXCEPT !["worker"] = "wind down"]
      /\ UNCHANGED <<job, lock, gate, tx, slots, ran, sweep, sawRunning, cameLate, notified, waited, promised>>
  BY DEF PerformThrows, WindDownCancelling, Goto, batch, seen
<1>2. pc["worker"] \in {"commit", "item"} /\ run.next <= ItemCount
  BY DEF PerformThrows, At, IInv, Counts
<1>3. pc["worker"] \in Performing \ {"wind down", "committing"} /\ gate.phase = "CommitOwned"
  BY <1>2 DEF Performing, IInv, Owners
<1>4. run.next \in Items /\ run.next \notin ran
  <2>1. ran \subseteq 1 .. run.next - 1
    BY <1>3 DEF IInv, Counts
  <2>2. QED
    BY <1>2, <2>1, RunBounds
<1>5. NotAll
  BY <1>4 DEF NotAll
<1>6. QED
  BY <1>1, <1>3, <1>5, WindingDownCancelled

LEMMA ClaimIsSafe ==
  ASSUME IInv, Claim
  PROVE  IInv'
<1>1. /\ UNCHANGED <<job, lock, tx, slots, ran, sweep, sawRunning, cameLate, notified, waited, promised>>
      /\ pc["worker"] = "claim"
  BY DEF Claim, At, batch, seen
<1>2. pc["worker"] \in Performing \ {"committing"} /\ gate.phase = "CommitOwned" /\ run.next <= ItemCount
  BY <1>1 DEF Performing, IInv, Owners, Counts
<1>3. CASE gate.stopAccepted
  <2>1. promised < ItemCount /\ ran \subseteq 1 .. promised
    BY <1>2, <1>3 DEF IInv, Counts
  <2>2. ItemCount \in Items /\ ItemCount \notin ran
    BY <2>1, RunBounds, CopyJobAssumption DEF Items
  <2>3. NotAll
    BY <2>2 DEF NotAll
  <2>4. /\ run' = [run EXCEPT !.cancelled = TRUE] /\ pc' = [pc EXCEPT !["worker"] = "wind down"]
        /\ UNCHANGED gate
    BY <1>3 DEF Claim, WindDownCancelling, Goto
  <2>5. QED
    BY <1>1, <1>2, <2>3, <2>4, WindingDownCancelled
<1>4. CASE ~gate.stopAccepted
  <2>1. /\ gate' = [gate EXCEPT !.startedItems = run.next]
        /\ pc' = [pc EXCEPT !["worker"] = "commit"] /\ UNCHANGED run
    BY <1>4 DEF Claim, Goto
  <2>2. run.next \in 0 .. ItemCount
    BY <1>2, RunBounds
  <2>3. /\ gate' \in GateRange /\ gate'.phase = "CommitOwned"
        /\ gate'.startedItems = run.next /\ gate'.stopAccepted = gate.stopAccepted
    BY <1>2, <2>1, <2>2 DEF IInv, Ranges, GateRange, Phases
  <2>4. /\ pc'["worker"] = "commit"
        /\ Places' /\ FlagsAgree' /\ Owners' /\ Stores' /\ Told' /\ Stops' = Stops
    <3>1. "commit" \in Performing
      BY DEF Performing
    <3>2. QED
      BY <1>1, <1>2, <2>1, <2>3, <3>1, WorkerWorks
  <2>5. Ranges'
    BY <1>1, <2>1, <2>3 DEF IInv, Ranges, GateRange, Phases
  <2>6. /\ promised = ItemCount /\ ~Stops /\ ~run.cancelled
        /\ ran \subseteq 1 .. run.next - 1 /\ ran \subseteq 1 .. promised
    BY <1>1, <1>2, <1>4 DEF IInv, Counts, Performing
  <2>7. ran \subseteq 1 .. run.next
    BY <2>6, RunBounds
  <2>8. Counts'
    BY <1>1, <1>2, <1>4, <2>1, <2>3, <2>4, <2>6, <2>7 DEF Counts, Finished, Performing
  <2>9. \A i \in Items : ItemOK(i)'
    <3>1. Reached' = Reached
      BY <1>2, <2>1, <2>3 DEF Reached
    <3>2. QED
      BY <1>1, <2>4, <3>1, ItemsKept DEF Performing
  <2>10. Outcome'
    BY <2>3, <2>4 DEF Outcome
  <2>11. QED
    BY <2>4, <2>5, <2>8, <2>9, <2>10 DEF IInv
<1>5. QED
  BY <1>3, <1>4

LEMMA CommitBeginsIsSafe ==
  ASSUME IInv, CommitBegins
  PROVE  IInv'
<1>1. /\ UNCHANGED <<job, lock, gate, slots, ran, run, sweep, sawRunning, cameLate, notified, waited, promised>>
      /\ pc["worker"] = "commit" /\ pc' = [pc EXCEPT !["worker"] = "committing"]
      /\ tx' = [tx EXCEPT ![run.next] = IF @ = PendingTx THEN Committing ELSE @]
  BY DEF CommitBegins, At, Go, Goto, local, seen
<1>2. /\ gate.phase = "CommitOwned" /\ pc'["worker"] = "committing"
      /\ Places' /\ FlagsAgree' /\ Owners' /\ Stores' /\ Told' /\ Stops' = Stops
  <2>1. "commit" \in Performing /\ "committing" \in Performing
    BY DEF Performing
  <2>2. QED
    BY <1>1, <2>1, WorkerWorks
<1>3. run.next \in Items
  BY <1>1, RunBounds DEF IInv, Counts
<1>4. Reached = run.next /\ Reached' = run.next
  BY <1>1, <1>2 DEF Reached
<1>5. tx[run.next] = PendingTx
  <2>1. ItemOK(run.next) /\ run.next >= Reached
    BY <1>3, <1>4, RunBounds DEF IInv
  <2>2. QED
    BY <1>1, <2>1 DEF ItemOK
<1>6. /\ tx' = [j \in Items |-> tx'[j]] /\ DOMAIN tx' = Items /\ tx'[run.next] = Committing
      /\ \A j \in Items \ {run.next} : tx'[j] = tx[j]
  BY <1>1, <1>3, <1>5 DEF IInv, Ranges
<1>7. Ranges'
  BY <1>1, <1>6 DEF IInv, Ranges
<1>8. Counts'
  BY <1>1, <1>2 DEF IInv, Counts, Performing, Finished
<1>9. ASSUME NEW i \in Items PROVE ItemOK(i)'
  <2>1. ItemOK(i) /\ ~(run.next < run.next)
    BY RunBounds DEF IInv
  <2>2. CASE i = run.next
    BY <1>1, <1>2, <1>4, <1>6, <2>1, <2>2 DEF ItemOK, Performing
  <2>3. CASE i # run.next
    BY <1>1, <1>2, <1>4, <1>6, <2>1, <2>3 DEF ItemOK, Performing
  <2>4. QED
    BY <2>2, <2>3
<1>10. Outcome'
  BY <1>1, <1>2 DEF Outcome
<1>11. QED
  BY <1>2, <1>7, <1>8, <1>9, <1>10 DEF IInv

LEMMA BatchEndsIsSafe ==
  ASSUME IInv, BatchEnds
  PROVE  IInv'
<1>1. /\ UNCHANGED <<job, lock, gate, tx, slots, ran, run, sweep, sawRunning, cameLate, notified, waited, promised>>
      /\ pc["worker"] = "item" /\ pc' = [pc EXCEPT !["worker"] = "wind down"]
  BY DEF BatchEnds, batch, local, seen, Go, At, Goto
<1>2. /\ gate.phase = "CommitOwned" /\ pc'["worker"] = "wind down"
      /\ Places' /\ FlagsAgree' /\ Owners' /\ Stores' /\ Told' /\ Stops' = Stops
  <2>1. "item" \in Performing /\ "wind down" \in Performing
    BY DEF Performing
  <2>2. QED
    BY <1>1, <2>1, WorkerWorks
<1>3. Ranges'
  BY <1>1 DEF IInv, Ranges
<1>4. Counts'
  BY <1>1, <1>2 DEF IInv, Counts, Performing, Finished
<1>5. \A i \in Items : ItemOK(i)'
  <2>1. Reached' = Reached
    BY <1>1 DEF Reached
  <2>2. QED
    BY <1>1, <1>2, <2>1, ItemsKept DEF Performing
<1>6. Outcome'
  <2>1. ~run.cancelled
    BY <1>1 DEF IInv, Counts, Performing
  <2>2. ~SomeCancelled
    BY <1>1 DEF IInv, ItemOK, SomeCancelled, Performing
  <2>3. QED
    BY <1>1, <1>2, <2>1, <2>2 DEF Outcome, SomeCancelled
<1>7. QED
  BY <1>2, <1>3, <1>4, <1>5, <1>6 DEF IInv

LEMMA CommitEndsIsSafe ==
  ASSUME IInv, CommitEnds
  PROVE  IInv'
<1> DEFINE i == run.next
           status == Status(slots'[i])
<1>1. /\ UNCHANGED <<job, lock, gate, sweep, sawRunning, cameLate, notified, waited, promised>>
      /\ pc["worker"] = "committing"
      /\ run' = [next |-> i + 1, cancelled |-> status = "Cancelled"]
      /\ pc' = [pc EXCEPT !["worker"] = IF status = "Succeeded" THEN "item" ELSE "wind down"]
  BY DEF CommitEnds, At, Goto, seen
<1>2. /\ gate.phase = "CommitOwned"
      /\ pc'["worker"] = IF status = "Succeeded" THEN "item" ELSE "wind down"
      /\ Places' /\ FlagsAgree' /\ Owners' /\ Stores' /\ Told' /\ Stops' = Stops
  <2>1. "committing" \in Performing /\ (IF status = "Succeeded" THEN "item" ELSE "wind down") \in Performing
    BY DEF Performing
  <2>2. QED
    BY <1>1, <2>1, WorkerWorks
<1>3. i \in Items /\ i + 1 \in 1 .. ItemCount + 1
  <2>1. i <= ItemCount
    BY <1>1 DEF IInv, Counts
  <2>2. i \in Items /\ i \in Nat /\ ItemCount \in Nat
    BY <2>1, RunBounds
  <2>3. QED
    BY <2>1, <2>2
<1>4. tx[i] = Committing /\ slots[i] = Unresolved
  <2>1. Reached = i /\ i >= Reached
    <3>1. Reached = i
      BY <1>2 DEF Reached
    <3>2. i \in Nat
      BY RunBounds
    <3>3. QED
      BY <3>1, <3>2
  <2>2. ItemOK(i)
    BY <1>3 DEF IInv
  <2>3. QED
    BY <1>1, <2>1, <2>2 DEF ItemOK
<1>5. PICK answer \in Answers, confirmed \in BOOLEAN, early \in BOOLEAN :
        /\ tx' = [tx EXCEPT ![i] = CommitResult(answer, early, confirmed)]
        /\ Publish(i, CommitResult(answer, early, confirmed))
        /\ ran' = IF early THEN ran ELSE ran \cup {i}
  BY <1>4 DEF CommitEnds
<1> DEFINE r == CommitResult(answer, early, confirmed)
<1>6. r \in TxResults /\ (early => r.failure \in {"Cancelled", "ProviderFailure"})
  BY AnswersAreResults
<1> HIDE DEF r
<1>7. DOMAIN tx = Items /\ DOMAIN slots = Items
  BY DEF IInv, Ranges
<1>8. slots' = [slots EXCEPT ![i] = MapResult(r, RemovesIt)]
  BY <1>4, <1>5, <1>7 DEF Publish, r
<1>9. /\ tx' = [j \in Items |-> tx'[j]] /\ DOMAIN tx' = Items /\ DOMAIN slots' = Items
      /\ \A j \in Items \ {i} : tx'[j] = tx[j] /\ slots'[j] = slots[j]
      /\ tx'[i] = r /\ slots'[i] = MapResult(r, RemovesIt)
  BY <1>3, <1>5, <1>7, <1>8 DEF r
<1>10. /\ status = "Succeeded" => i \in ran'
       /\ status \in {"None", "Succeeded", "Cancelled", "Failed"}
  <2>1. r.failure = "Aborted" => status = "None"
    BY <1>6, <1>9, MapFacts
  <2>2. r.failure # "Aborted" => status = StatusOf(r)
    BY <1>6, <1>9, MapFacts
  <2>3. status = "Succeeded" => ~early
    BY <1>6, <2>1, <2>2 DEF StatusOf
  <2>4. QED
    BY <1>5, <2>1, <2>2, <2>3 DEF StatusOf
<1> HIDE DEF status
<1>11. ran \subseteq ran' /\ ran' \subseteq ran \cup {i}
  BY <1>5
<1>12. /\ run'.next = i + 1 /\ run'.cancelled = (status = "Cancelled")
       /\ run' \in [next : 1 .. ItemCount + 1, cancelled : BOOLEAN]
  BY <1>1, <1>3
<1> HIDE DEF i
<1>13. Ranges'
  BY <1>1, <1>3, <1>9, <1>11, <1>12 DEF IInv, Ranges
<1>14. Counts'
  <2>1. gate.startedItems = i /\ i <= promised
    BY <1>1 DEF IInv, Counts, i
  <2>2. /\ ran \subseteq 1 .. promised /\ ran \subseteq 1 .. gate.startedItems
        /\ ran \subseteq 1 .. i - 1
    BY <1>1 DEF IInv, Counts, Performing, i
  <2>3. i \in 1 .. promised /\ i \in 1 .. gate.startedItems /\ i \in 1 .. (i + 1) - 1 /\ ran \subseteq 1 .. (i + 1) - 1
    BY <1>3, <2>1, <2>2, RunBounds DEF Items
  <2>4. ran' \subseteq 1 .. promised /\ ran' \subseteq 1 .. gate.startedItems /\ ran' \subseteq 1 .. run'.next - 1
    BY <1>11, <1>12, <2>2, <2>3
  <2>5. pc'["worker"] \in Performing \ {"wind down"} => ~run'.cancelled
    BY <1>2, <1>12
  <2>6. gate.phase = "CommitOwned" =>
           IF gate.stopAccepted THEN promised < ItemCount ELSE promised = ItemCount /\ ~Stops
    BY DEF IInv, Counts
  <2>7. pc'["worker"] \in {"item", "wind down"}
    BY <1>2
  <2>8. QED
    BY <1>1, <1>2, <2>4, <2>5, <2>6, <2>7 DEF Counts, Finished
<1>15. ASSUME NEW j \in Items PROVE ItemOK(j)'
  <2>1. Reached = i /\ Reached' = i + 1
    BY <1>1, <1>2, <1>12 DEF Reached, i
  <2>2. pc'["worker"] \in {"item", "wind down"} /\ (status = "Cancelled" => pc'["worker"] = "wind down")
    BY <1>2
  <2>3. CASE j = i
    <3>1. j < Reached' /\ ~(j >= Reached')
      BY <1>3, <2>1, <2>3, CopyJobAssumption DEF Items
    <3>2. Status(slots'[j]) = status
      BY <2>3 DEF status, i
    <3>3. QED
      BY <1>6, <1>9, <1>10, <2>2, <2>3, <3>1, <3>2 DEF ItemOK
  <2>4. CASE j # i
    <3>1. tx'[j] = tx[j] /\ slots'[j] = slots[j]
      BY <1>9, <2>4
    <3>2. ((j < Reached) <=> (j < Reached')) /\ ((j >= Reached) <=> (j >= Reached')) /\ j # Reached
      BY <1>3, <2>1, <2>4, CopyJobAssumption DEF Items
    <3>3. ItemOK(j)
      BY DEF IInv
    <3>4. Status(slots[j]) # "Cancelled"
      BY <1>1, <3>3 DEF ItemOK, Performing
    <3>5. QED
      BY <1>1, <1>11, <2>2, <3>1, <3>2, <3>3, <3>4 DEF ItemOK
  <2>5. QED
    BY <2>3, <2>4
<1>16. Outcome'
  <2>1. SomeCancelled' => status = "Cancelled"
    <3>1. SUFFICES ASSUME NEW j \in Items, Status(slots'[j]) = "Cancelled" PROVE status = "Cancelled"
      BY DEF SomeCancelled
    <3>2. CASE j = i
      BY <3>1, <3>2 DEF status, i
    <3>3. CASE j # i
      <4>1. ItemOK(j) /\ slots'[j] = slots[j]
        BY <1>9, <3>3 DEF IInv
      <4>2. QED
        BY <1>1, <3>1, <4>1 DEF ItemOK, Performing
    <3>4. QED
      BY <3>2, <3>3
  <2>2. status = "Cancelled" => NotAll'
    BY <1>3 DEF NotAll, status, i
  <2>3. QED
    BY <1>1, <1>2, <1>12, <2>1, <2>2 DEF Outcome
<1>17. QED
  BY <1>2, <1>13, <1>14, <1>15, <1>16 DEF IInv

LEMMA WindDownIsSafe ==
  ASSUME IInv, WindDown
  PROVE  IInv'
<1> DEFINE i == run.next
<1>1. /\ UNCHANGED <<job, lock, gate, pc, sweep, sawRunning, cameLate, notified, waited, promised>>
      /\ pc["worker"] = "wind down" /\ i <= ItemCount
      /\ run' = [run EXCEPT !.next = @ + 1]
  BY DEF WindDown, At, seen
<1>2. gate.phase = "CommitOwned"
  BY <1>1 DEF IInv, Owners, Performing
<1>3. i \in Items /\ i + 1 \in 1 .. ItemCount + 1
  <2>1. i <= ItemCount
    BY <1>1
  <2>2. i \in Items /\ i \in Nat /\ ItemCount \in Nat
    BY <2>1, RunBounds
  <2>3. QED
    BY <2>1, <2>2
<1>4. tx[i] = PendingTx /\ slots[i] = Unresolved
  <2>1. Reached = i /\ i >= Reached
    <3>1. Reached = i
      BY <1>2 DEF Reached
    <3>2. i \in Nat
      BY RunBounds
    <3>3. QED
      BY <3>1, <3>2
  <2>2. ItemOK(i)
    BY <1>3 DEF IInv
  <2>3. QED
    BY <1>1, <2>1, <2>2 DEF ItemOK
<1>5. /\ Settles(i, IF run.cancelled THEN {"Cancelled", "Failed"} ELSE {"None", "Failed"})
      /\ ran' = ran
  <2>1. Ranges
    BY DEF IInv
  <2>2. CASE run.cancelled
    <3>1. PICK confirmed \in BOOLEAN : Settle(i, AbortResult("Cancelled", confirmed))
      BY <2>2 DEF WindDown, CancelItem
    <3>2. QED
      BY <1>3, <1>4, <2>1, <2>2, <3>1, SettleOne
  <2>3. CASE ~run.cancelled
    <3>1. PICK confirmed \in BOOLEAN : Settle(i, AbortResult("Aborted", confirmed))
      BY <2>3 DEF WindDown, AbandonItem
    <3>2. Settles(i, {"None", "Failed"}) /\ ran' = ran
      BY <1>3, <1>4, <2>1, <3>1, SettleOne
    <3>3. QED
      BY <2>3, <3>2
  <2>4. QED
    BY <2>2, <2>3
<1>6. /\ run'.next = i + 1 /\ run'.cancelled = run.cancelled
      /\ run' \in [next : 1 .. ItemCount + 1, cancelled : BOOLEAN]
  BY <1>1, <1>3 DEF IInv, Ranges
<1>7. Ranges'
  BY <1>1, <1>5, <1>6 DEF IInv, Ranges, Settles
<1>8. Places' /\ FlagsAgree' /\ Owners' /\ Stores' /\ Told' /\ Stops' = Stops
  <2>1. Places' /\ FlagsAgree' /\ Owners'
    BY <1>1 DEF IInv, Places, FlagsAgree, Owners, Runs, WillTell
  <2>2. Stores' /\ Stops' = Stops
    BY <1>1 DEF IInv, Stores, Stops
  <2>3. Told'
    BY <1>1 DEF IInv, Told, Swallowed, SwallowsTheFinish, At
  <2>4. QED
    BY <2>1, <2>2, <2>3
<1>9. Counts'
  BY <1>1, <1>2, <1>5, <1>8 DEF IInv, Counts, Finished, Performing
<1> HIDE DEF i
<1>10. ASSUME NEW j \in Items PROVE ItemOK(j)'
  <2>1. Reached = i /\ Reached' = i + 1
    BY <1>1, <1>2, <1>6 DEF Reached, i
  <2>2. CASE j = i
    <3>1. j < Reached' /\ ~(j >= Reached')
      BY <1>3, <2>1, <2>2, CopyJobAssumption DEF Items
    <3>2. Status(slots'[j]) # "Succeeded" /\ pc'["worker"] = "wind down"
      BY <1>1, <1>5, <2>2 DEF Settles
    <3>3. QED
      BY <1>5, <2>2, <3>1, <3>2 DEF ItemOK, Settles
  <2>3. CASE j # i
    <3>1. tx'[j] = tx[j] /\ slots'[j] = slots[j]
      BY <1>5, <2>3 DEF Settles
    <3>2. ((j < Reached) <=> (j < Reached')) /\ ((j >= Reached) <=> (j >= Reached'))
      BY <1>3, <2>1, <2>3, CopyJobAssumption DEF Items
    <3>3. ItemOK(j)
      BY DEF IInv
    <3>4. QED
      BY <1>1, <1>5, <3>1, <3>2, <3>3 DEF ItemOK
  <2>4. QED
    BY <2>2, <2>3
<1>11. Outcome'
  <2>1. (SomeCancelled => run.cancelled) /\ (run.cancelled => NotAll)
    BY <1>1 DEF IInv, Outcome
  <2>2. SomeCancelled' => run.cancelled
    <3>1. SUFFICES ASSUME NEW j \in Items, Status(slots'[j]) = "Cancelled" PROVE run.cancelled
      BY DEF SomeCancelled
    <3>2. CASE j = i
      BY <1>5, <3>1, <3>2 DEF Settles
    <3>3. CASE j # i
      BY <1>5, <2>1, <3>1, <3>3 DEF Settles, SomeCancelled
    <3>4. QED
      BY <3>2, <3>3
  <2>3. NotAll => NotAll'
    <3>1. SUFFICES ASSUME NEW j \in Items, j \notin ran \/ Status(slots[j]) \in {"Cancelled", "Failed"}
                   PROVE  NotAll'
      BY DEF NotAll
    <3>2. CASE j = i
      <4>1. Status(slots[j]) = "None"
        BY <1>4, <3>2, NoStatusYet DEF i
      <4>2. QED
        BY <1>5, <3>1, <4>1 DEF NotAll
    <3>3. CASE j # i
      BY <1>5, <3>1, <3>3 DEF NotAll, Settles
    <3>4. QED
      BY <3>2, <3>3
  <2>4. QED
    BY <1>1, <1>2, <1>6, <2>1, <2>2, <2>3 DEF Outcome
<1>12. QED
  BY <1>7, <1>8, <1>9, <1>10, <1>11 DEF IInv

LEMMA ConcludeIsSafe ==
  ASSUME IInv, Conclude
  PROVE  IInv'
<1>1. Ranges /\ Places /\ FlagsAgree /\ Owners /\ Stores /\ Counts /\ Told
  BY DEF IInv
<1> DEFINE to == IF run.cancelled THEN "stop" ELSE "finish"
           phase == IF run.cancelled THEN "TerminalCancelled" ELSE "Terminal"
<1>2. /\ UNCHANGED <<job, lock, tx, slots, ran, run, sweep, sawRunning, cameLate, notified, waited, promised>>
      /\ pc["worker"] = "wind down" /\ run.next > ItemCount
      /\ Goto("worker", to)
      /\ gate' = [gate EXCEPT !.startedItems = ItemCount, !.phase = phase]
  BY DEF Conclude, Go, At, batch, local, seen
<1>3. to \in {"stop", "finish"} /\ phase \in {"Terminal", "TerminalCancelled"}
      /\ (to = "stop" <=> phase = "TerminalCancelled") /\ (run.cancelled <=> phase = "TerminalCancelled")
  OBVIOUS
<1> HIDE DEF to, phase
<1>4. Moves("worker", "wind down", to)
  <2>1. to \in Steps
    BY <1>3 DEF Steps
  <2>2. QED
    BY <1>1, <1>2, <2>1, PcMoves, ThreadNames
<1>5. /\ gate' \in GateRange /\ gate'.phase = phase /\ gate'.startedItems = ItemCount
  <2>1. phase \in Phases
    BY <1>3 DEF Phases
  <2>2. QED
    BY <1>1, <1>2, <2>1, GateChanges
<1>6. /\ gate.phase = "CommitOwned" /\ pc["starter"] = "done" /\ ~job.isCompleted /\ notified = {}
      /\ ~job.executionFinished
  <2>1. gate.phase = "CommitOwned" /\ pc["starter"] = "done"
    BY <1>1, <1>2 DEF Owners, Performing, Places
  <2>2. QED
    BY <1>1, <1>2, <2>1 DEF FlagsAgree, Told, Finished
<1>7. /\ pc'["worker"] = to /\ pc'["starter"] = "done"
      /\ \A u \in Threads : u # "worker" => pc'[u] = pc[u]
  BY <1>4, <1>6, ThreadNames DEF Moves
<1>8. to \notin Holding \cup Performing /\ pc["worker"] \notin Holding /\ \A u \in Threads : pc[u] # "cancelling"
  BY <1>1, <1>2, <1>3, <1>6 DEF Holding, Performing, Owners
<1>9. Ranges'
  BY <1>1, <1>2, <1>5 DEF Ranges, GateRange, Phases
<1>10. Places'
  BY <1>1, <1>3, <1>4, <1>7, ThreadNames DEF Moves, Places, WorkerSteps
<1>11. FlagsAgree'
  <2>1. Runs /\ Runs' /\ WillTell
    BY <1>2, <1>3, <1>7 DEF Runs, WillTell, WorkerSteps, Performing
  <2>2. QED
    BY <1>1, <1>2, <1>3, <1>5, <1>6, <1>7, <2>1 DEF FlagsAgree
<1>12. Owners'
  <2>1. \A u \in Threads : pc'[u] \in Holding => pc'[u] = pc[u]
    BY <1>7, <1>8
  <2>2. lock # Free => pc'[lock] \in Holding \/ (lock = "starter" /\ pc'["starter"] \in Lingering)
    BY <1>1, <1>6, <1>7, <1>8 DEF Owners, Ranges, Lingering
  <2>3. pc'["starter"] \notin Lingering /\ \A u \in Threads : pc'[u] # "cancelling"
    BY <1>7, <1>8, <2>1 DEF Lingering, Holding
  <2>4. QED
    BY <1>1, <1>2, <1>3, <1>5, <1>7, <1>8, <2>1, <2>2, <2>3 DEF Owners
<1>13. Stores' /\ Stops' = Stops
  <2>1. \A u \in Threads : /\ pc'[u] = "storing" <=> pc[u] = "storing"
                           /\ pc'[u] = "clearing" <=> pc[u] = "clearing"
    BY <1>7, <1>8 DEF Holding
  <2>2. \A s \in Stoppers : pc'[s] = pc[s]
    BY <1>7, ThreadNames
  <2>3. gate'.phase \in Finished
    BY <1>3, <1>5 DEF Finished
  <2>4. QED
    BY <1>1, <1>2, <1>6, <1>7, <2>1, <2>2, <2>3 DEF Stores, Stops
<1>14. Counts'
  <2>1. ran \subseteq 1 .. ItemCount
    BY <1>1 DEF Ranges, Items
  <2>2. QED
    BY <1>1, <1>2, <1>3, <1>5, <1>7, <1>13, <2>1 DEF Counts, Finished, Performing
<1>15. \A i \in Items : ItemOK(i)'
  <2>1. run.next = ItemCount + 1
    <3>1. run.next > ItemCount
      BY <1>2
    <3>2. run.next \in 1 .. ItemCount + 1 /\ ItemCount \in Nat
      BY RunBounds
    <3>3. QED
      BY <3>1, <3>2
  <2>2. Reached' = Reached
    BY <1>3, <1>5, <1>6, <2>1 DEF Reached
  <2>3. QED
    BY <1>2, <1>3, <1>7, <2>2, ItemsKept DEF Performing
<1>16. Outcome'
  <2>1. (SomeCancelled => run.cancelled) /\ (run.cancelled => NotAll)
    BY <1>2 DEF IInv, Outcome
  <2>2. Stops => NotAll
    <3>1. SUFFICES ASSUME Stops PROVE NotAll
      OBVIOUS
    <3>2. promised < ItemCount /\ ran \subseteq 1 .. promised
      BY <1>1, <1>6, <3>1 DEF Counts
    <3>3. ItemCount \in Items /\ ItemCount \notin ran
      BY <3>2, RunBounds, CopyJobAssumption DEF Items
    <3>4. QED
      BY <3>3 DEF NotAll
  <2>3. QED
    BY <1>2, <1>3, <1>5, <1>7, <1>13, <2>1, <2>2 DEF Outcome, NotAll, SomeCancelled
<1>17. Told'
  <2>1. pc'["worker"] # "releasing"
    BY <1>3, <1>7
  <2>2. QED
    BY <1>1, <1>2, <1>6, <1>7, <2>1 DEF Told
<1>18. QED
  BY <1>9, <1>10, <1>11, <1>12, <1>14, <1>15, <1>16, <1>17, <1>13 DEF IInv

LEMMA DestroyIsSafe ==
  ASSUME IInv, Destroy
  PROVE  IInv'
<1>1. Ranges /\ Places /\ FlagsAgree /\ Owners /\ Stores /\ Counts /\ Told
  BY DEF IInv
<1>2. /\ UNCHANGED <<job, lock, ran, run, sweep, sawRunning, cameLate, notified, waited, promised>>
      /\ gate.phase = "Pending" /\ gate' = [gate EXCEPT !.phase = "Terminal", !.startedItems = ItemCount]
      /\ pc' = [u \in Threads |-> "destroyed"] /\ \A u \in Threads : pc[u] \in {"idle", "done"}
  BY DEF Destroy, local, seen
<1>3. PICK confirmed \in [Items -> BOOLEAN] :
        /\ tx' = [i \in Items |-> AbortResult("Aborted", confirmed[i])]
        /\ slots' = [i \in Items |-> MapResult(tx'[i], RemovesIt)]
  BY DEF Destroy
<1>4. /\ gate' \in GateRange /\ gate'.phase = "Terminal" /\ gate'.startedItems = ItemCount
  <2>1. "Terminal" \in Phases
    BY DEF Phases
  <2>2. QED
    BY <1>1, <1>2, <2>1, GateChanges
<1>5. /\ pc'["starter"] = "destroyed" /\ pc'["worker"] = "destroyed"
      /\ \A u \in Threads : pc'[u] = "destroyed"
      /\ pc["starter"] \in {"idle", "done"} /\ pc["worker"] \in {"idle", "done"}
      /\ pc' \in [Threads -> Steps]
  BY <1>2, ThreadNames DEF Steps
<1>6. /\ ~job.isStopped /\ ~job.isCompleted /\ notified = {} /\ ran = {}
  BY <1>1, <1>2 DEF FlagsAgree, Told, Counts, Finished
<1>7. lock = Free
  <2>1. \A u \in Threads : pc[u] \notin Holding \cup Lingering
    BY <1>2 DEF Holding, Lingering
  <2>2. QED
    BY <1>1, <1>5, <2>1 DEF Owners, Ranges, Lingering
<1>8. Ranges'
  BY <1>1, <1>2, <1>3, <1>4 DEF Ranges, GateRange, Phases
<1>9. Places'
  BY <1>5, ThreadNames DEF Places, StarterSteps, WorkerSteps, StopperSteps
<1>10. FlagsAgree'
  <2>1. ~Runs /\ ~Runs' /\ ~WillTell'
    BY <1>5 DEF Runs, WillTell, WorkerSteps, Performing
  <2>2. QED
    BY <1>1, <1>2, <1>4, <1>5, <1>6, <2>1 DEF FlagsAgree
<1>11. Owners'
  BY <1>2, <1>4, <1>5, <1>7 DEF Owners, Performing, Holding, Lingering
<1>12. Stores' /\ ~Stops'
  BY <1>2, <1>5, <1>6, ThreadNames DEF Stores, Stops
<1>13. Counts'
  BY <1>2, <1>4, <1>5, <1>6, <1>12 DEF Counts, Finished, Performing
<1>14. ASSUME NEW i \in Items
       PROVE  tx'[i] \in TxResults /\ slots'[i] = MapResult(tx'[i], RemovesIt) /\ Status(slots'[i]) \in {"None", "Failed"}
  <2>1. tx'[i] \in TxResults /\ tx'[i].failure \in {"Aborted", "ProviderFailure"}
    BY <1>3, AbortResults
  <2>2. slots'[i] = MapResult(tx'[i], RemovesIt)
    BY <1>3
  <2>3. QED
    BY <2>1, <2>2, MapFacts DEF StatusOf
<1>15. ASSUME NEW i \in Items PROVE ItemOK(i)'
  <2>1. i < Reached' /\ ~(i >= Reached')
    BY <1>4, CopyJobAssumption DEF Reached, Items
  <2>2. QED
    BY <1>5, <1>14, <2>1 DEF ItemOK, Performing
<1>16. Outcome'
  BY <1>4, <1>5, <1>14, <1>12 DEF Outcome, SomeCancelled
<1>17. Told'
  <2>1. ASSUME job.executionFinished PROVE Swallowed'
    <3>1. PICK s \in Stoppers : SwallowsTheFinish(s)
      BY <1>1, <1>6, <2>1 DEF Told, Swallowed
    <3>2. pc[s] \in {"idle", "done"}
      BY <1>2, ThreadNames
    <3>3. SwallowsTheFinish(s)'
      BY <1>2, <3>1, <3>2 DEF SwallowsTheFinish, At
    <3>4. QED
      BY <3>3 DEF Swallowed
  <2>2. QED
    BY <1>2, <1>5, <1>6, <2>1 DEF Told
<1>18. QED
  BY <1>8, <1>9, <1>10, <1>11, <1>13, <1>15, <1>16, <1>17, <1>12 DEF IInv

-----------------------------------------------------------------------------
(* Together.                                                                  *)

LEMMA FinishExecutionIsSafe ==
  ASSUME IInv, NEW t \in Runners, FinishExecution(t)
  PROVE  IInv'
BY ReadIsStoppedIsSafe, SetCompletedIsSafe, ResumeCompletedIsSafe, ClearIsRunningIsSafe, CallOnFinishIsSafe, ReleaseIsSafe
DEF FinishExecution

LEMMA StopperIsSafe ==
  ASSUME IInv, NEW s \in Stoppers, Stopper(s)
  PROVE  IInv'
<1>1. s \in Threads
  BY ThreadNames
<1>2. CASE ReadIsRunning(s)
  BY <1>2, ReadIsRunningIsSafe
<1>3. CASE StopJob(s)
  <2>1. Decider(s, "done") /\ At(s, "stop") /\ Decide(s, "done")
    BY <1>3 DEF Decider, StopJob
  <2>2. QED
    BY <2>1, DecideIsSafe
<1>4. CASE SweepItem(s)
  BY <1>1, <1>4, SweepItemIsSafe
<1>5. CASE SweepEnds(s, "storing")
  BY <1>1, <1>5, SweepEndsIsSafe
<1>6. CASE StoresTheStop(s, "stopped")
  BY <1>6, StoreStoppedIsSafe, ClearPausedIsSafe DEF StoresTheStop
<1>7. CASE ColdStopTells(s)
  BY <1>7, ColdStopTellsIsSafe
<1>8. QED
  BY <1>2, <1>3, <1>4, <1>5, <1>6, <1>7 DEF Stopper

LEMMA StarterIsSafe ==
  ASSUME IInv, Starter
  PROVE  IInv'
<1>1. "starter" \in Threads /\ "starter" \in Runners
  BY ThreadNames DEF Runners
<1>2. CASE SetCallbacks \/ Run \/ RecordStart \/ LaunchWorker \/ ResumeUnlaunched \/ StopUnlaunched
  BY <1>2, SetCallbacksIsSafe, RunIsSafe, RecordStartIsSafe, LaunchWorkerIsSafe, ResumeUnlaunchedIsSafe,
     StopUnlaunchedIsSafe
<1>3. CASE SweepItem("starter")
  BY <1>1, <1>3, SweepItemIsSafe
<1>4. CASE SweepEnds("starter", "finish")
  BY <1>1, <1>4, SweepEndsIsSafe
<1>5. CASE FinishExecution("starter")
  BY <1>1, <1>5, FinishExecutionIsSafe
<1>6. QED
  BY <1>2, <1>3, <1>4, <1>5 DEF Starter

LEMMA WorkerIsSafe ==
  ASSUME IInv, Worker
  PROVE  IInv'
<1>1. "worker" \in Threads /\ "worker" \in Runners
  BY ThreadNames DEF Runners
<1>2. CASE Execute \/ TakeGate \/ BlockIfPaused \/ Claim \/ CommitBegins
  BY <1>2, ExecuteIsSafe, TakeGateIsSafe, BlockIfPausedIsSafe, ClaimIsSafe, CommitBeginsIsSafe
<1>3. CASE CommitEnds \/ BatchEnds \/ WindDown \/ Conclude
  BY <1>3, CommitEndsIsSafe, BatchEndsIsSafe, WindDownIsSafe, ConcludeIsSafe
<1>4. CASE StopItself
  <2>1. Decider("worker", "finish") /\ At("worker", "stop") /\ Decide("worker", "finish")
    BY <1>4 DEF Decider, StopItself
  <2>2. QED
    BY <2>1, DecideIsSafe
<1>5. CASE SweepItem("worker")
  BY <1>1, <1>5, SweepItemIsSafe
<1>6. CASE SweepEnds("worker", "storing")
  BY <1>1, <1>6, SweepEndsIsSafe
<1>7. CASE StoresTheStop("worker", "finish")
  BY <1>7, StoreStoppedIsSafe, ClearPausedIsSafe DEF StoresTheStop
<1>8. CASE FinishExecution("worker")
  BY <1>1, <1>8, FinishExecutionIsSafe
<1>9. QED
  BY <1>2, <1>3, <1>4, <1>5, <1>6, <1>7, <1>8 DEF Worker

LEMMA NextIsSafe ==
  ASSUME IInv, Next
  PROVE  IInv'
<1>1. CASE Starter \/ Worker
  BY <1>1, StarterIsSafe, WorkerIsSafe
<1>2. CASE LaunchFails \/ ExecuteThrows \/ PerformThrows
  BY <1>2, LaunchFailsIsSafe, ExecuteThrowsIsSafe, PerformThrowsIsSafe
<1>3. CASE \E s \in Stoppers : Stopper(s)
  BY <1>3, StopperIsSafe
<1>4. CASE Pause \/ Resume \/ Wait \/ Destroy
  BY <1>4, PauseIsSafe, ResumeIsSafe, WaitIsSafe, DestroyIsSafe
<1>5. QED
  BY <1>1, <1>2, <1>3, <1>4 DEF Next

LEMMA InitIsSafe == Init => IInv
<1> SUFFICES ASSUME Init PROVE IInv
  OBVIOUS
<1>1. ItemCount \in Nat \ {0}
  BY CopyJobAssumption
<1>2. /\ gate.phase = "Pending" /\ gate.startedItems = 0 /\ ~gate.stopAccepted
      /\ run = [next |-> 1, cancelled |-> FALSE] /\ ran = {} /\ promised = ItemCount
      /\ notified = {} /\ lock = Free /\ sweep = 1 /\ waited = "no"
  BY DEF Init
<1>3. /\ job.wasStarted = FALSE /\ job.isRunning = FALSE /\ job.isPaused = FALSE
      /\ job.isCompleted = FALSE /\ job.isStopped = FALSE
      /\ job.executionFinished = FALSE /\ job.onFinish = FALSE
  BY DEF Init
<1>4. /\ \A t \in Threads : pc[t] = "idle"
      /\ pc["starter"] = "idle" /\ pc["worker"] = "idle" /\ pc \in [Threads -> Steps]
  BY ThreadNames DEF Init, Steps
<1>5. Ranges
  <2>1. job \in [Flags -> BOOLEAN]
    <3>1. DOMAIN job = Flags /\ job = [f \in DOMAIN job |-> job[f]]
      BY DEF Init, Flags
    <3>2. \A f \in Flags : job[f] \in BOOLEAN
      BY <1>3 DEF Flags
    <3>3. QED
      BY <3>1, <3>2
  <2>2. gate \in [phase : {"Pending", "CommitOwned", "StopOwned", "TerminalCancelled", "Terminal"},
                  startedItems : 0 .. ItemCount, stopAccepted : BOOLEAN]
    BY <1>1 DEF Init
  <2>3. run \in [next : 1 .. ItemCount + 1, cancelled : BOOLEAN] /\ sweep \in 1 .. ItemCount + 1
        /\ promised \in 0 .. ItemCount
    BY <1>1, <1>2
  <2>4. tx = [i \in Items |-> tx[i]] /\ DOMAIN tx = Items /\ DOMAIN slots = Items
        /\ sawRunning \in [Stoppers -> BOOLEAN] /\ cameLate \subseteq Stoppers
    BY DEF Init
  <2>5. QED
    BY <1>2, <2>1, <2>2, <2>3, <2>4 DEF Ranges
<1>6. Places
  BY <1>4, ThreadNames DEF Places, StarterSteps, WorkerSteps, StopperSteps
<1>7. FlagsAgree
  <2>1. ~Runs /\ ~WillTell
    BY <1>4 DEF Runs, WillTell
  <2>2. QED
    BY <1>2, <1>3, <1>4, <2>1 DEF FlagsAgree
<1>8. Owners /\ Stores /\ ~Stops
  <2>1. \A s \in Stoppers : s \notin cameLate /\ s \in Threads
    BY ThreadNames DEF Init
  <2>2. QED
    BY <1>2, <1>3, <1>4, <2>1 DEF Owners, Stores, Stops, Performing, Holding, Lingering
<1>9. Counts
  BY <1>2, <1>4, <1>8 DEF Counts, Performing, Finished
<1>10. ASSUME NEW i \in Items PROVE ItemOK(i)
  <2>1. i >= Reached /\ ~(i < Reached)
    BY <1>1, <1>2 DEF Reached, Items
  <2>2. tx[i] = PendingTx /\ slots[i] = Unresolved
    BY DEF Init
  <2>3. QED
    BY <1>4, <2>1, <2>2, NoStatusYet DEF ItemOK
<1>11. Outcome
  BY <1>2, <1>4 DEF Outcome
<1>12. Told
  BY <1>2, <1>3, <1>4 DEF Told
<1>13. QED
  BY <1>5, <1>6, <1>7, <1>8, <1>9, <1>10, <1>11, <1>12 DEF IInv

(* The invariant holds of the batch, its job and everybody who starts, stops, *)
(* pauses, waits for or destroys it.                                          *)
THEOREM JobIsInOrder == Spec => []IInv
<1>1. ASSUME IInv, [Next]_vars PROVE IInv'
  <2>1. CASE Next
    BY <1>1, <2>1, NextIsSafe
  <2>2. CASE UNCHANGED vars
    <3>1. UNCHANGED <<job, lock, gate, tx, slots, ran, pc, run, sweep, sawRunning, cameLate,
                     notified, waited, promised>>
      BY <2>2 DEF vars, batch, local, seen
    <3>2. Ranges' /\ Places' /\ FlagsAgree' /\ Owners' /\ Stores' /\ Told' /\ Stops' = Stops
      <4>1. Ranges'
        BY <1>1, <3>1 DEF IInv, Ranges
      <4>2. Places' /\ FlagsAgree'
        BY <1>1, <3>1 DEF IInv, Places, FlagsAgree, Runs, WillTell
      <4>3. Owners' /\ Stores' /\ Stops' = Stops
        BY <1>1, <3>1 DEF IInv, Owners, Stores, Stops
      <4>4. Told'
        BY <1>1, <3>1 DEF IInv, Told, Swallowed, SwallowsTheFinish, At
      <4>5. QED
        BY <4>1, <4>2, <4>3, <4>4
    <3>3. Counts' /\ (\A i \in Items : ItemOK(i)') /\ Outcome'
      BY <1>1, <3>1, <3>2, DataKept
    <3>4. QED
      BY <3>2, <3>3 DEF IInv
  <2>3. QED
    BY <1>1, <2>1, <2>2
<1>2. QED
  BY InitIsSafe, <1>1, PTL DEF Spec

-----------------------------------------------------------------------------
(* What follows for the properties.                                           *)

LEMMA JobIsTyped == IInv => TypeOK
<1> SUFFICES ASSUME IInv PROVE TypeOK
  OBVIOUS
<1>1. Ranges /\ Places
  BY DEF IInv
<1>2. ASSUME NEW i \in Items PROVE tx[i] \in CommitResults \cup {PendingTx, Committing}
  <2>1. ItemOK(i) /\ (i < Reached \/ i >= Reached)
    BY <1>1, CopyJobAssumption DEF IInv, Items, Reached, Ranges
  <2>2. QED
    BY <2>1 DEF ItemOK, TxResults
<1>3. tx \in [Items -> CommitResults \cup {PendingTx, Committing}]
  BY <1>1, <1>2 DEF Ranges
<1>4. QED
  BY <1>1, <1>3 DEF TypeOK, Ranges, Places

(* The state of the job, its threads and its items keeps to its ranges.       *)
THEOREM JobTypes == Spec => []TypeOK
BY JobIsInOrder, JobIsTyped, PTL

(* An item whose slot is filled, and every item of an operation that is over, *)
(* ended in a transaction's result.                                           *)
LEMMA FilledSlots ==
  ASSUME IInv, NEW i \in Items, slots[i] # Unresolved \/ gate.phase \in Finished
  PROVE  tx[i] \in TxResults /\ slots[i] = MapResult(tx[i], RemovesIt)
<1>1. ItemOK(i) /\ (i < Reached \/ i >= Reached)
  BY CopyJobAssumption DEF IInv, Items, Reached, Ranges
<1>2. gate.phase \in Finished => i < Reached
  BY CopyJobAssumption DEF Items, Reached, Finished
<1>3. QED
  BY <1>1, <1>2 DEF ItemOK

(* Whoever tells first that the operation is over, every item has its outcome *)
(* by then, so the finalizer never finds evidence still pending.              *)
THEOREM NobodyTellsTooEarly == Spec => []FinishMeansSettled
<1>1. IInv => FinishMeansSettled
  <2>1. SUFFICES ASSUME IInv, notified # {}, NEW i \in Items PROVE slots[i] # Unresolved
    BY DEF FinishMeansSettled, Settled
  <2>2. gate.phase \in Finished
    BY <2>1 DEF IInv, Told
  <2>3. QED
    BY <2>1, <2>2, FilledSlots, MapFacts
<1>2. QED
  BY <1>1, JobIsInOrder, PTL

(* An operation whose execution finished has told so, unless its run ended,   *)
(* still paused, between the two stores of a stop; and it was never said to   *)
(* be both completed and stopped.                                             *)
THEOREM EveryFinishIsTold == Spec => []FinishIsTold
<1>1. IInv => FinishIsTold
  BY DEF IInv, Told, FlagsAgree, FinishIsTold, Swallowed
<1>2. QED
  BY <1>1, JobIsInOrder, PTL

(* No item that had not begun when a stop was accepted reaches its provider.  *)
THEOREM AcceptedStopsAreKept == Spec => []StopIsKept
<1>1. IInv => StopIsKept
  BY DEF IInv, Counts, StopIsKept
<1>2. QED
  BY <1>1, JobIsInOrder, PTL

(* A published result is the one its transaction ended with.                  *)
THEOREM SlotsAreTrue == Spec => []SlotsTellTheTruth
<1>1. IInv => SlotsTellTheTruth
  <2>1. SUFFICES ASSUME IInv, NEW i \in Items, slots[i] # Unresolved
                 PROVE  tx[i] \notin {PendingTx, Committing} /\ slots[i] = MapResult(tx[i], RemovesIt)
    BY DEF SlotsTellTheTruth
  <2>2. QED
    BY <2>1, FilledSlots, PendingIsNoResult DEF TxResults
<1>2. QED
  BY <1>1, JobIsInOrder, PTL

(* What ReadEvidence finds in slots that hold transactions' results.          *)
LEMMA SettledEvidence ==
  ASSUME Settled, \A i \in Items : tx[i] \in TxResults /\ slots[i] = MapResult(tx[i], RemovesIt)
  PROVE  \/ /\ Evidence = NoEvidence("Inconsistent") /\ EvidenceState = "Completed"
            /\ \E i \in Items : slots[i] = NonExecutionTerminal
         \/ /\ Evidence = [state |-> EvidenceState, results |-> [i \in Reportable |-> slots[i]]]
            /\ EvidenceState = "Completed" => Reportable = Items
<1>1. ASSUME NEW i \in Items
      PROVE  slots[i] # InconsistentResult /\ slots[i] # Unresolved
             /\ (HasResult(slots[i]) \/ slots[i] = NonExecutionTerminal)
  BY <1>1, MapFacts DEF HasResult, Refused
<1>2. CASE Reportable = {} \/ (EvidenceState = "Completed" /\ Reportable # Items)
  <2>1. Evidence = NoEvidence("Inconsistent")
    BY <1>1, <1>2 DEF Evidence
  <2>2. EvidenceState = "Completed"
    <3>1. SUFFICES ASSUME Reportable = {} PROVE EvidenceState = "Completed"
      BY <1>2
    <3>2. ItemsThat("Failed") \subseteq Reportable
      BY DEF ItemsThat, Reportable
    <3>3. EvidenceState # "Failed"
      BY <3>1, <3>2 DEF EvidenceState
    <3>4. ItemsThat("Cancelled") \subseteq Reportable
      BY <3>3 DEF ItemsThat, Reportable
    <3>5. QED
      BY <3>1, <3>3, <3>4 DEF EvidenceState
  <2>3. PICK i \in Items : i \notin Reportable
    <3>1. 1 \in Items
      BY CopyJobAssumption DEF Items
    <3>2. Reportable \subseteq Items
      BY DEF Reportable
    <3>3. QED
      BY <1>2, <3>1, <3>2
  <2>4. ~HasResult(slots[i])
    BY <2>2, <2>3 DEF Reportable
  <2>5. QED
    BY <1>1, <2>1, <2>2, <2>4
<1>3. CASE ~(Reportable = {} \/ (EvidenceState = "Completed" /\ Reportable # Items))
  <2>1. Evidence = [state |-> EvidenceState, results |-> [i \in Reportable |-> slots[i]]]
    BY <1>1, <1>3 DEF Evidence
  <2>2. QED
    BY <1>3, <2>1
<1>4. QED
  BY <1>2, <1>3

LEMMA EvidenceStates ==
  /\ EvidenceState \in {"Failed", "Cancelled", "Completed"}
  /\ EvidenceState = "Failed" => ItemsThat("Failed") # {}
  /\ EvidenceState = "Cancelled" => ItemsThat("Cancelled") # {} /\ ItemsThat("Failed") = {}
  /\ EvidenceState = "Completed" => ItemsThat("Cancelled") = {} /\ ItemsThat("Failed") = {}
BY DEF EvidenceState

LEMMA NoEvidenceIsNoEntry ==
  ASSUME NEW state, NEW results, NEW why
  PROVE  /\ [state |-> state, results |-> results] # NoEvidence(why)
         /\ "state" \notin DOMAIN NoEvidence(why)
<1>1. "state" \in DOMAIN [state |-> state, results |-> results] /\ "state" \notin DOMAIN NoEvidence(why)
  BY DEF NoEvidence
<1>2. QED
  BY <1>1

(* A run reported as completed was never stopped, one reported as cancelled   *)
(* was, whatever raced with it.                                               *)
THEOREM EvidenceIsTrue == Spec => []EvidenceAgreesWithState
<1>1. ASSUME IInv, notified # {}, "state" \in DOMAIN Evidence
      PROVE  /\ Evidence.state = "Completed" => notified = {"Completed"}
             /\ Evidence.state = "Cancelled" => notified = {"Stopped"}
  <2>1. /\ gate.phase \in Finished /\ notified \subseteq {"Completed", "Stopped"}
        /\ ~job.isStopped => "Stopped" \notin notified
        /\ ~job.isCompleted => "Completed" \notin notified
        /\ ~(job.isStopped /\ job.isCompleted)
    BY <1>1 DEF IInv, Told, Ranges, FlagsAgree
  <2>2. \A i \in Items : tx[i] \in TxResults /\ slots[i] = MapResult(tx[i], RemovesIt)
    BY <1>1, <2>1, FilledSlots
  <2>3. Settled
    BY <2>2, MapFacts DEF Settled
  <2>4. Evidence.state = EvidenceState /\ (EvidenceState = "Completed" => Reportable = Items)
    <3>1. Evidence # NoEvidence("Inconsistent")
      BY <1>1, NoEvidenceIsNoEntry
    <3>2. QED
      BY <2>2, <2>3, <3>1, SettledEvidence
  <2>5. CASE EvidenceState = "Completed"
    <3>1. \A i \in Items : HasResult(slots[i])
      BY <2>4, <2>5 DEF Reportable
    <3>2. \A i \in Items : slots[i].status \notin {"Failed", "Cancelled"}
      BY <2>5, <3>1, EvidenceStates DEF ItemsThat
    <3>3. ASSUME NEW i \in Items PROVE Status(slots[i]) = "Succeeded"
      <4>1. Status(slots[i]) = slots[i].status /\ Status(slots[i]) # "None"
        <5>1. tx[i].failure # "Aborted"
          <6>1. ~HasResult(NonExecutionTerminal)
            BY DEF HasResult, Refused
          <6>2. QED
            BY <2>2, <3>1, <6>1, MapFacts
        <5>2. Status(slots[i]) = StatusOf(tx[i])
          BY <2>2, <5>1, MapFacts
        <5>3. QED
          BY <3>1, <5>2 DEF Status, StatusOf
      <4>2. tx[i].failure # "Aborted" => Status(slots[i]) \in {"Succeeded", "Cancelled", "Failed"}
        BY <2>2, MapFacts DEF StatusOf
      <4>3. tx[i].failure = "Aborted" => Status(slots[i]) = "None"
        BY <2>2, MapFacts
      <4>4. QED
        BY <3>2, <4>1, <4>2, <4>3
    <3>4. ~NotAll
      BY <1>1, <3>3 DEF NotAll, IInv, ItemOK
    <3>5. ~job.isStopped
      BY <1>1, <2>1, <3>4 DEF IInv, Outcome, Finished, Stops
    <3>6. QED
      BY <1>1, <2>1, <2>4, <2>5, <3>5
  <2>6. CASE EvidenceState = "Cancelled"
    <3>1. SomeCancelled
      BY <2>6, EvidenceStates DEF ItemsThat, SomeCancelled, Status
    <3>2. ~job.isCompleted
      <4>1. CASE gate.phase = "Terminal"
        BY <1>1, <2>1, <3>1, <4>1 DEF IInv, Outcome, Stores, Stops
      <4>2. CASE gate.phase = "TerminalCancelled"
        BY <1>1, <2>1, <4>2 DEF IInv, Owners, FlagsAgree
      <4>3. QED
        BY <2>1, <4>1, <4>2 DEF Finished
    <3>3. QED
      BY <1>1, <2>1, <2>4, <2>6, <3>2
  <2>7. QED
    BY <2>4, <2>5, <2>6
<1>2. IInv => EvidenceAgreesWithState
  BY <1>1 DEF EvidenceAgreesWithState
<1>3. QED
  BY <1>2, JobIsInOrder, PTL

(* Settled evidence is an entry the journal accepts; it is refused only when  *)
(* an item was aborted unexecuted and none failed or was cancelled.           *)
THEOREM EvidenceIsAccepted == Spec => []EvidenceIsJournalable
<1>1. ASSUME IInv, Settled
      PROVE  IF Evidence = NoEvidence("Inconsistent")
             THEN /\ \E i \in Items : slots[i] = NonExecutionTerminal
                  /\ ItemsThat("Failed") \cup ItemsThat("Cancelled") = {}
             ELSE JournalAccepts(Evidence)
  <2>1. \A i \in Items : tx[i] \in TxResults /\ slots[i] = MapResult(tx[i], RemovesIt)
    BY <1>1, FilledSlots DEF Settled
  <2>2. CASE /\ Evidence = NoEvidence("Inconsistent") /\ EvidenceState = "Completed"
             /\ \E i \in Items : slots[i] = NonExecutionTerminal
    BY <2>2, EvidenceStates
  <2>3. CASE /\ Evidence = [state |-> EvidenceState, results |-> [i \in Reportable |-> slots[i]]]
             /\ EvidenceState = "Completed" => Reportable = Items
    <3>1. Evidence # NoEvidence("Inconsistent")
      BY <2>3, NoEvidenceIsNoEntry
    <3>2. /\ Evidence.state = EvidenceState /\ DOMAIN Evidence.results = Reportable
          /\ \A i \in Reportable : Evidence.results[i] = slots[i]
      BY <2>3
    <3>3. ASSUME NEW i \in Reportable PROVE i \in Items /\ HasResult(slots[i])
      BY DEF Reportable
    <3>4. ASSUME NEW i \in Reportable PROVE ValidItemResult(Type, Evidence.results[i])
      <4>1. i \in Items /\ tx[i] \in TxResults /\ slots[i] = MapResult(tx[i], RemovesIt)
        BY <2>1, <3>3
      <4>2. tx[i].failure # "Aborted"
        <5>1. ~HasResult(NonExecutionTerminal)
          BY DEF HasResult, Refused
        <5>2. QED
          BY <3>3, <4>1, <5>1, MapFacts
      <4>3. Evidence.results[i] = ItemOf(tx[i], RemovesSource(Type))
        BY <3>2, <4>1, <4>2, MapFacts DEF RemovesIt
      <4>4. tx[i] \in CommitResults /\ ResultIsValid(tx[i])
        BY <4>1 DEF TxResults
      <4>5. ValidItemResult(Type, ItemOf(tx[i], RemovesSource(Type)))
        BY <4>2, <4>4, ItemIsValid, CopyJobAssumption
      <4>6. QED
        BY <4>3, <4>5
    <3>5. ASSUME NEW status
          PROVE  (\E i \in DOMAIN Evidence.results : Evidence.results[i].status = status)
                   <=> ItemsThat(status) \cap Reportable # {}
      BY <3>2, <3>3 DEF ItemsThat
    <3>6. EvidenceState = "Failed" => /\ ItemsThat("Failed") \cap Reportable # {}
                                      /\ ItemsThat("Cancelled") \cap Reportable = {}
      <4>1. ItemsThat("Failed") \subseteq Reportable
        BY DEF ItemsThat, Reportable
      <4>2. QED
        BY <4>1, EvidenceStates DEF Reportable
    <3>7. EvidenceState = "Cancelled" => /\ ItemsThat("Cancelled") \cap Reportable # {}
                                         /\ ItemsThat("Failed") \cap Reportable = {}
      <4>1. EvidenceState = "Cancelled" => ItemsThat("Cancelled") \subseteq Reportable
        BY DEF ItemsThat, Reportable
      <4>2. QED
        BY <4>1, EvidenceStates
    <3>8. JournalAccepts(Evidence)
      BY <2>3, <3>2, <3>4, <3>5, <3>6, <3>7, EvidenceStates DEF JournalAccepts
    <3>9. QED
      BY <3>1, <3>8
  <2>4. QED
    BY <1>1, <2>1, <2>2, <2>3, SettledEvidence
<1>2. IInv => EvidenceIsJournalable
  BY <1>1 DEF EvidenceIsJournalable
<1>3. QED
  BY <1>2, JobIsInOrder, PTL
==============================================================================

