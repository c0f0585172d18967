------------------------------ MODULE CopyJob ------------------------------
(***************************************************************************)
(* One reviewed operation in execution: the generic job (Job.cpp,          *)
(* Operation.mm) and the conditional copy, move or delete of a batch of    *)
(* items that runs in it (ProviderConditionalCopyOperation.cpp).           *)
(*                                                                         *)
(* The starter is the pool thread that calls Operation::Start, the worker  *)
(* the thread the job launches, the stoppers any threads that call         *)
(* Operation::Stop, and someone may pause and resume at any time.          *)
(*                                                                         *)
(* m_TransitionMutex is lock, because a thread keeps it over many steps.   *)
(* m_Gate, m_FinishMutex, m_CallbackLock, the evidence mutex and the       *)
(* transaction's mutex guard single steps.  m_StateMutex is held over many *)
(* by a thread that stops or completes the job, always under               *)
(* m_TransitionMutex.  The flags are atomic, and the end of the run and    *)
(* Operation::State read them under neither: each store is its own step.   *)
(*                                                                         *)
(* A transaction is Pending, Committing or holds its cached result; module *)
(* Transaction is the detailed one.  Statistics, titles, item reports and  *)
(* the dialogs of other operations are left out.                           *)
(***************************************************************************)
EXTENDS ConditionalCommit, FiniteSets

CONSTANTS
  ItemCount,  \* number of reviewed items of the batch
  Type,       \* plan type of the batch
  Stoppers,   \* threads that each call Operation::Stop once
  Answers     \* what a provider's commit handler may return

ASSUME CopyJobAssumption ==
  /\ ItemCount \in Nat \ {0}
  /\ Type \in PlanTypes
  /\ Answers \subseteq CommitResults
  /\ Stoppers \cap {"starter", "worker", "free"} = {} \* three kinds of threads, and nobody

Items   == 1 .. ItemCount
Runners == {"starter", "worker"}
Threads == Runners \cup Stoppers

VARIABLES
  job,         \* the flags of the Job
  lock,        \* owner of Job::m_TransitionMutex
  gate,        \* m_GatePhase, m_StartedItems, m_StopAccepted
  tx,          \* each item's transaction
  slots,       \* each item's slot of the terminal state
  pc,          \* where each thread is
  run,         \* Perform's locals: the next item and why the run ended
  sweep,       \* position of the thread in CancelAllItems
  sawRunning,  \* what each stopper read before it stopped the job
  cameLate,    \* history: stoppers that cleared a pause only after the run had ended
  notified,    \* finish notifications observers received
  waited,      \* how Operation::Wait returned to its caller
  ran,         \* history: items whose commit handler ran
  promised     \* history: items begun when a stop was first accepted

batch == <<tx, slots, ran>>
local == <<run, sweep, sawRunning, cameLate>>
seen  == <<notified, waited, promised>>
vars  == <<job, lock, gate, batch, pc, local, seen>>

Free       == "free"
PendingTx  == [tx |-> "Pending"]
Committing == [tx |-> "Committing"]
Unresolved == [slot |-> "Unresolved"]

RemovesIt == RemovesSource(Type)

Init ==
  /\ job = [wasStarted |-> FALSE, isRunning |-> FALSE, isPaused |-> FALSE, isCompleted |-> FALSE,
            isStopped |-> FALSE, executionFinished |-> FALSE, onFinish |-> FALSE]
  /\ lock = Free
  /\ gate = [phase |-> "Pending", startedItems |-> 0, stopAccepted |-> FALSE]
  /\ tx = [i \in Items |-> PendingTx]
  /\ slots = [i \in Items |-> Unresolved]
  /\ pc = [t \in Threads |-> "idle"]
  /\ run = [next |-> 1, cancelled |-> FALSE]
  /\ sweep = 1
  /\ sawRunning = [s \in Stoppers |-> FALSE]
  /\ cameLate = {}
  /\ notified = {} /\ waited = "no"
  /\ ran = {} /\ promised = ItemCount

At(t, step)    == pc[t] = step
Goto(t, step)  == pc' = [pc EXCEPT ![t] = step]
Go(t, from, to) == At(t, from) /\ Goto(t, to)
CanLock(t)     == lock \in {Free, t}

-----------------------------------------------------------------------------
(* Evidence: the first publication for a slot wins.  A slot that was refused *)
(* a mapping is resolved and holds no result.                                *)

Publish(i, r) == slots' = [slots EXCEPT ![i] = IF @ = Unresolved THEN MapResult(r, RemovesIt) ELSE @]

HasResult(slot) == slot \notin Refused \cup {Unresolved}
ItemsThat(status) == {i \in Items : HasResult(slots[i]) /\ slots[i].status = status}
Status(slot) == IF HasResult(slot) THEN slot.status ELSE "None"

NoEvidence(why) == [evidence |-> why]

EvidenceState == IF ItemsThat("Failed") # {} THEN "Failed"
                 ELSE IF ItemsThat("Cancelled") # {} THEN "Cancelled" ELSE "Completed"

\* mutant: cancelled items stay next to a failed one
ReportEverything == {i \in Items : HasResult(slots[i])}

Reportable == {i \in Items : HasResult(slots[i])}
                 \ (IF EvidenceState = "Failed" THEN ItemsThat("Cancelled") ELSE {})

(* ReadEvidence: what the finalizer will ask the journal to record. *)
Evidence ==
  IF \E i \in Items : slots[i] = InconsistentResult THEN NoEvidence("Inconsistent")
  ELSE IF \E i \in Items : slots[i] = Unresolved THEN NoEvidence("Pending")
  ELSE IF Reportable = {} \/ (EvidenceState = "Completed" /\ Reportable # Items)
  THEN NoEvidence("Inconsistent")
  ELSE [state |-> EvidenceState, results |-> [i \in Reportable |-> slots[i]]]

(* A call on an item's transaction that ends at once: it settles a pending   *)
(* one and is told what stands of any other.                                 *)
Settle(i, r) ==
  /\ tx' = [tx EXCEPT ![i] = IF @ = PendingTx THEN r ELSE @]
  /\ Publish(i, IF tx[i] = PendingTx THEN r ELSE IF tx[i] = Committing THEN Unknown ELSE tx[i])
  /\ UNCHANGED ran

CancelItem(i)  == \E confirmed \in BOOLEAN : Settle(i, AbortResult("Cancelled", confirmed))
AbandonItem(i) == \E confirmed \in BOOLEAN : Settle(i, AbortResult("Aborted", confirmed))

-----------------------------------------------------------------------------
(* Operation::State and JobFinished.                                        *)

State == IF job.isPaused THEN "Paused"
         ELSE IF job.isRunning THEN "Running"
         ELSE IF job.isCompleted THEN "Completed"
         ELSE IF job.isStopped THEN "Stopped" ELSE "Cold"

JobFinished == notified' = notified \cup ({State} \cap {"Completed", "Stopped"})

-----------------------------------------------------------------------------
(* Job::Stop under the locks: the gate decides, the items of a job nobody    *)
(* began are cancelled, and the two flags are stored one after the other.    *)

Accept(t) ==
  /\ lock' = t
  /\ promised' = IF gate.startedItems < promised THEN gate.startedItems ELSE promised
  /\ Goto(t, "storing")
  /\ UNCHANGED sweep

StopAfterTheRun(t) ==
  /\ gate.phase = "TerminalCancelled"
  /\ gate' = [gate EXCEPT !.phase = "Terminal"]
  /\ Accept(t)

SweepDuringTheRun(t) == \* mutant: the stopper cancels the items the worker owns
  /\ gate.phase = "CommitOwned" /\ gate.startedItems < ItemCount
  /\ gate' = [gate EXCEPT !.phase = "StopOwned"]
  /\ lock' = t /\ sweep' = 1
  /\ Goto(t, "cancelling")
  /\ UNCHANGED promised

StopDuringTheRun(t) ==
  /\ gate.phase = "CommitOwned" /\ gate.startedItems < ItemCount
  /\ gate' = [gate EXCEPT !.stopAccepted = TRUE]
  /\ Accept(t)

StopBeforeTheRun(t) ==
  /\ gate.phase = "Pending"
  /\ gate' = [gate EXCEPT !.phase = "StopOwned"]
  /\ lock' = t /\ sweep' = 1
  /\ Goto(t, "cancelling")
  /\ UNCHANGED promised

StopRefused(t, else) ==
  /\ \/ job.isStopped \/ job.isCompleted
     \/ gate.phase = "Terminal"
     \/ gate.phase = "CommitOwned" /\ gate.startedItems = ItemCount
  /\ Goto(t, else)
  /\ UNCHANGED <<gate, lock, sweep, promised>>

Decide(t, else) ==
  /\ lock = Free
  /\ \/ /\ ~job.isStopped /\ ~job.isCompleted
        /\ StopAfterTheRun(t) \/ StopDuringTheRun(t) \/ StopBeforeTheRun(t)
     \/ StopRefused(t, else)
  /\ UNCHANGED <<job, batch, run, sawRunning, cameLate, notified, waited>>

SweepItem(t) ==
  /\ At(t, "cancelling") /\ sweep <= ItemCount
  /\ CancelItem(sweep)
  /\ sweep' = sweep + 1
  /\ UNCHANGED <<job, lock, gate, pc, run, sawRunning, cameLate, seen>>

(* The sweep is over, the locks are still held. *)
SweepEnds(t, then) ==
  /\ sweep > ItemCount
  /\ Go(t, "cancelling", then)
  /\ gate' = [gate EXCEPT !.phase = "Terminal", !.startedItems = ItemCount]
  /\ promised' = 0
  /\ UNCHANGED <<job, lock, batch, local, notified, waited>>

StoreStopped(t) ==
  /\ Go(t, "storing", "clearing")
  /\ job' = [job EXCEPT !.isStopped = TRUE]
  /\ UNCHANGED <<lock, gate, batch, local, seen>>

ClearPaused(t, then) ==
  /\ Go(t, "clearing", then)
  /\ job' = [job EXCEPT !.isPaused = FALSE]
  /\ lock' = Free
  /\ cameLate' = IF t \in Stoppers /\ job.isPaused /\ ~job.isRunning THEN cameLate \cup {t} ELSE cameLate
  /\ UNCHANGED <<gate, batch, run, sweep, sawRunning, seen>>

StoresTheStop(t, then) == StoreStopped(t) \/ ClearPaused(t, then)

-----------------------------------------------------------------------------
(* Operation::Stop on a thread of its own.                                  *)

ReadIsRunning(s) ==
  /\ Go(s, "idle", "stop")
  /\ sawRunning' = [sawRunning EXCEPT ![s] = job.isRunning]
  /\ UNCHANGED <<job, lock, gate, batch, run, sweep, cameLate, seen>>

StopJob(s) == At(s, "stop") /\ Decide(s, "done")

(* Nobody was running when the stop began, so no worker will tell. *)
ColdStopTells(s) ==
  /\ Go(s, "stopped", "done")
  /\ IF sawRunning[s] THEN UNCHANGED notified ELSE JobFinished
  /\ UNCHANGED <<job, lock, gate, batch, local, waited, promised>>

Stopper(s) ==
  \/ ReadIsRunning(s) \/ StopJob(s) \/ SweepItem(s) \/ SweepEnds(s, "storing")
  \/ StoresTheStop(s, "stopped") \/ ColdStopTells(s)

-----------------------------------------------------------------------------
(* Pause, Resume and Wait on any thread.                                    *)

Alive == ~At("starter", "destroyed")

Pause ==
  /\ Alive /\ lock = Free
  /\ ~job.isPaused /\ ~job.isCompleted /\ ~job.isStopped
  /\ job' = [job EXCEPT !.isPaused = TRUE]
  /\ UNCHANGED <<lock, gate, batch, pc, local, seen>>

Resume ==
  /\ Alive /\ lock = Free /\ job.isPaused
  /\ job' = [job EXCEPT !.isPaused = FALSE]
  /\ UNCHANGED <<lock, gate, batch, pc, local, seen>>

Wait ==
  /\ Alive /\ waited = "no" /\ ~At("starter", "start")
  /\ \/ ~job.wasStarted /\ waited' = "cold"
     \/ job.executionFinished /\ waited' = "finished"
  /\ UNCHANGED <<job, lock, gate, batch, pc, local, notified, promised>>

-----------------------------------------------------------------------------
(* FinishExecution, on the worker or on the starter whose launch failed.    *)

ReadIsStopped(t) ==
  /\ Go(t, "finish", IF job.isStopped THEN "ending" ELSE "completing")
  /\ UNCHANGED <<job, lock, gate, batch, local, seen>>

(* A job stopped since is not completed.  A completed one is not paused.     *)
SetCompleted(t) ==
  /\ CanLock(t)
  /\ IF job.isCompleted \/ job.isStopped
     THEN Go(t, "completing", "ending") /\ UNCHANGED <<job, lock>>
     ELSE /\ Go(t, "completing", "resuming")
          /\ job' = [job EXCEPT !.isCompleted = TRUE]
          /\ lock' = t
  /\ UNCHANGED <<gate, batch, local, seen>>

CompletedButPaused(t) == \* mutant: a paused job that completes stays paused
  /\ Go(t, "resuming", "ending")
  /\ lock' = Free
  /\ UNCHANGED <<job, gate, batch, local, seen>>

ResumeCompleted(t) ==
  /\ Go(t, "resuming", "ending")
  /\ job' = [job EXCEPT !.isPaused = FALSE]
  /\ lock' = Free
  /\ UNCHANGED <<gate, batch, local, seen>>

ClearIsRunning(t) ==
  /\ Go(t, "ending", "telling")
  /\ job' = [job EXCEPT !.isRunning = FALSE]
  /\ UNCHANGED <<lock, gate, batch, local, seen>>

CallOnFinish(t) ==
  /\ Go(t, "telling", "releasing")
  /\ job' = [job EXCEPT !.onFinish = FALSE]
  /\ IF job.onFinish THEN JobFinished ELSE UNCHANGED notified
  /\ UNCHANGED <<lock, gate, batch, local, waited, promised>>

(* Waiters are released; a failed launch also leaves m_TransitionMutex. *)
Release(t) ==
  /\ Go(t, "releasing", "done")
  /\ job' = [job EXCEPT !.executionFinished = TRUE]
  /\ lock' = IF lock = t THEN Free ELSE lock
  /\ UNCHANGED <<gate, batch, local, seen>>

FinishExecution(t) ==
  \/ ReadIsStopped(t) \/ SetCompleted(t) \/ ResumeCompleted(t)
  \/ ClearIsRunning(t) \/ CallOnFinish(t) \/ Release(t)

-----------------------------------------------------------------------------
(* Operation::Start and Job::Run.                                           *)

SetCallbacks ==
  /\ Go("starter", "idle", "run")
  /\ job' = [job EXCEPT !.onFinish = TRUE]
  /\ UNCHANGED <<lock, gate, batch, local, seen>>

(* A job stopped before its start does not run.  m_FinishMutex is held from   *)
(* here until the start is recorded, which keeps out Wait but not Stop.      *)
Run ==
  /\ Go("starter", "run", IF job.wasStarted \/ job.isRunning \/ job.isStopped THEN "done" ELSE "start")
  /\ UNCHANGED <<job, lock, gate, batch, local, seen>>

RecordStart ==
  /\ Go("starter", "start", "launch")
  /\ job' = [job EXCEPT !.wasStarted = TRUE, !.isRunning = TRUE]
  /\ UNCHANGED <<lock, gate, batch, local, seen>>

LaunchWorker ==
  /\ At("starter", "launch")
  /\ pc' = [pc EXCEPT !["starter"] = "done", !["worker"] = "execute"]
  /\ UNCHANGED <<job, lock, gate, batch, local, seen>>

(* The thread could not be created. *)
LaunchFails ==
  /\ Go("starter", "launch", "launch failed")
  /\ UNCHANGED <<job, lock, gate, batch, local, seen>>

ResumeUnlaunched ==
  /\ lock = Free /\ lock' = "starter"
  /\ job' = [job EXCEPT !.isPaused = FALSE]
  /\ Go("starter", "launch failed", "stop unlaunched")
  /\ UNCHANGED <<gate, batch, local, seen>>

StopUnlaunchedWithoutItems == \* mutant: the items of a failed launch are left alone
  /\ job' = [job EXCEPT !.isStopped = TRUE]
  /\ Go("starter", "stop unlaunched", "finish")
  /\ UNCHANGED <<lock, gate, sweep, batch, run, sawRunning, cameLate, seen>>

RethrowAtOnce == \* mutant: a failed launch does not finish the execution
  /\ job' = [job EXCEPT !.isStopped = TRUE]
  /\ lock' = Free
  /\ Go("starter", "stop unlaunched", "done")
  /\ UNCHANGED <<gate, batch, local, seen>>

(* The failed launch stops the job whatever it was doing; a job that nobody  *)
(* began gets its items cancelled (OnStopped).                               *)
StopUnlaunched ==
  /\ job' = [job EXCEPT !.isStopped = TRUE]
  /\ IF gate.phase = "Pending"
     THEN /\ Go("starter", "stop unlaunched", "cancelling")
          /\ gate' = [gate EXCEPT !.phase = "StopOwned"] /\ sweep' = 1
     ELSE Go("starter", "stop unlaunched", "finish") /\ UNCHANGED <<gate, sweep>>
  /\ UNCHANGED <<lock, batch, run, sawRunning, cameLate, seen>>

Starter ==
  \/ SetCallbacks \/ Run \/ RecordStart \/ LaunchWorker \/ ResumeUnlaunched \/ StopUnlaunched
  \/ SweepItem("starter") \/ SweepEnds("starter", "finish")
  \/ FinishExecution("starter")

-----------------------------------------------------------------------------
(* The worker: Job::Execute and Perform.                                    *)

ExecuteSkipping == \* mutant: a job stopped before its worker ran is just left
  /\ Go("worker", "execute", IF job.isStopped THEN "done" ELSE "perform")
  /\ UNCHANGED <<job, lock, gate, batch, local, seen>>

Execute ==
  /\ Go("worker", "execute", IF job.isStopped THEN "finish" ELSE "perform")
  /\ UNCHANGED <<job, lock, gate, batch, local, seen>>

(* Preparing the thread threw: the job is stopped. *)
ExecuteThrows ==
  /\ Go("worker", "execute", "stop")
  /\ UNCHANGED <<job, lock, gate, batch, local, seen>>

TakeGate ==
  /\ IF gate.phase = "Pending"
     THEN Go("worker", "perform", "item") /\ gate' = [gate EXCEPT !.phase = "CommitOwned"]
     ELSE Go("worker", "perform", "finish") /\ UNCHANGED gate
  /\ UNCHANGED <<job, lock, batch, local, seen>>

StateMutexIsFree == \A s \in Stoppers : pc[s] \notin {"cancelling", "storing", "clearing"}

BlockIfPaused ==
  /\ run.next <= ItemCount /\ StateMutexIsFree
  /\ ~job.isPaused \/ job.isStopped \/ job.isCompleted
  /\ Go("worker", "item", "claim")
  /\ UNCHANGED <<job, lock, gate, batch, local, seen>>

WindDownCancelling ==
  /\ run' = [run EXCEPT !.cancelled = TRUE]
  /\ Goto("worker", "wind down")

ClaimUnchecked == \* mutant: the stop is read before the item is claimed, not with it
  /\ Go("worker", "claim", "commit")
  /\ gate' = [gate EXCEPT !.startedItems = run.next]
  /\ UNCHANGED <<job, lock, batch, local, seen>>

(* The stop is read and the item published as begun in one hold of m_Gate. *)
Claim ==
  /\ At("worker", "claim")
  /\ IF gate.stopAccepted THEN WindDownCancelling /\ UNCHANGED gate
     ELSE /\ gate' = [gate EXCEPT !.startedItems = run.next]
          /\ Goto("worker", "commit") /\ UNCHANGED run
  /\ UNCHANGED <<job, lock, batch, sweep, sawRunning, cameLate, seen>>

(* An exception before an item is committed: the rest is cancelled. *)
PerformThrows ==
  /\ At("worker", "commit") \/ (At("worker", "item") /\ run.next <= ItemCount)
  /\ WindDownCancelling
  /\ UNCHANGED <<job, lock, gate, batch, sweep, sawRunning, cameLate, seen>>

CommitBegins ==
  /\ Go("worker", "commit", "committing")
  /\ tx' = [tx EXCEPT ![run.next] = IF @ = PendingTx THEN Committing ELSE @]
  /\ UNCHANGED <<job, lock, gate, slots, ran, local, seen>>

(* The transaction answers, having been cancelled or having run the handler. *)
CommitEnds ==
  LET i == run.next
  IN  /\ At("worker", "committing")
      /\ \E answer \in Answers, confirmed, early \in BOOLEAN :
            LET r == IF tx[i] = Committing THEN CommitResult(answer, early, confirmed) ELSE tx[i]
            IN  /\ tx' = [tx EXCEPT ![i] = r]
                /\ Publish(i, r)
                /\ ran' = IF early THEN ran ELSE ran \cup {i}
      /\ LET status == Status(slots'[i])
         IN  /\ run' = [next |-> i + 1, cancelled |-> status = "Cancelled"]
             /\ Goto("worker", IF status = "Succeeded" THEN "item" ELSE "wind down")
      /\ UNCHANGED <<job, lock, gate, sweep, sawRunning, cameLate, seen>>

BatchEnds ==
  /\ run.next > ItemCount
  /\ Go("worker", "item", "wind down")
  /\ UNCHANGED <<job, lock, gate, batch, local, seen>>

(* What the run did not reach is cancelled, or aborted without a result if   *)
(* the run failed.                                                           *)
WindDown ==
  /\ At("worker", "wind down") /\ run.next <= ItemCount
  /\ IF run.cancelled THEN CancelItem(run.next) ELSE AbandonItem(run.next)
  /\ run' = [run EXCEPT !.next = @ + 1]
  /\ UNCHANGED <<job, lock, gate, pc, sweep, sawRunning, cameLate, seen>>

Conclude ==
  /\ run.next > ItemCount
  /\ Go("worker", "wind down", IF run.cancelled THEN "stop" ELSE "finish")
  /\ gate' = [gate EXCEPT !.startedItems = ItemCount,
                          !.phase = IF run.cancelled THEN "TerminalCancelled" ELSE "Terminal"]
  /\ UNCHANGED <<job, lock, batch, local, seen>>

StopItself == At("worker", "stop") /\ Decide("worker", "finish")

Worker ==
  \/ Execute \/ TakeGate \/ BlockIfPaused \/ Claim \/ CommitBegins \/ CommitEnds \/ BatchEnds
  \/ WindDown \/ Conclude \/ StopItself
  \/ SweepItem("worker") \/ SweepEnds("worker", "storing") \/ StoresTheStop("worker", "finish")
  \/ FinishExecution("worker")

-----------------------------------------------------------------------------
(* The last reference goes: items nobody ever touched are aborted.          *)

Destroy ==
  /\ \A t \in Threads : pc[t] \in {"idle", "done"}
  /\ gate.phase = "Pending"
  /\ gate' = [gate EXCEPT !.phase = "Terminal", !.startedItems = ItemCount]
  /\ \E confirmed \in [Items -> BOOLEAN] :
       /\ tx' = [i \in Items |-> AbortResult("Aborted", confirmed[i])]
       /\ slots' = [i \in Items |-> MapResult(tx'[i], RemovesIt)]
  /\ pc' = [t \in Threads |-> "destroyed"]
  /\ UNCHANGED <<job, lock, ran, local, seen>>

Next ==
  \/ Starter \/ LaunchFails
  \/ Worker \/ ExecuteThrows \/ PerformThrows
  \/ \E s \in Stoppers : Stopper(s)
  \/ Pause \/ Resume \/ Wait
  \/ Destroy

(* Threads are scheduled and providers answer; nobody has to stop, pause,    *)
(* resume or fail, and a pool need not ever start the job.                   *)
Fairness ==
  /\ WF_vars(Starter /\ ~At("starter", "idle"))
  /\ WF_vars(Worker)
  /\ \A s \in Stoppers : WF_vars(Stopper(s) /\ ~At(s, "idle"))

Spec     == Init /\ [][Next]_vars
FairSpec == Spec /\ Fairness

-----------------------------------------------------------------------------
Steps == {"idle", "run", "start", "launch", "launch failed", "stop unlaunched", "cancelling", "storing",
          "clearing", "finish", "completing", "resuming", "ending", "telling", "releasing", "done",
          "execute", "perform", "item", "claim", "commit", "committing", "wind down", "stop", "stopped",
          "destroyed"}

Flags == {"wasStarted", "isRunning", "isPaused", "isCompleted", "isStopped", "executionFinished",
          "onFinish"}

(* The ranges: no more items are counted as begun, run or swept than the      *)
(* batch has.                                                                 *)
TypeOK ==
  /\ job \in [Flags -> BOOLEAN]
  /\ lock \in Threads \cup {Free}
  /\ gate \in [phase : {"Pending", "CommitOwned", "StopOwned", "TerminalCancelled", "Terminal"},
               startedItems : 0 .. ItemCount, stopAccepted : BOOLEAN]
  /\ tx \in [Items -> CommitResults \cup {PendingTx, Committing}]
  /\ DOMAIN slots = Items
  /\ pc \in [Threads -> Steps]
  /\ run \in [next : 1 .. ItemCount + 1, cancelled : BOOLEAN]
  /\ sweep \in 1 .. ItemCount + 1
  /\ sawRunning \in [Stoppers -> BOOLEAN]
  /\ cameLate \subseteq Stoppers
  /\ notified \subseteq {"Completed", "Stopped"}
  /\ waited \in {"no", "cold", "finished"}
  /\ ran \subseteq Items
  /\ promised \in 0 .. ItemCount

Settled == \A i \in Items : slots[i] # Unresolved

(* The pool finalizes an operation when it hears that it finished and keeps   *)
(* one whose evidence is still pending for ever: whoever sends the first      *)
(* finish notification, every item has its outcome by then.                   *)
FinishMeansSettled == notified # {} => Settled

(* The stop that can swallow a finish: the run ends between its two stores, in *)
(* Operation::State still paused, and it leaves the telling to the run.        *)
SwallowsTheFinish(s) ==
  \/ At(s, "clearing") /\ job.isPaused /\ ~job.isRunning
  \/ s \in cameLate /\ (At(s, "stopped") \/ sawRunning[s])

(* A finished job has told its observers, however pausing, stopping, failed   *)
(* launches and completion interleave, unless a stop swallowed that; and no   *)
(* finish is contradicted by a later one.                                     *)
FinishIsTold ==
  /\ job.executionFinished => notified # {} \/ \E s \in Stoppers : SwallowsTheFinish(s)
  /\ notified # {"Completed", "Stopped"}

(* An accepted stop is kept: no item the job had not begun when it said yes   *)
(* reaches its provider's commit handler (one decision under m_Gate).         *)
StopIsKept == ran \subseteq 1 .. promised

(* The evidence the finalizer reads agrees with how the job ended: a run      *)
(* reported as completed was never stopped, one reported as cancelled was.    *)
EvidenceAgreesWithState ==
  LET e == Evidence
  IN  notified # {} /\ "state" \in DOMAIN e =>
        /\ e.state = "Completed" => notified = {"Completed"}
        /\ e.state = "Cancelled" => notified = {"Stopped"}

(* What the items' slots say is what their transactions ended with: no        *)
(* result is published for an item while another thread is committing it.     *)
SlotsTellTheTruth ==
  \A i \in Items : slots[i] # Unresolved =>
    tx[i] \notin {PendingTx, Committing} /\ slots[i] = MapResult(tx[i], RemovesIt)

(* The lifecycle rules of the journal (OperationJournalValidEntryLifecycle). *)
JournalAccepts(e) ==
  LET some(status) == \E i \in DOMAIN e.results : e.results[i].status = status
  IN  /\ \A i \in DOMAIN e.results : ValidItemResult(Type, e.results[i])
      /\ e.state = "Completed" => DOMAIN e.results = Items /\ ~some("Failed") /\ ~some("Cancelled")
      /\ e.state = "Failed"    => some("Failed") /\ ~some("Cancelled")
      /\ e.state = "Cancelled" => some("Cancelled") /\ ~some("Failed")

(* Once settled, the evidence is an entry the journal accepts, or a refusal   *)
(* to give one: only when some item was aborted unexecuted and no item failed *)
(* or was cancelled.                                                          *)
EvidenceIsJournalable ==
  Settled => IF Evidence = NoEvidence("Inconsistent")
             THEN /\ \E i \in Items : slots[i] = NonExecutionTerminal
                  /\ ItemsThat("Failed") \cup ItemsThat("Cancelled") = {}
             ELSE JournalAccepts(Evidence)

(* A started job ends unless it stays paused for ever. *)
StartedJobEnds == <>[]~job.isPaused => (job.wasStarted ~> job.executionFinished)

(* Stopping a started job ends it, paused or not. *)
StopEndsTheRun == (job.isStopped /\ job.wasStarted) ~> job.executionFinished
=============================================================================
