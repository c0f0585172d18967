# A verification project for Duck Commander's reviewed operations

Duck Commander (repository `win-commander`) is a native macOS dual-pane file manager in C++,
Objective-C++ and Swift. What makes it hard to get right is not its panels but the way it
changes files: a *reviewed* operation is planned, recorded in a durable journal, run by a pool
of threads that may be stopped, paused or shut down at any moment, and its outcome is journalled
before it is shown. This directory models that path, and beside it the searches of an Explorer tab, in TLA+, checks it with TLC on small
instances and proves its most important properties with TLAPS for all instances.

- [The system](#the-system)
- [Modules and how they correspond to the code](#modules-and-how-they-correspond-to-the-code)
- [Runs](#runs)
- [Fairness](#fairness)
- [Proofs](#proofs)
- [Disagreements with the documentation](#disagreements-with-the-documentation)
- [What is not modelled](#what-is-not-modelled)
- [Plan](#plan)

Paths below are relative to `src/Source/` of the repository.

## The system

The life of a reviewed operation:

1. The planner makes an immutable plan; the factory builds an operation that holds one
   *conditional-copy transaction* per item, and its job.
2. The orchestrator reserves an operation id and *admits* the plan to the journal (admission
   receipt), turns it to Running (run receipt), gives the run receipt to a custodian and the
   operation to the pool.
3. The pool starts it when there is room. A worker thread commits the items one by one. Other
   threads may pause, resume and stop it, or shut the pool down.
4. When the operation tells that it finished, the pool runs its *terminal finalizer*, which reads
   the items' evidence and finalizes the journal entry with the run receipt. If that cannot be
   done the pool retains the operation, and the finalizer is retried later. If the journal's answer
   was uncertain, the recovery coordinator reopens it, reconciles the slot with what it finds and
   releases the operation.
5. The operation center shows a record of it all the while, through which the user cancels, pauses
   and resumes it; the record ends with what the custodian says was durably recorded.
6. At the next start of the application the journal interrupts whatever was live.

A copy between two volumes is to go through a privileged helper, which first stages the reviewed
source in *protected roots*, one on each volume, so that a restarted helper can tell what was staged.
The helper's parts are there and tested one by one; no executable puts them together yet.

Apart from all this, *Search Mode* of an Explorer tab scans a directory tree in the background and
replaces what the panel shows by a listing of what it found, while the user goes on using the panel.

| Component | State it keeps | Operations | Interacts with |
|---|---|---|---|
| Operation journal (`Operations/source/OperationJournal.cpp`) | the journal file; per instance: flock, entries, next id, reservations, `usable`; receipts in the hands of clients | open, reserve, admit, start, finalize, close | file system; orchestrator (receipts) |
| Conditional-copy transaction (`VFS/source/ProviderCapabilities.cpp`) | Pending / Committing / Consumed, the two handlers, one cached result | commit, abort, reset | provider (handlers run without the mutex), job |
| Result tables (`ProviderConditionalCopyJournalMapper.cpp`, item rules of the journal) | none | map a commit result to a journal item | transaction, journal |
| Job and operation (`Job.cpp`, `Operation.mm`) | flags, three mutexes, callbacks | start, pause, resume, stop, wait, finish | pool (notifications), worker thread |
| Conditional copy batch (`ProviderConditionalCopyOperation.cpp`) | gate phase, items begun, stop accepted; one evidence slot per item | perform, stop requested, cleanup | transactions, finalizer (evidence) |
| Pool (`Pool.mm`) | pending, running and finalizing operations, in-progress finalizers, shutting down, two mutexes | enqueue, start, finish, retry, shut down | operations, finalizers, windows |
| Orchestrator, custodian and recovery coordinator (`CopyOperationOrchestrator.cpp`, `CopyOperationRecoveryCoordinator.mm`) | one slot per plan with the run receipt and its phase; the shared journal | submit, finalize, retry, reopen, reconcile, release | journal, pool, operation center |
| Planner, codec, reviewed factory | none between calls | plan, encode, build | VFS probes |
| Operation center (`OperationCenterCoordinator.cpp`, `OperationCenterModel.cpp`) | one record per operation; live residencies with a gate, a cancellation in flight and an outcome put off | submit, reduce, cancel, pause, resume, refresh history | journal, custodian (observer), pool, job |
| Classic jobs (copying, deletion, compression, ...) | file descriptors, statistics | perform | VFS, dialogs |
| Protected roots of the cross-volume staging helper (`RoutedIO/source/CrossVolumeStagingHelper*.cpp`, `CrossVolumeStagingProtectedRootLedger.cpp`) | per root: a lock, and reservations, artifacts, seals and lifecycle records as files; per ledger: its active reservations | stage, inspect, reconcile, release, materialize, prepare a publication | file system; the leases |
| Leases, protocol and dispatch of that helper | one-use leases, two handshakes | issue, consume | XPC client |
| Explorer Search Mode (`ExplorerSearchController.mm`, `SearchStore.cpp`, `ExplorerDirectSearchBackend.mm`, `VFS/source/SearchForFiles.cpp`, `Base/source/SerialQueue.cpp`) | per tab: the search it is at, its phase, the panel content it began with; per search: a queue with a stop flag, references to it | present, start, cancel, close, accept progress and results, reap | panel, main queue, background threads |
| VFS hosts, panels, terminal, viewer, configuration | caches, presentation | — | — |

What is hard, and what correctness means for each part:

- **Journal** — crashes between two system calls; `rename` and `fsync` that fail after changing
  the name; two processes on one directory; restarts; limits of the writer that must be those of
  the strict reader. Correct: what was acknowledged survives every crash; every start can
  read the file; authority (receipts) matches exactly the live entries; no id is used twice.
- **Transaction** — any number of threads call it while handlers run unlocked; the provider may
  answer nonsense or throw. Correct: each handler runs at most once; one result; what may
  have happened is never undone, nor offered for a retry; the journal can record every result.
- **Job, operation, batch** — a stop races the start, the worker's claim of the next item, its end
  and its failure to launch; a pause hides a finish. Correct: one outcome for each item before the
  end is told; the end is told (it is not always, see [below](#disagreements-with-the-documentation));
  an accepted stop is kept; the evidence agrees with the end.
- **Pool** — every thread that finishes, stops, retries or enqueues runs pool code and starts other
  operations, while another shuts the pool down. Correct: no operation is lost, duplicated
  or finalized twice; no slot leaks but the ones of operations that never tell their end; no wake-up is lost; a
  shutdown returns, and leaves quiet.
- **Orchestrator** — custody of a receipt across the journal's failures and the pool's retries.
  Correct: the terminal outcome is recorded for good, delivered at most once, as it is recorded, and
  before the pool lets go; no reopen interrupts work that somebody still has the receipt for.
- **Operation center** — terminal outcomes arrive on any thread, also from inside the cancellation
  that causes them; locks of four objects are taken in chains of callbacks. Correct: the record ends
  with what the journal recorded; a control never reaches an operation that is over; a
  cancellation comes back (it does not always, see [below](#disagreements-with-the-documentation)).

- **Protected roots** — a session is a long script of system calls on two volumes, most of whose
  files are handed to the drive but not flushed; it may fail, be cancelled or die after each of
  them, the power may fail, and the source may change under it. Correct: what a session returned
  survives; a seal is never left without what it vouches for; what an inspection accepts is a
  whole copy of what was reviewed; one request is not staged twice.

- **Search Mode** — callbacks of a scan arrive behind whatever the user did meanwhile; four parties
  hold references to a search, and the last one to let go runs destructors that wait. Correct: only the
  listing the user waits for, over the content it was begun for, is shown; no destructor waits; every search
  ends and is let go of.

`PROJECT.json` lists every such hazard with its line in the code and the properties that cover it.

## Modules and how they correspond to the code

| Module | Models | Abstraction |
|---|---|---|
| `JournalSnapshot` | the content of the journal file, the strict decoder and the recovery at Open | evidence is a partial function from item indexes to statuses |
| `Journal` | `OperationJournal` and the file system under it | encoding errors and the size limit are among the ways staging fails |
| `ConditionalCommit` | the result of a commit, which results are valid, the mapper and the journal's rules for one item | error numbers are `zero`, `stale`, ... as far as the tables look at them |
| `Transaction` | `ProviderConditionalCopyTransaction` | the provider is any answer at all |
| `CopyJob` | `Job`, `Operation`, `ProviderConditionalCopyOperationJob` | a transaction is one cell |
| `Pool` | `Pool` | an operation is the part of a job the pool sees, the policy and the finalizers are external |
| `DurableOutcome` | abstract: what the execution of a plan promises (the contract of `durable_terminal_observer`) | four variables and three actions |
| `Custodian` | `CopyOperationOrchestrator`, its custodian, the recovery coordinator, and the pool's `RetryFinalization` | the journal is what `Journal` promises; evidence is the terminal state it records |
| `OperationCenter` | `OperationCenterCoordinator`, the lifecycle of the records, and the locks of residency, job and pool they meet | journal, custodian and pool are what their modules promise |
| `Staging` | the protected roots of the staging helper: locks, reservations, writers, lifecycle records, inspection, publication barrier | a file is gone, torn or whole, a source is its version, a session is a list of steps |
| `SearchMode` | `ExplorerSearchController`, `SearchStore`, `DirectSearchRun`, and the `SearchForFiles` and `SerialQueue` under it | what is found is not looked at; the panel is a generation and the search whose listing it shows |
| `JournalProofs`, `TransactionProofs`, `CopyJobProofs`, `PoolProofs`, `CustodianProofs`, `OperationCenterProofs`, `StagingProofs`, `SearchModeProofs` | the theorems | |
| `MCJournal`, `MCTransaction`, `MCCopyJob`, `MCPool`, `MCCustodian`, `MCOperationCenter`, `MCStaging`, `MCSearchMode` | instances for TLC | |

**Journal.** `disk` is the file as a read returns it, `survivors` the contents a power loss may
leave: a rename adds one, the fsync of the directory makes the current one the only one. A handle
is an `Impl`; its mutex is held from the checks of an operation to its return, so one operation is
two or three steps: the checks build the candidate (`Admit`, `TransitionToRunning`, ... set
`pending`), then `OperationJournalPersist` stages, renames and syncs (`StageFails`, `Rename`,
`RenameReportsError`, `SyncDirectory`, `SyncDirectoryFails`), and `Commit` or `Poison` is the tail
of the operation after it. `ProcessCrash` forgets a handle and its receipts between any two steps;
`PowerLoss` also picks one of the survivors. `Close` drops an instance whose receipts stay with
clients. `Snapshot` and `ValidateAdmissionReceiptForOrchestration` only read; the entry points
for tests are left out. Several handles in `Handles` stand for successive and for competing opens.

**Transaction.** `call` is where each thread is. The checks at the start of `Commit` and `Abort`
are one step under the mutex (`Take`, `Replay`); the cancel check, the handler and the confirming
abort are steps of their own, without it. `effect` is history: what the provider really did.

**CopyJob.** Threads have program counters: the starter is the pool thread in `Operation::Start`,
the worker the thread the job launches, each stopper a thread in `Operation::Stop`; `Pause`,
`Resume` and `Wait` come from anywhere. `lock` is `m_TransitionMutex`. `m_StateMutex` is only ever kept over
several steps by a thread that has `lock` as well, so that only `BlockIfPaused`, which takes it alone, has to look
where the stoppers are (`StateMutexIsFree`); the other mutexes guard single steps. The flags are atomic and are read
*without* a mutex by `FinishExecution`, `Execute`, `Operation::Stop` and `Operation::State`: each of these reads is a step
of its own, and so is each store. A stop decides (`Decide`), cancels the items of a job nobody
began, stores `m_IsStopped` (`StoreStopped`, `Job.cpp:207`) and then clears `m_IsPaused` (`ClearPaused`, line
208); `SetCompleted` and `ResumeCompleted`, and `ResumeUnlaunched` and `StopUnlaunched`, are the two stores of a completion
and of a failed launch. Two merges are left because nobody can tell: `RecordStart` sets both flags of a start under
`m_FinishMutex`, and of the four reads of `State` one matters to each reader: the pause to a worker that has cleared `m_IsRunning`, and
whether it runs to a stopper that has cleared the pause. `cameLate` is history: whose stop cleared a pause after the run had ended. The
evidence the finalizer would read is the operator `Evidence`, evaluated in every state.

**Pool.** A thread is a stack of calls, because finishing an operation finalizes it, which releases
it, which starts others, on the same thread. `m_Lock` guards single steps; `m_Concurrency` is atomic
and changes between any two of them; `m_StartGate` is recursive and is held by whoever has a call in
`GateSteps` on its stack. The operation under the pool is cut down to the flags that `State`,
`Start`, `Pause`, `Resume`, `Stop` and `Wait` use, and to the steps at which they meet. Whoever stops it stores
`isStopped` (`Stop`), clears the pause (`ClearPaused`) and tells, if it is to (`Tell`). Its worker enters (`Execute`), works, waits a last time
while it is paused (`BlockIfPaused`), ends its run (`WorkEnds`, `WorkThrows`), asks `State` whether to tell
(`JobFinished`) and releases the waiters (`WorkerEnds`). A stop may be refused from the last item on, which is what the step `last`
is for. What `CopyJob` has in finer steps is merged where nobody outside
looks in between: a throwing worker's stop, the two stores of a completion and the end of the run are one step, since `State` answers
Paused or Running until `isRunning` is cleared, and no stop is accepted any more. `untold` is history: the workers that asked `State` and told nobody.

**Custodian.** A thread has a plan and the list of the steps it still has to take; a step is a
section under one lock - the slot's, the map's or the pool's - or a call made without any. The
slot of a plan outlives its place in the map (`slots`), because the pool's finalizer and a submission
share it, and a share of the journal with it: `Holders` is the use count the coordinator
looks at before it gives the journal up (`JournalInUse`). `Mutation` is a call of the journal: done,
refused with nothing changed, uncertain, or refused by a poisoned instance; `Reopen` interrupts
what was live in the file. `RetryFinalization`, `Retain` and `LetGo` are the pool's sections around the
finalizer (`FinalizeReconciled`, `FinalizeNothing`, `FinalizeInconsistent`, `FinalizePoolSlot`).
`KeepsThePromise` instantiates `DurableOutcome` with the entries that are terminal as the outcome and
the operations that left the pool as the ones let go; `told` and `completed` are history.

**OperationCenter.** Threads are lists of steps again, because finishing an operation inside `Stop`
reduces its record, releases it and starts others on the same thread. A lock is held by the thread
whose list still has the step that gives it back: `leaveGate` is the residency's recursive
`cancel_gate`, `leaveTransition` the job's `m_TransitionMutex` (kept over several steps only by a failed
launch), `leaveStart` the pool's `m_StartGate`. The mutexes of the model, the residencies, the binding
and the reduction guard single steps. `ReduceDurableTerminal` looks for the residency without the
gate, `ReduceGated` goes on with it; `Cancel` and `CancelUnderGate`, `SetPaused` and
`SetPausedUnderGate` are the two looks at the record the code takes.

**Staging.** A helper is the list of the steps it still has to take, each a group of system calls on
one file: `Session` spells out what `StagingSessionRunner::Run` does from the locks to the last
lifecycle record, `Ledger` what a ledger opened on its own may do. `Abandon` is every way to stop short:
an error, the cancellation callback, a source that changed, the death of the process; the lists need no
failure branches because the code undoes nothing on disk. `fs` has for each file what a read returns
(`now`), what a power loss may leave (`may`) and whether the drive has been handed it (`flushed`):
`fsync` hands over, `F_FULLFSYNC` writes all that was handed over on the volume, which is why the one
flush of the artifact also secures the reservation before it, and the flush of the lifecycle record
the seal. The two roots are on different volumes and lose their power together. `SourceIsExact` is the
comparison of the reviewed stamp, repeated at the steps where the code repeats it; the copy itself reads
whatever the source is by then, in two parts. `Inspect` reads only and is an operator, evaluated in every
state. `staged` is history: what a session returned.

**SearchMode.** Each search is a record: where the thread of its queue is (`at`), the queue's length and
stop flag, whether it was cancelled, and who holds a reference (`held`): the controller, the reaper's
background block, the main thread until `Reap` returns, and the queue's thread while a callback has locked
the weak pointer. Whoever lets go last destroys it (`LetGo`). The scan is a loop of a look at the flag, a
callback and its return; then come the decrement of the length, `Finish`, the listing and the end of the
block. Actions of the user and blocks sent by callbacks are steps of the main thread, which is busy between
`Reap` and its return. A callback's block is dropped, closes the mode or is accepted (`LateCallback`,
`FencedCallback`, `AcceptProgress`, `AcceptEnd`, `AcceptResults`), as `validateCallbackForRun` decides.
`ExternalChange` is everything else that changes the panel; `SynchronizeExternalContentChange` is the
notification of it, which may come at any later time. `wanted` is history: the search the user waits for.

The journal's `fsync`, in contrast, is taken at its word: `Journal` assumes that it makes a file and a
name durable, as POSIX says and as the journal's code relies on. The code of the journal never uses
`F_FULLFSYNC`, so on a drive with a volatile cache that assumption is stronger than what `Staging`
grants.

Every definition that models code has an entry in `PROJECT.json` with the lines it stands for.
Definitions marked `mutant` in a comment are variants with a plausible bug, at least one for each
property; they are no part of any specification and show that the property can fail.

## Runs

| Run | Instance | Distinct states | Shows |
|---|---|---|---|
| `journal` | 3 plans (1 and 2 items) with room for 2, 3 handles, 4 ids, an empty directory or a v2 file with a running entry | 187 919 | all six safety properties of the journal, at its limits too |
| `journal_reopen` | 2 handles, 3 ids | stops at the violation | see [below](#disagreements-with-the-documentation) |
| `transaction` | 3 threads; every combination of publication, failure, error and sync as an answer | 549 | the five properties of a transaction |
| `copy_job` | a move of 3 items, 2 stoppers, 6 kinds of answer | 159 381 | the six safety properties of a job; a started job ends; a stop ends it |
| `pool` | 2 operations, a concurrency of 1, one thread that enqueues and retries, one each to stop and to shut down | 1 019 148 | lists, finalizers, slots, shutdown, no lost wake-up |
| `pool_liveness` | 2 operations, one of them not queued by the policy, a concurrency set to 1 and 2 and a shutdown at any time | 129 936 | the bound on concurrency; what was accepted is finalized, if it is not paused for ever and no finish is swallowed; the shutdown returns |
| `custodian` | 2 plans, one thread that recovers and one that releases, 2 slots | 484 433 | custody and the promise of `DurableOutcome` |
| `custodian_recovery` | 1 plan, one thread that recovers | stops at the violation | see [below](#disagreements-with-the-documentation) |
| `operation_center` | 2 operations, one thread that controls and one that starts and recovers; no pause beyond revision 3 | 566 597 | records and journal agree; controls reach only what lives |
| `operation_center_deadlock` | 1 operation, one thread that controls and one that starts and recovers | stops at the violation | see [below](#disagreements-with-the-documentation) |
| `staging` | 1 request, 2 helpers, 2 artifacts in each root, 2 versions of the source, 2 events | 493 819 | staged survives, seals are backed, inspections are sound, no twins |
| `search_mode` | 2 searches, one change of the panel by others, one report of progress under way | 199 118 | only the wanted listing is shown; destructors never wait; every search ends |

Why the bounds are enough. *Journal*: three handles make a handle that fails, one that recovers
and one that opens after both, or two that compete; two plans are what uniqueness of ids speaks
about, and the third is the one that there is no room for; a plan with two items has evidence that is complete, partial, empty and mixed; the number
limits are small so that they are reached, and the proofs lift them all. *Transaction*: two threads
race, the third replays. *CopyJob*: three items are one done, one in progress and one not begun;
two stoppers race each other, the starter and the worker. Items are alike except for their order.
*Pool*: concurrency 1 with two operations has one running and one queued, and every finish starts
another; it is in `pool_liveness`, without threads that stop and retry, that the concurrency changes - it is
asked to be 0, which the code makes 1, and 2, which runs both at once - and that an operation jumps the
queue: with every kind of thread and all of that the instance is out of reach. *Custodian*: two
plans share a journal, so that the failure of one poisons the other and its recovery would interrupt
it; the releasing thread and the recovering one meet the worker of the same plan. *OperationCenter*:
of two operations one is started by the thread that cancels or ends the other; the one
other thread starts what is queued, reopens the journal and retries, one after the other, and what two would do
at once they do against the submitting, the working and the controlling thread here; revision 3 lets a running
operation be paused and then be resumed or cancelled, and every later round is alike. *Staging*: two artifacts are an
attempt that fails and the next one; the events that are bounded are failures of sessions that could go
on, power losses and ledgers opened, and two of them are enough for a failed attempt followed by a
reconciliation or a power loss. Requests meet only in the locks, in the number of records and in the scan of the
lifecycle records; with two of them the instance is out of reach. *SearchMode*: two searches are the one that was replaced and the one that replaced it; a third
would meet them only through the main thread; one change of the panel is the one that overtakes a listing,
and the listing of the first search is another for the second. Symmetry is used
only among handles, threads or operations that nothing tells apart, and never in a liveness run.
The deadlock check is off where the system may rest: an operation that has ended, a pool with
nothing to do, a destroyed transaction, plans that are over, a tab that was closed. It is on for the journal (the power may always fail).

Some behaviours the runs allow that a reader may not expect:

- A stop that lands after `Job::Run` has read that the job is not stopped and before the
  start is recorded is told as a finish; the operation is finalized and released as Stopped, and
  then its worker starts, sees the stop and ends without performing. `FinalizedMeansOver` shows
  that it never performs. For the same reason a shutdown may return while the worker of an
  operation the pool has already *released* is leaving; `ShutdownIsQuiet` says exactly what holds.
- An accepted stop followed by a failing item ends as Failed, with the cancelled items left out of
  the evidence, as the code's comment explains (`ProviderConditionalCopyOperation.cpp:232`).
- Raising the concurrency starts nothing: the slot it makes is noticed when the next operation is
  enqueued or ends, which `EveryOperationIsFinalized` shows to be soon enough.
- A retained operation has left its slot: others start, and it stays until somebody retries it.
- A lifecycle file left torn by a session that died makes `Inspect` answer Malformed for every request in
  that root, not only for its own, because nothing tells whose it is: the record is not "matching", as
  `RoutedIO/source/CrossVolumeStagingHelperPublicationLifecycle.h:46` has it. It errs on the
  safe side, and `StagedSurvives` says so.
- A search may be destroyed while the last block of its queue is still on the way to the finish handler
  (`FinishWithoutRun`). `SerialQueue::Wait` returns at once when the length is zero, and the length is zero before
  `OnDry` is called (`Base/source/SerialQueue.cpp:57,64`), although `SerialQueue.h:41` says "OnDry() will be called
  before Wait() will return". A cancellation whose reaper looks in that window, or a listing accepted before the
  finish callback has returned, lets the handler go on in an object that is gone; the model gives it the mildest
  outcome. What `DestructorsNeverWait` shows is the other half: nothing of the *scan* is left by then.
- `Reap` returns on the main thread after the background block may have run, so that it may be the main thread
  that destroys a search, and not the reaper; by then the destructor has nothing to wait for.
- A `Release` whose last fsync fails has removed the record but keeps the slot; the slot stays taken
  until the ledger is closed.

## Fairness

`CopyJob`: threads that have begun are scheduled, and providers return an answer
(`WF(Worker)`, `WF` of a starter or stopper that has begun). Nobody has to stop, resume, launch
successfully or throw; a pool need not ever start the job. `StartedJobEnds` therefore assumes
that the job is not paused for ever; `StopEndsTheRun` does not, because a stop clears the pause.

`Pool`: `WF` of what each thread goes on with once it is in the pool, of the worker of each running
operation and of each shutdown that has begun. This assumes that operations end, which
`copy_job` shows of a stopped or unpaused one, and that finalizers and the enqueuing
policy return. Nobody has to enqueue, pause, resume, stop, retry or shut down. `EveryOperationIsFinalized` therefore
assumes that no operation is paused for ever, since one that is keeps its slot from all others;
`ShutdownReturns` does not, because a shutdown stops what it waits for. The mutexes need no strong
fairness: a step that waits for the start gate stays enabled once the gate is released, unless
another thread takes it, and in the instance checked each thread takes it finitely often.

`Custodian`: `WF` of every thread that is in a call, `WF` of the end of each operation, and `SF` of a
service of each plan that is still in the map - the user who retries whenever the recovery record is
there. It is more than the application does, which offers the recovery only after a submission that
failed; the violation of `RetryingRecoveryReleases` is all the stronger for it.

`OperationCenter`: `WF` of each thread that has steps left. No thread has to begin anything, and an
operation may run for ever unless it is stopped; `CancelReturns` needs no more than that the
threads that are inside a call go on, and its violation is a state in which none of them can.

`SearchMode`: `WF` of the threads together - the main thread's blocks, the reapers, the queues that have a
block -, which is enough because what each has left to do is finite and nothing but a scan repeats; `SF` of the end of some
scan, since a directory tree is finite and the file systems under it answer: a scan that is not stopped ends as well. The user has to do nothing. A scan that hangs in a system call keeps its
search, and only that one, for ever.

## Proofs

All proofs are for arbitrary constants that satisfy the named assumptions of the modules: a
finite set of plans each with at least one item, at least one identifier, limits that are natural
numbers, legacy files that are decodable, answers that are commit results, terminal states among those
that the journal knows, a finite set of operations, and threads of different kinds that are not the same thread; in `Pool` only the
workers have to be threads of their own, the code creating one for each operation, and in `Staging` the first root
is one of the two, and the absence of a request or an artifact is neither. No bound of a run appears in them.

**JournalProofs.** `TypeCorrect` is inductive alone. The other invariants are not: they follow from

    Durable == TypeOK /\ Shape /\ Promises /\ Readable

where `Shape` says that one handle at most is locked (`OneOwner`), what a handle can be doing in each
phase, that reservations, receipts and ids lie below the high-water mark in memory, how the candidate
of a pending persist differs from memory, and that disk and memory agree except while a renamed
candidate is not yet synced; `Promises` says that *every* snapshot that could become durable - on
disk, in memory, in a candidate, among the survivors - keeps what was reported and admitted; and
`Readable` that each of them is decodable. The strengthening to memory and candidates is what makes
it inductive: today's candidate is tomorrow's survivor. The proof has a lemma for what an operation
publishes, one for `Commit`, one for `Poison`, one for `Forget`, and then one step per action.
`ReportedEntriesSurvive`, `AdmissionsSurvive`, `JournalStaysReadable` and `MemoryMatchesDisk` are
consequences; `AuthorityIsExact` adds `Authority`, which extends the bijection between live entries
and receipts to handles with a pending persist. `DerivedNextIsAbove` proves what the `CHOOSE` of the
migration returns, over the finite set of plans.

**TransactionProofs.** `IInv` relates where the threads are to the state: nobody is inside before
the handlers are taken, exactly one thread is inside while they run (`OneCaller`), how often each
handler ran at each step (`Progress`), what is cached afterwards (`Settled`) and what
callers were told (`Replays`). `HandlersRunAtMostOnce`, `CallersHearOneResult` and the action
property `AbortsAreEarly` follow. `TerminalsAreJournalable` and `RetriesAreSafe` rest on
the lemmas about the tables of `ConditionalCommit`: `TablesAgree` and `ItemIsValid` prove by cases that the validity rules of the
transaction, the mapper's and the journal's agree for all results and plan types. `CopyJobProofs` has the same
lemmas once more, because neither of the two modules can extend the other: their variables differ.

**CopyJobProofs.** The six properties of a job follow from one `IInv`, for any number of items and
of stoppers. `Owners` says who owns the items - nobody yet, the worker, whoever stops a job nobody
began, nobody any more - and ties that to the gate's phase and to `m_TransitionMutex`; `Counts` how far
the batch is; `ItemOK` that, seen from the point `Reached` by the owner, every item before is settled with
the result its slot was mapped from, and every item from there on is untouched; `Outcome` what the gate's
final phase says of the items; `FlagsAgree` what the job's flags say of its threads; `Stores` what holds between the
two stores of a stop or a completion: a job may be both stopped and paused, but only while somebody is about to clear the pause; `Told` that what was
told was true and stays true, and that a run that has ended was told unless a stop swallowed that (`StaysSwallowed`). None of them is inductive without the others: that the evidence agrees with
the end needs to know that a stopped job has an item that did not succeed, which needs to know who
was the last to own the items. There is a lemma for each action, most of which leave the items alone and
use `DataKept`; the ones that settle items use `SettleOne` and the lemmas about the tables.

**PoolProofs.** The pool is proved for any operations, policy and concurrencies, and for any number of
threads that enqueue, stop, retry and shut down. The difficulty is the stack of each thread: `Stacks` says
that only a worker, a start whose launch failed and a shutdown call another call, and that only the top of a
stack goes on, so that a stack can be seen as the set of its calls (`CallsOf`). What the calls rely on is split as in the other proofs:
`Lasting` is what no step takes away - an operation someone tells is over stays over, one that is to be
started was admitted to the running ones - and `Passing` what holds until the call goes on, and keeps
the others off: while `record` and `launch` are ahead the start gate is held (`Gate`), and nobody else starts.
`JobOK` ties the flags of a job to its lists: what was started was admitted, what is finalized is `Settled`,
that is, over, and at most still in the middle of a start that will not perform. `Live` is what makes
`SlotsAreLive` inductive: whoever is running is performed, what has ended is being told unless it is in `untold`, what is listed as running and cold is
being started, for *every* listed operation and not only those in a slot, because a stop may
end an operation that still waits in the queue. `Wakeful` is the lost wake-up, `Shutdowns` what a shutdown has behind it: what was
listed when the flag went up is in its snapshot, and what is cold is still to be stopped or being stopped.
None of them holds alone: that the finalizer is alone (`Alone`) rests on `inProgress`, that it never comes back
after the release on the lists being disjoint (`Lists`), that a shutdown is quiet on the gate. There is one lemma for each
action. `TheLimitIsKept` is an action property, from `Gathered`, which says what one pass of
`StartPendingOperations` makes of queue and running operations. The lemmas about lists (`OnlyThat`, `WithoutThat`, `Joined`,
`Appended`) say that what is filtered keeps its members and has nothing twice. For that the model
filters with `Only`, which numbers the places that stay, instead of `SelectSeq`, whose recursion no prover
here follows. The proof also found that `State` was a `CASE` with guards that overlap, of which TLA+ may
take either: it is now the order of tests in `Operation::State`.

**CustodianProofs.** The list of steps of a thread is seen as the set of its steps, in which the
order is always that of `After`; `LeftWith` says what a step makes of that set. `IInv` has a part for each
thread - how far a submission is (`SubmissionOf`), what must be recorded before custody ends
(`EndingOf`), who calls the observer (`TellingOf`) - and one for each plan: the receipt is in custody
exactly in the phases in which the entry is running (`SlotOK`), where the pool has the operation as far as
the slot can know (`ResidenceOK`), who still owes a call of the observer (`Telling`). `Alone` says that one
thread finalizes for the pool, `Sharing` that a journal that was given up was nobody's.
`NoReopenInterruptsCustody` and `ResidentsCanBeReleased` follow. For `CustodyKeepsThePromise` each action is
shown, under that invariant, to be a step of `DurableOutcome` or a stutter (`Refines`): a mutation of the
journal records, the observer's call tells, the pool's letting go releases.

**OperationCenterProofs.** The list of steps of a thread is again seen as the set of its steps (`Ahead`);
`InOrder` says what may stand behind what, above all that a step taken under a gate has the step that gives
the gate back right behind it. `Agrees` relates the record of one operation to its entry, its observer, its
residency and the pool: a put-off outcome is the recorded one, a retired residency has an ended record or an
operation the pool has let go. `Lasting` is what a step relies on that no step takes away, since a terminal
entry, a residency that was live and an observer that was installed never go back (`Calm`); `Passing` is what it
relies on until it is taken, and what keeps the others off: nobody else submits, enqueues or finalizes the
operation, and while a control goes on to the job the record is live. `Apart` says why: one thread has the gate,
one finalizes, and nobody retires what is being controlled. `ActsOnOne` puts the parts together, so
that each action only shows what it does to its own operation; starting the queued operations and the refresh of
the cold history touch many, and use `Assembled`. `OutcomesReachTheRecord` and `ControlsAreInTime` follow:
whoever reduces an outcome waits for the gate, or finds the cancellation in flight on its own thread and leaves the
outcome with it. `CenterTypes` states the types, which no run checks separately. A finite set of
operations is assumed because `SetToSeqs`, which puts them in the order in which they are started, is
defined through its cardinality.

**StagingProofs.** The four invariants of the protected roots follow from one `IInv`, for any requests, artifacts,
helpers and limits; the run has one request and two artifacts, so that whatever two requests do to each other is
covered by the proof alone. `Disk` is about the files: a seal that a power loss may leave (`may`, not
only `now`) has a durable artifact and reservation behind it and tells the truth about them (`SealOK`), a lifecycle record is
`Backed` on both roots by exact artifacts of the version it names and comes after the records it builds on
(`PairOK`), a record was never written for two requests (`RecordOK`), and of the reservations of one request at most one is ever
used (`OneUsed`), although a power loss may bring an unlinked reservation back. That is inductive only with
what the helpers know. The list of steps of a helper is seen as the set of its steps, as in the other proofs, and the order of every
list is that of one number, `Rank`: reservation, artifact, seal, then the lifecycle records, first root first. So a
helper that is at a step has all steps of lower rank behind it, and `WorkOf` says what they have made sure of: while a
file is still to be written nothing later exists and the file is not durable, once it is written it has the `Expected` content, once it is
synchronized the drive has it, and once the drive was flushed everything up to it is durable (`FileOf`); what
was copied is of versions from the reviewed one to the present one, so that when the source is found exact after the copy all of it is
of the reviewed version (`DataOf`); nobody else has used an artifact for the request (`ReservationOf`). `Listed` says what may be ahead at all, and
`Locks` keeps the others off. The lemmas go by kind of step: what a write (`Put`), an `fsync`
(`HandedOver`), a flush of the drive, an unlink and a power loss do to each file; that a write is `Allowed` where
the helper is; and one lemma for each action. `HelperKeeps` reduces each to its own helper. `DurableFilesStay` is an action property that
falls out: `Steady` says that no step changes or removes what is durable, but a reservation without an artifact.
`StagedSurvives` needs it, and that two lifecycle records of one request are equal (`OnePair`). For the proof the two
parts of the copy became two different steps, `copy` and `copyRest`, since a set does not count, and the effect of `fsync` and of the
flush on one file have names (`Handed`, `Written`).

**SearchModeProofs.** The invariant says who holds each search: the controller the one that is its
backend, the reaper the one it waits for, one of them every search that scans (`InCustody`). Hence who lets
go last never finds a queue that still scans (`NoDestructorWaits`), also in the window described under
`FinishWithoutRun`. `OnlyTheWantedIsShown` is an action property, from the same invariant with
`WantedIsActive`.

**Only model-checked.** Liveness (`StartedJobEnds`, `StopEndsTheRun`, `EveryOperationIsFinalized`,
`ShutdownReturns`, `EverySearchEnds`): the installed provers reach neither fairness nor `ENABLED`. What a
recursive definition computes for every input is out of their reach as well, as is every module with a
`RECURSIVE` operator; no module here has one. Every safety property that a passing run checks is proved.

## Disagreements with the documentation

### A reopen may serve what is not durable

`journal_reopen` checks the claim of `Docs/Features/operation_journal_foundation.md:18` that after
an uncertain rename "reopen reconciles durable state", and TLC refutes it: a finalization renames
the file into place and the directory is never synced; the next `Open` reads the new file, finds
nothing live to interrupt and no old schema, and so persists nothing
(`OperationJournal.cpp:1428`); it serves a terminal entry that a power loss takes back. In TLC's
shortest trace the process dies after the rename; the same follows, one step later, when the fsync
of the directory fails, the handle is poisoned and its owner closes and reopens it, which is what
the orchestrator's reconciliation does. If something else is live, `Open` rewrites the file and
does sync. The other promises hold in spite of it: the journal itself reported no success, so
`ReportedSurvives` is unaffected.

### A reconciled slot may stay busy for ever

`custodian_recovery` checks what the recovery alert tells the user, "The recovery record is busy.
Retry recovery later." (`WinCommander/WinCommander/States/FilePanels/Actions/CopyFile.mm:620`): that
retrying gets a plan whose outcome the journal has confirmed released. TLC's trace: the
finalizer's call of the journal is uncertain, so the slot becomes ReconcileRequired and the finalizer
returns Retain; before the pool's next section takes that back, `Service` reopens the journal,
reconciles the slot and calls `ReleaseReconciled`; `RetryFinalization` finds the finalizer in
progress, and the slot goes back to Reconciled (`CopyOperationOrchestrator.cpp:864`). Every later
`Service` starts with `Retry`, which answers Busy for Reconciled (line 686), and stops there: the
step that would succeed now, `ReleaseReconciled`, is not reached again. The outcome stays untold and
the operation in the pool until the process ends. `custodian` shows that nothing worse
happens: the entry is right, and a caller that does call `ReleaseReconciled` again releases it.
The same answer awaits a slot that is still PoolOwned because the journal *refused* the finalizer.

### A cancellation may wait for ever

`operation_center_deadlock` checks the sentence of
`Docs/Features/operation_center_model_and_control_projection.md:63` that the recursive gate serializes
cancellation and terminal reentry, a terminal callback during Stop being put off until the outer
request has ended. That holds on one thread. When the thread of a job cannot be created, `Job::Run`
keeps `m_TransitionMutex` while the finish callback runs (`Job.cpp:50-66`), which leads through pool,
custodian and observer to `ReduceDurableTerminal` and waits for the gate; a `Cancel` that took the gate
meanwhile waits in `Job::Stop` for `m_TransitionMutex`. Both threads stay, and with them the pool's
start gate. Only the failed launch does this: the job's lock is otherwise never kept over a callback
that reaches the gate.

### A stop of a paused operation may swallow its finish

`Docs/Features/copy_operation_submission_hooks.md:46` says "Operation finish transfers that existing owner into
`Pool::Finalizing`", and two tests state what a stop and a completion do to a pause: "stop atomically clears pause and wins
the terminal transition" (`Operations/tests/Job_UT.cpp:371`), "pause cannot survive a concurrent terminal
transition" (line 414). `Job::Stop` clears the pause with a store of its own, though (`Job.cpp:207` and 208), and the end of a run
reads the flags without the mutexes under which they are stored:

1. A running job is paused while it commits an item that is not the last.
2. A stopper reads that it is running, the gate accepts the stop, and line 207 sets `m_IsStopped`.
3. The commit fails, and the worker ends its run without a pause or a stop of its own. `FinishExecution` sees
   `m_IsStopped`, skips `SetCompleted`, clears `m_IsRunning` and calls `Operation::JobFinished`, whose `State` still answers Paused
   (`Operation.mm:57`): it notifies nobody.
4. Line 208 clears the pause; the stopper read that the job was running, and does not tell either.

TLC's shortest trace needs no failing item: the worker enters `Execute` between steps 2 and 4 and sees the stop at once.

The execution has finished, and later stops are refused. The operation stays among the running ones of the pool, holds its slot and its
run receipt, and reaches its finalizer only with the next start of the application, as interrupted. So the properties say what does hold, and no more. `FinishIsTold`: a finished execution was told
unless a run ended, still paused, between the two stores of a stop that leaves the telling to it. `SlotsAreLive`: the
operations whose slots leak are the ones whose workers told nobody, and those were stopped. `EveryOperationIsFinalized`: what was accepted
is finalized unless some worker told nobody. The mutants show that these exceptions excuse nothing else. No run is
dedicated to the refuted sentence; the behaviour is part of `copy_job` and `pool`, where `FinishIsTold` without its second disjunct and
`SlotsAreLive` without `\ untold` fail.

## What is not modelled

- The planner: sequential validation without state. The leases and the dispatch of the staging helper,
  the forks it makes, strangers who write into its roots, and the destination's parent directory. Of the operation center, `Create`, hydration and
  the identifiers of records. A submission whose admission could not be finalized leaves its record
  Queued for ever and so keeps `RefreshColdHistory` busy: the model has it, no property speaks of it.
- Within modelled files: JSON and its limits on size, times, statistics, titles, item reports,
  dialogs, and the pool's completion callback and callback setters.
- Of the searches, the Spotlight backend, the planning of requests and Reveal; and the Commander's search sheet,
  which runs one `SearchForFiles` again and again, so that a second `Go` may meet the finish handler of the first.
- The classic jobs are long sequences of system calls on one thread; their interest lies in
  the file system's data, not in control. The VFS hosts, terminal, viewer and panels are adapters,
  parsers and presentation. The provider and the operating system are external and as nasty
  as their interface allows.

## Plan

Done: the journal and its proofs, the transaction and its proofs, the tables, the job, the pool, the
custodian with its abstract specification, the operation center, the protected roots, Search Mode; the proofs of the
safety properties of all of them.

1. More abstract specifications: an operation that is cold, running and over, implemented by
   `CopyJob` and used by `Pool`; a durable map from plans to entries, implemented by `Journal` and used
   by `Custodian` instead of `Mutation`; a one-shot cell, implemented by `Transaction`.
2. The staging helper's leases, and the session that a lease begins.
3. The dialogs' answer (`AsyncDialogResponse`), `ScopedObservable` and the native create-copy job.
