----------------------------- MODULE SearchMode -----------------------------
(***************************************************************************)
(* The Search Mode of an Explorer tab: ExplorerSearchController and its    *)
(* SearchStore on the main thread, and for each search a DirectSearchRun   *)
(* whose SearchForFiles scans on the thread of a SerialQueue.              *)
(*                                                                         *)
(* Callbacks of a scan reach the controller as blocks on the main queue,   *)
(* behind whatever the user did meanwhile.  A run belongs to whoever holds *)
(* a reference: the controller, the reaper that waits for it in the        *)
(* background, the main thread until Reap returns, and the queue's thread  *)
(* while a callback has locked its weak pointer.  The last one to let go   *)
(* destroys it, and the destructor waits for the queue.                    *)
(*                                                                         *)
(* The main thread runs one block at a time, so that a block is one step   *)
(* but for the end of Reap.  The Spotlight backend is left out.            *)
(***************************************************************************)
EXTENDS Naturals, Sequences

CONSTANTS
  MaxRuns,    \* bound: the searches that may be started
  MaxChanges  \* bound: how often something else changes the panel's content

ASSUME SearchAssumption == MaxRuns \in Nat /\ MaxChanges \in Nat

VARIABLES
  panel,     \* the panel's content: its generation, and the search whose listing it is, if any
  store,     \* SearchStore: the run and its phase
  mode,      \* the controller's own state
  runs,      \* the runs: where the queue's thread is, the flags, who holds a reference
  mainQueue, \* the blocks that callbacks have sent to the main queue
  wanted,    \* history: the search the user waits for and what the panel showed as it began
  changes    \* changes of the content by others, so far

vars == <<panel, store, mode, runs, mainQueue, wanted, changes>>

Runs      == 1 .. MaxRuns
None      == 0
NoContent == [generation |-> 0, result |-> None]
Nobody    == [run |-> None, content |-> NoContent]
Idle      == [run |-> None, phase |-> "Idle"]

NotStarted == [at |-> "none", length |-> 0, stopped |-> FALSE, cancelled |-> FALSE, limited |-> FALSE,
               held |-> {}, reaper |-> "none"]
Closed == [alive |-> TRUE, presented |-> FALSE, expected |-> NoContent, active |-> None,
           content |-> NoContent, backend |-> None]

Init ==
  /\ panel = [generation |-> 1, result |-> None]
  /\ store = Idle
  /\ mode = Closed
  /\ runs = [r \in Runs |-> NotStarted]
  /\ mainQueue = <<>>
  /\ wanted = Nobody
  /\ changes = 0

-----------------------------------------------------------------------------
(* The queue of a run.  Go starts the one block of its queue: the scan, then   *)
(* the cleanup, which counts the block out and tells that the queue is dry.    *)

At(r, at)   == runs[r].at = at
Goes(r, at) == runs' = [runs EXCEPT ![r].at = at]
Freed(r)    == ~At(r, "none") /\ runs[r].held = {}

Going == [NotStarted EXCEPT !.at = "scan", !.length = 1, !.held = {"controller"}]

(* Whoever lets go last destroys the run: its fields mean nothing any more.    *)
LetGo(run, who) ==
  IF run.held \subseteq who
  THEN [NotStarted EXCEPT !.at = run.at, !.length = run.length]
  ELSE [run EXCEPT !.held = @ \ who]

(* A block for a controller that has been dealloc'd does nothing. *)
Sends(r, what) == mainQueue' = IF mode.alive THEN Append(mainQueue, [run |-> r, what |-> what])
                               ELSE mainQueue

(* The scan looks at the flag before it goes on; a callback of the scan locks  *)
(* its weak pointer to the run.                                                *)
EnterCallback(r) ==
  /\ At(r, "scan") /\ ~runs[r].stopped
  /\ runs' = [runs EXCEPT ![r].at = "callback", ![r].held = IF Freed(r) THEN {} ELSE @ \cup {"queue"}]
  /\ UNCHANGED <<panel, store, mode, mainQueue, wanted, changes>>

CallbackReturns(r) == \* filtered out, or a location that is merely skipped
  /\ At(r, "callback")
  /\ runs' = [runs EXCEPT ![r] = LetGo([@ EXCEPT !.at = "scan"], {"queue"})]
  /\ UNCHANGED <<panel, store, mode, mainQueue, wanted, changes>>

Pending == \E i \in 1 .. Len(mainQueue) : mainQueue[i].what = "progress"

(* Bound: one report of progress at a time is under way.                       *)
ReportProgress(r) ==
  /\ At(r, "callback") /\ ~Pending
  /\ runs' = [runs EXCEPT ![r] = LetGo([@ EXCEPT !.at = "scan"], {"queue"})]
  /\ Sends(r, "progress")
  /\ UNCHANGED <<panel, store, mode, wanted, changes>>

(* Too many results, or a location that cannot be read: the run stops itself.  *)
StopItself(r) ==
  /\ At(r, "callback")
  /\ \E limited \in BOOLEAN :
       runs' = [runs EXCEPT ![r] = LetGo([@ EXCEPT !.at = "scan", !.limited = limited, !.stopped = TRUE],
                                         {"queue"})]
  /\ UNCHANGED <<panel, store, mode, mainQueue, wanted, changes>>

(* The scan is over and Decrement counts the block out. *)
ScanEnds(r) ==
  /\ At(r, "scan")
  /\ runs' = [runs EXCEPT ![r].at = "dry", ![r].length = @ - 1]
  /\ UNCHANGED <<panel, store, mode, mainQueue, wanted, changes>>

(* The handler of SearchForFiles, with the flag lowered: the finish callback   *)
(* locks the run.  Finish looks for a cancellation before the listing is built *)
(* and meanwhile; one that comes after the limit was reached does not count.   *)
(* Whether a location or a result could not be read is left open.              *)
Cancelled(r)  == runs[r].cancelled /\ ~runs[r].limited
Locked(r, at)  == runs' = [runs EXCEPT ![r].at = at, ![r].stopped = FALSE, ![r].held = @ \cup {"queue"}]

Finish(r) ==
  /\ At(r, "dry") /\ ~Freed(r)
  /\ \/ Cancelled(r) /\ Sends(r, "cancelled") /\ Locked(r, "return")
     \/ ~Cancelled(r) /\ Sends(r, "failed") /\ Locked(r, "return")
     \/ ~Cancelled(r) /\ UNCHANGED mainQueue /\ Locked(r, "build")
  /\ UNCHANGED <<panel, store, mode, wanted, changes>>

(* A reaper that looks from Decrement on sees an empty queue and does not      *)
(* wait, so that the run may be gone by now.  The handler is in memory that    *)
(* was freed; of what that may do the model has only the mildest outcome, that *)
(* the finish callback still finds its weak pointer empty.                     *)
FinishWithoutRun(r) ==
  /\ At(r, "dry") /\ Freed(r)
  /\ Goes(r, "return")
  /\ UNCHANGED <<panel, store, mode, mainQueue, wanted, changes>>

BuildSearchResultListing(r) ==
  /\ At(r, "build")
  /\ \E what \in IF Cancelled(r) THEN {"cancelled"} ELSE {"results", "failed"} : Sends(r, what)
  /\ Goes(r, "return")
  /\ UNCHANGED <<panel, store, mode, wanted, changes>>

(* The finish callback lets go of the run and the block of the queue ends.     *)
BlockEnds(r) ==
  /\ At(r, "return")
  /\ runs' = [runs EXCEPT ![r] = LetGo([@ EXCEPT !.at = "over"], {"queue"})]
  /\ UNCHANGED <<panel, store, mode, mainQueue, wanted, changes>>

-----------------------------------------------------------------------------
(* Reap hands the run to a background block, which waits for the queue if it   *)
(* is not empty.  Its own parameter goes when it returns.                      *)

StoppedRun(s, r) ==
  IF r = None THEN s
  ELSE [s EXCEPT ![r].cancelled = TRUE, ![r].stopped = @ \/ s[r].length > 0]

Dropped(s, r) == \* mutant: the run is let go of without a reaper
  IF r = None THEN s ELSE [s EXCEPT ![r] = LetGo(@, {"controller"})]

Reaped(s, r) ==
  IF r = None THEN s
  ELSE [s EXCEPT ![r].held = (@ \ {"controller"}) \cup {"main", "reaper"}, ![r].reaper = "begun"]

ReapReturns(r) ==
  /\ "main" \in runs[r].held
  /\ runs' = [runs EXCEPT ![r] = LetGo(@, {"main"})]
  /\ UNCHANGED <<panel, store, mode, mainQueue, wanted, changes>>

WaitOver(run) == LetGo([run EXCEPT !.reaper = "none"], {"reaper"})

Wait(r) ==
  /\ runs[r].reaper = "begun"
  /\ runs' = [runs EXCEPT ![r] = IF @.length = 0 THEN WaitOver(@) ELSE [@ EXCEPT !.reaper = "waits"]]
  /\ UNCHANGED <<panel, store, mode, mainQueue, wanted, changes>>

WaitReturns(r) ==
  /\ runs[r].reaper = "waits" /\ At(r, "over")
  /\ runs' = [runs EXCEPT ![r] = WaitOver(@)]
  /\ UNCHANGED <<panel, store, mode, mainQueue, wanted, changes>>

-----------------------------------------------------------------------------
(* The blocks of the main thread.                                             *)

MainIsFree == mode.alive /\ \A r \in Runs : "main" \notin runs[r].held

IsActive == store.phase = "Running"

Without(m) == [m EXCEPT !.active = None, !.content = NoContent, !.backend = None]

(* stopActiveRunPublishingCancellation: what it leaves of the runs and the store. *)
StoppedRuns == Reaped(StoppedRun(runs, mode.backend), mode.backend)
StoppedStore ==
  IF mode.active # None /\ store.run = mode.active /\ IsActive
  THEN [store EXCEPT !.phase = "Cancelled"] ELSE store

Close ==
  /\ mode' = Closed
  /\ runs' = StoppedRuns
  /\ store' = Idle
  /\ wanted' = Nobody

(* A result listing is not uniform: Search Mode is not presented over one.     *)
Present ==
  /\ MainIsFree /\ panel.result = None
  /\ runs' = StoppedRuns
  /\ store' = Idle
  /\ mode' = [Without(mode) EXCEPT !.presented = TRUE, !.expected = panel]
  /\ wanted' = Nobody
  /\ UNCHANGED <<panel, mainQueue, changes>>

Used(r) == runs[r].at # "none" \/ store.run = r

(* A search is planned for what the panel shows.  The backend may be missing,  *)
(* or refuse: no run is left then.                                             *)
StartSearch(r) ==
  /\ MainIsFree /\ mode.presented /\ panel = mode.expected
  /\ ~Used(r) /\ \A q \in Runs : q < r => Used(q)
  /\ \/ /\ store' = [run |-> r, phase |-> "Running"]
        /\ runs' = [StoppedRuns EXCEPT ![r] = Going]
        /\ mode' = [mode EXCEPT !.active = r, !.content = panel, !.backend = r]
        /\ wanted' = [run |-> r, content |-> panel]
     \/ /\ \E phase \in {"Unavailable", "Failed"} : store' = [run |-> r, phase |-> phase]
        /\ runs' = [StoppedRuns EXCEPT ![r].at = "over"]
        /\ mode' = Without(mode)
        /\ wanted' = Nobody
  /\ UNCHANGED <<panel, mainQueue, changes>>

Cancel ==
  /\ MainIsFree
  /\ runs' = StoppedRuns
  /\ store' = StoppedStore
  /\ mode' = Without(mode)
  /\ wanted' = Nobody
  /\ UNCHANGED <<panel, mainQueue, changes>>

CloseMode ==
  /\ MainIsFree /\ mode.presented
  /\ Close
  /\ UNCHANGED <<panel, mainQueue, changes>>

(* The search button and every notification of the panel look first whether   *)
(* it still shows what the controller expects.                                *)
SynchronizeExternalContentChange ==
  /\ MainIsFree /\ mode.presented /\ panel # mode.expected
  /\ Close
  /\ UNCHANGED <<panel, mainQueue, changes>>

(* Navigation, a refresh or another panelized listing. *)
ExternalChange ==
  /\ MainIsFree /\ changes < MaxChanges
  /\ changes' = changes + 1
  /\ panel' = [generation |-> panel.generation + 1, result |-> None]
  /\ UNCHANGED <<store, mode, runs, mainQueue, wanted>>

Dealloc ==
  /\ MainIsFree
  /\ mode' = [Closed EXCEPT !.alive = FALSE]
  /\ runs' = StoppedRuns
  /\ store' = Idle
  /\ wanted' = Nobody
  /\ mainQueue' = <<>>
  /\ UNCHANGED <<panel, changes>>

-----------------------------------------------------------------------------
(* Blocks that callbacks sent.  A callback counts only for the run the         *)
(* controller and the store are at, and over the content that run began with;  *)
(* other content closes the mode.                                              *)

Current(r) == mode.presented /\ mode.active = r /\ store.run = r /\ IsActive

Arrives(r, what) == mainQueue # <<>> /\ Head(mainQueue) = [run |-> r, what |-> what]

SameContentAlways == TRUE \* mutant: the panel is not looked at again

SameContent == panel = mode.content

LateCallback(r, what) ==
  /\ MainIsFree /\ Arrives(r, what)
  /\ ~Current(r)
  /\ mainQueue' = Tail(mainQueue)
  /\ UNCHANGED <<panel, store, mode, runs, wanted, changes>>

FencedCallback(r, what) ==
  /\ MainIsFree /\ Arrives(r, what)
  /\ Current(r) /\ ~SameContent
  /\ Close
  /\ mainQueue' = Tail(mainQueue)
  /\ UNCHANGED <<panel, changes>>

AcceptProgress(r) ==
  /\ MainIsFree /\ Arrives(r, "progress")
  /\ Current(r) /\ SameContent
  /\ mainQueue' = Tail(mainQueue)
  /\ UNCHANGED <<panel, store, mode, runs, wanted, changes>>

EndedIfShown(r, phase) == \* mutant: a listing that was not taken leaves the search running
  /\ store' = IF phase = "Failed" THEN store ELSE [run |-> r, phase |-> phase]
  /\ runs' = Reaped(runs, mode.backend)

Ended(r, phase) ==
  /\ store' = [run |-> r, phase |-> phase]
  /\ runs' = Reaped(runs, mode.backend)

AcceptEnd(r, what, phase) ==
  /\ MainIsFree /\ Arrives(r, what)
  /\ Current(r) /\ SameContent
  /\ Ended(r, phase)
  /\ mode' = Without(mode)
  /\ mainQueue' = Tail(mainQueue)
  /\ wanted' = Nobody
  /\ UNCHANGED <<panel, changes>>

Shown(r) == [generation |-> panel.generation + 1, result |-> r]

(* The panel takes the listing, or does not, or throws halfway; an answer that *)
(* contradicts itself fails as well.                                           *)
AcceptResults(r) ==
  /\ MainIsFree /\ Arrives(r, "results")
  /\ Current(r) /\ SameContent
  /\ \/ /\ panel' = Shown(r)
        /\ Ended(r, "Results")
        /\ mode' = [Without(mode) EXCEPT !.expected = Shown(r)]
     \/ /\ panel' \in {panel, Shown(r)}
        /\ Ended(r, "Failed")
        /\ mode' = Without(mode)
  /\ mainQueue' = Tail(mainQueue)
  /\ wanted' = Nobody
  /\ UNCHANGED changes

-----------------------------------------------------------------------------
QueueThread(r) ==
  \/ CallbackReturns(r) \/ ReportProgress(r) \/ StopItself(r)
  \/ Finish(r) \/ FinishWithoutRun(r) \/ BuildSearchResultListing(r) \/ BlockEnds(r)

Reaper(r) == Wait(r) \/ WaitReturns(r)

MainBlock(r) ==
  \/ AcceptProgress(r) \/ AcceptResults(r)
  \/ AcceptEnd(r, "cancelled", "Cancelled") \/ AcceptEnd(r, "failed", "Failed")
  \/ \E what \in {"progress", "results", "cancelled", "failed"} :
       LateCallback(r, what) \/ FencedCallback(r, what)

Next ==
  \/ \E r \in Runs :
       \/ EnterCallback(r) \/ ScanEnds(r) \/ QueueThread(r) \/ Reaper(r) \/ ReapReturns(r)
       \/ MainBlock(r) \/ StartSearch(r)
  \/ Present \/ Cancel \/ CloseMode \/ SynchronizeExternalContentChange \/ ExternalChange
  \/ Dealloc

Spec == Init /\ [][Next]_vars

(* Threads of the system run what is ready: the block of a queue once begun,  *)
(* the reaper in the background, the blocks of the main queue.  A directory    *)
(* tree is finite, so that a scan that is not stopped ends as well.  Each      *)
(* thread is fair to itself; that some ready one goes on is all it takes,      *)
(* because a search has finitely many such steps.                              *)
SomeThread == \E r \in Runs : QueueThread(r) \/ Reaper(r) \/ ReapReturns(r) \/ MainBlock(r)
SomeScan   == \E r \in Runs : ScanEnds(r)

Fairness == WF_vars(SomeThread) /\ SF_vars(SomeScan)

FairSpec == Spec /\ Fairness

-----------------------------------------------------------------------------
(* What the panel shows becomes the listing of a search only while the user   *)
(* waits for that very search and over the content it was begun for: never    *)
(* that of one cancelled, closed or followed by another, and never in place   *)
(* of a folder the user went to meanwhile (validateCallbackForRun and the     *)
(* order of stopActiveRun, Start and the blocks of the main queue).           *)
CommitsOnlyTheWanted ==
  panel' # panel /\ panel'.result # None => wanted = [run |-> panel'.result, content |-> panel]
OnlyTheWantedSearchCommits == [][CommitsOnlyTheWanted]_vars

(* A run is destroyed only when nothing of its scan is left: the destructors  *)
(* of SearchForFiles and SerialQueue never wait, neither the main thread for  *)
(* a scan nor the queue's own thread, which may be the last to let go, for    *)
(* itself.                                                                    *)
DestructorsNeverWait == \A r \in Runs : Freed(r) => runs[r].length = 0

(* Every search ends: the mode shows how, or has gone with its controller, and *)
(* the run is let go of by all who held it (acceptCompletion, Reap, dealloc).  *)
EverySearchEnds ==
  \A r \in Runs :
    runs[r].held # {} ~>
      runs[r].held = {} /\ store # [run |-> r, phase |-> "Running"]
=============================================================================
