-------------------------- MODULE SearchModeProofs --------------------------
(***************************************************************************)
(* Theorems about SearchMode: whoever lets go of a run last finds its      *)
(* queue empty, and the panel shows only the listing the user waits for.   *)
(***************************************************************************)
EXTENDS SearchMode, TLAPS

USE SearchAssumption

Contents == [generation : Nat, result : Runs \cup {None}]
Phases   == {"Idle", "Running", "Results", "Cancelled", "Failed", "Unavailable"}
Whats    == {"progress", "results", "cancelled", "failed"}
Blocks   == [run : Runs, what : Whats]
Holders  == {"controller", "reaper", "main", "queue"}
Places   == {"none", "scan", "callback", "dry", "build", "return", "over"}

RunStates ==
  [at : Places, length : {0, 1}, stopped : BOOLEAN, cancelled : BOOLEAN, limited : BOOLEAN,
   held : SUBSET Holders, reaper : {"none", "begun", "waits"}]

(* The ranges of the state. *)
TypeOK ==
  /\ panel \in Contents
  /\ store \in [run : Runs \cup {None}, phase : Phases]
  /\ mode \in [alive : BOOLEAN, presented : BOOLEAN, expected : Contents, active : Runs \cup {None},
               content : Contents, backend : Runs \cup {None}]
  /\ runs \in [Runs -> RunStates]
  /\ mainQueue \in Seq(Blocks)
  /\ wanted \in [run : Runs \cup {None}, content : Contents]
  /\ changes \in Nat

(* The custody of a run: the queue is busy exactly while the block scans; the *)
(* controller holds the run that is its backend and the reaper the run it     *)
(* waits for; one of the two holds every run that scans, and nobody holds one *)
(* that was not begun.                                                        *)
Scanning(run) == run.at \in {"scan", "callback"}

InCustody(run, owned) ==
  /\ run.length = IF Scanning(run) THEN 1 ELSE 0
  /\ "controller" \in run.held <=> owned
  /\ "reaper" \in run.held <=> run.reaper # "none"
  /\ Scanning(run) => "controller" \in run.held \/ "reaper" \in run.held
  /\ run.at = "none" => run.held = {}

Custody(s, owner) ==
  /\ s \in [Runs -> RunStates]
  /\ \A r \in Runs : InCustody(s[r], owner = r)

RunsInCustody == Custody(runs, mode.backend)

(* The search the user waits for is the one the controller is at.             *)
WantedIsActive ==
  mode.active # None => wanted = [run |-> mode.active, content |-> mode.content]

IInv == TypeOK /\ RunsInCustody /\ WantedIsActive

-----------------------------------------------------------------------------
(* What the operators on runs keep of the custody.                            *)

(* Letting go keeps the custody of a run, for those who do not own it.        *)
LEMMA LetGoKeepsCustody ==
  ASSUME NEW run \in RunStates, NEW owned \in BOOLEAN, InCustody(run, owned),
         NEW who \in {"queue", "main"}
  PROVE  LetGo(run, {who}) \in RunStates /\ InCustody(LetGo(run, {who}), owned)
BY DEF LetGo, NotStarted, RunStates, InCustody, Scanning, Places, Holders

(* The reaper lets go of a run that no longer scans. *)
LEMMA WaitOverKeepsCustody ==
  ASSUME NEW run \in RunStates, NEW owned \in BOOLEAN, InCustody(run, owned), ~Scanning(run)
  PROVE  WaitOver(run) \in RunStates /\ InCustody(WaitOver(run), owned)
BY DEF WaitOver, LetGo, NotStarted, RunStates, InCustody, Scanning, Places, Holders

(* A change of one run that keeps its custody keeps that of all. *)
LEMMA OneRunChanges ==
  ASSUME NEW s, NEW b, NEW c, NEW r \in Runs, NEW x \in RunStates,
         Custody(s, b), InCustody(x, c = r), \A q \in Runs \ {r} : (b = q) = (c = q)
  PROVE  Custody([s EXCEPT ![r] = x], c)
BY DEF Custody

(* Stopping a run raises flags only. *)
LEMMA StoppedRunKeepsCustody ==
  ASSUME NEW s, NEW b \in Runs \cup {None}, Custody(s, b)
  PROVE  /\ Custody(StoppedRun(s, b), b)
         /\ \A r \in Runs : StoppedRun(s, b)[r].at = s[r].at
<1>1. CASE b = None
  BY <1>1 DEF StoppedRun
<1>2. CASE b # None
  <2> DEFINE x == [s[b] EXCEPT !.cancelled = TRUE, !.stopped = @ \/ s[b].length > 0]
  <2>1. b \in Runs /\ s[b] \in RunStates /\ InCustody(s[b], TRUE)
    BY <1>2 DEF Custody
  <2>2. StoppedRun(s, b) = [s EXCEPT ![b] = x]
    <3>1. s \in [Runs -> RunStates] /\ b \in Runs /\ s[b] \in RunStates
      BY <2>1 DEF Custody
    <3>2. QED
      BY <1>2, <3>1 DEF StoppedRun
  <2>3. x \in RunStates /\ InCustody(x, TRUE) /\ x.at = s[b].at
    BY <2>1 DEF RunStates, InCustody, Scanning
  <2> HIDE DEF x
  <2>4. Custody([s EXCEPT ![b] = x], b)
    BY <2>1, <2>3, OneRunChanges
  <2>5. QED
    BY <2>1, <2>2, <2>3, <2>4 DEF Custody
<1>3. QED
  BY <1>1, <1>2

(* Reap takes a run over from the controller, which then has none. *)
LEMMA ReapedKeepsCustody ==
  ASSUME NEW s, NEW b \in Runs \cup {None}, Custody(s, b)
  PROVE  /\ Custody(Reaped(s, b), None)
         /\ \A r \in Runs : Reaped(s, b)[r].at = s[r].at
<1>1. CASE b = None
  BY <1>1 DEF Reaped
<1>2. CASE b # None
  <2> DEFINE x == [s[b] EXCEPT !.held = (@ \ {"controller"}) \cup {"main", "reaper"}, !.reaper = "begun"]
  <2>1. b \in Runs /\ s[b] \in RunStates /\ InCustody(s[b], TRUE)
    BY <1>2 DEF Custody
  <2>2. Reaped(s, b) = [s EXCEPT ![b] = x]
    BY <1>2, <2>1 DEF Reaped, Custody
  <2>3. \A q \in Runs : None # q
    BY DEF None, Runs
  <2>4. x \in RunStates /\ InCustody(x, None = b) /\ x.at = s[b].at
    BY <2>1, <2>3 DEF RunStates, InCustody, Scanning, Holders
  <2> HIDE DEF x
  <2>5. Custody([s EXCEPT ![b] = x], None)
    BY <2>1, <2>3, <2>4, OneRunChanges
  <2>6. QED
    BY <2>1, <2>2, <2>4, <2>5 DEF Custody
<1>3. QED
  BY <1>1, <1>2

LEMMA StoppedRunsInCustody ==
  ASSUME TypeOK, RunsInCustody
  PROVE  /\ Custody(StoppedRuns, None)
         /\ \A r \in Runs : StoppedRuns[r].at = runs[r].at
BY StoppedRunKeepsCustody, ReapedKeepsCustody DEF StoppedRuns, TypeOK, RunsInCustody

LEMMA EndedRunsInCustody ==
  ASSUME TypeOK, RunsInCustody
  PROVE  Custody(Reaped(runs, mode.backend), None)
BY ReapedKeepsCustody DEF TypeOK, RunsInCustody

-----------------------------------------------------------------------------
(* The steps of a run's own threads.                                          *)

(* A step that changes one run and keeps its custody, and sends at most.      *)
LEMMA RunStepKeeps ==
  ASSUME IInv, NEW r \in Runs, NEW x \in RunStates, InCustody(x, mode.backend = r),
         runs' = [runs EXCEPT ![r] = x],
         \/ UNCHANGED mainQueue
         \/ \E what \in Whats : Sends(r, what),
         UNCHANGED <<panel, store, mode, wanted, changes>>
  PROVE  IInv'
<1>1. Custody([runs EXCEPT ![r] = x], mode.backend)
  BY OneRunChanges DEF IInv, RunsInCustody
<1>2. mainQueue' \in Seq(Blocks)
  <2>1. mainQueue \in Seq(Blocks)
    BY DEF IInv, TypeOK
  <2>2. ASSUME NEW what \in Whats, Sends(r, what) PROVE mainQueue' \in Seq(Blocks)
    <3>1. [run |-> r, what |-> what] \in Blocks
      BY DEF Blocks
    <3>2. QED
      BY <2>1, <2>2, <3>1 DEF Sends
  <2>3. QED
    BY <2>1, <2>2
<1>3. QED
  BY <1>1, <1>2 DEF IInv, TypeOK, RunsInCustody, Custody, WantedIsActive

LEMMA QueueThreadKeeps ==
  ASSUME IInv, NEW r \in Runs, EnterCallback(r) \/ ScanEnds(r) \/ QueueThread(r)
  PROVE  IInv'
<1> DEFINE run == runs[r]
           owned == mode.backend = r
<1>1. run \in RunStates /\ InCustody(run, owned) /\ owned \in BOOLEAN
      /\ runs \in [Runs -> RunStates]
  BY DEF IInv, RunsInCustody, Custody
<1>2. ASSUME EnterCallback(r) PROVE IInv'
  <2> DEFINE x == [run EXCEPT !.at = "callback", !.held = IF Freed(r) THEN {} ELSE @ \cup {"queue"}]
  <2>1. x \in RunStates /\ InCustody(x, owned)
    BY <1>1, <1>2 DEF EnterCallback, At, Freed, RunStates, InCustody, Scanning, Places, Holders
  <2>2. runs' = [runs EXCEPT ![r] = x]
    BY <1>1, <1>2 DEF EnterCallback
  <2>3. QED
    BY <1>2, <2>1, <2>2, RunStepKeeps DEF EnterCallback
<1>3. ASSUME CallbackReturns(r) \/ ReportProgress(r) PROVE IInv'
  <2> DEFINE x == LetGo([run EXCEPT !.at = "scan"], {"queue"})
  <2>1. [run EXCEPT !.at = "scan"] \in RunStates /\ InCustody([run EXCEPT !.at = "scan"], owned)
    BY <1>1, <1>3 DEF CallbackReturns, ReportProgress, At, RunStates, InCustody, Scanning, Places
  <2>2. x \in RunStates /\ InCustody(x, owned)
    BY <1>1, <2>1, LetGoKeepsCustody
  <2>3. runs' = [runs EXCEPT ![r] = x]
    BY <1>3 DEF CallbackReturns, ReportProgress
  <2>4. QED
    BY <1>3, <2>2, <2>3, RunStepKeeps DEF CallbackReturns, ReportProgress, Whats
<1>4. ASSUME StopItself(r) PROVE IInv'
  <2>1. PICK limited \in BOOLEAN :
          runs' = [runs EXCEPT ![r] = LetGo([@ EXCEPT !.at = "scan", !.limited = limited, !.stopped = TRUE],
                                            {"queue"})]
    BY <1>4 DEF StopItself
  <2> DEFINE y == [run EXCEPT !.at = "scan", !.limited = limited, !.stopped = TRUE]
  <2>2. y \in RunStates /\ InCustody(y, owned)
    BY <1>1, <1>4 DEF StopItself, At, RunStates, InCustody, Scanning, Places
  <2>3. LetGo(y, {"queue"}) \in RunStates /\ InCustody(LetGo(y, {"queue"}), owned)
    BY <1>1, <2>2, LetGoKeepsCustody
  <2>4. QED
    BY <1>4, <2>1, <2>3, RunStepKeeps DEF StopItself
<1>5. ASSUME ScanEnds(r) PROVE IInv'
  <2> DEFINE x == [run EXCEPT !.at = "dry", !.length = @ - 1]
  <2>1. x \in RunStates /\ InCustody(x, owned)
    BY <1>1, <1>5 DEF ScanEnds, At, RunStates, InCustody, Scanning, Places
  <2>2. runs' = [runs EXCEPT ![r] = x]
    BY <1>1, <1>5 DEF ScanEnds
  <2>3. QED
    BY <1>5, <2>1, <2>2, RunStepKeeps DEF ScanEnds
<1>6. ASSUME Finish(r) PROVE IInv'
  <2>1. PICK at \in {"return", "build"} :
          Locked(r, at) /\ (UNCHANGED mainQueue \/ \E what \in Whats : Sends(r, what))
    BY <1>6 DEF Finish, Whats
  <2> DEFINE x == [run EXCEPT !.at = at, !.stopped = FALSE, !.held = @ \cup {"queue"}]
  <2>2. x \in RunStates /\ InCustody(x, owned)
    BY <1>1, <1>6, <2>1 DEF Finish, At, RunStates, InCustody, Scanning, Places, Holders
  <2>3. runs' = [runs EXCEPT ![r] = x]
    BY <1>1, <2>1 DEF Locked
  <2>4. QED
    BY <1>6, <2>1, <2>2, <2>3, RunStepKeeps DEF Finish
<1>7. ASSUME FinishWithoutRun(r) \/ BuildSearchResultListing(r) PROVE IInv'
  <2> DEFINE x == [run EXCEPT !.at = "return"]
  <2>1. x \in RunStates /\ InCustody(x, owned)
    BY <1>1, <1>7 DEF FinishWithoutRun, BuildSearchResultListing, At, RunStates, InCustody, Scanning, Places
  <2>2. runs' = [runs EXCEPT ![r] = x]
    BY <1>1, <1>7 DEF FinishWithoutRun, BuildSearchResultListing, Goes
  <2>3. QED
    BY <1>7, <2>1, <2>2, RunStepKeeps DEF FinishWithoutRun, BuildSearchResultListing, Whats
<1>8. ASSUME BlockEnds(r) PROVE IInv'
  <2> DEFINE y == [run EXCEPT !.at = "over"]
  <2>1. y \in RunStates /\ InCustody(y, owned)
    BY <1>1, <1>8 DEF BlockEnds, At, RunStates, InCustody, Scanning, Places
  <2>2. LetGo(y, {"queue"}) \in RunStates /\ InCustody(LetGo(y, {"queue"}), owned)
    BY <1>1, <2>1, LetGoKeepsCustody
  <2>3. QED
    BY <1>8, <2>2, RunStepKeeps DEF BlockEnds
<1>9. QED
  BY <1>2, <1>3, <1>4, <1>5, <1>6, <1>7, <1>8 DEF QueueThread

LEMMA ReaperKeeps ==
  ASSUME IInv, NEW r \in Runs, Reaper(r) \/ ReapReturns(r)
  PROVE  IInv'
<1> DEFINE run == runs[r]
           owned == mode.backend = r
<1>1. run \in RunStates /\ InCustody(run, owned) /\ owned \in BOOLEAN
      /\ runs \in [Runs -> RunStates]
  BY DEF IInv, RunsInCustody, Custody
<1>2. ASSUME ReapReturns(r) PROVE IInv'
  <2>1. LetGo(run, {"main"}) \in RunStates /\ InCustody(LetGo(run, {"main"}), owned)
    BY <1>1, LetGoKeepsCustody
  <2>2. QED
    BY <1>2, <2>1, RunStepKeeps DEF ReapReturns
<1>3. ASSUME Wait(r), run.length = 0 PROVE IInv'
  <2>1. ~Scanning(run)
    BY <1>1, <1>3 DEF InCustody
  <2>2. WaitOver(run) \in RunStates /\ InCustody(WaitOver(run), owned)
    BY <1>1, <2>1, WaitOverKeepsCustody
  <2>3. QED
    BY <1>3, <2>2, RunStepKeeps DEF Wait
<1>4. ASSUME Wait(r), run.length # 0 PROVE IInv'
  <2> DEFINE x == [run EXCEPT !.reaper = "waits"]
  <2>1. x \in RunStates /\ InCustody(x, owned)
    BY <1>1, <1>4 DEF Wait, RunStates, InCustody, Scanning
  <2>2. QED
    BY <1>4, <2>1, RunStepKeeps DEF Wait
<1>5. ASSUME WaitReturns(r) PROVE IInv'
  <2>1. ~Scanning(run)
    BY <1>5 DEF WaitReturns, At, Scanning
  <2>2. WaitOver(run) \in RunStates /\ InCustody(WaitOver(run), owned)
    BY <1>1, <2>1, WaitOverKeepsCustody
  <2>3. QED
    BY <1>5, <2>2, RunStepKeeps DEF WaitReturns
<1>6. QED
  BY <1>2, <1>3, <1>4, <1>5 DEF Reaper

-----------------------------------------------------------------------------
(* The blocks of the main thread.                                             *)

(* A block that lets the backend go leaves the runs in the reaper's custody.  *)
LEMMA BackendGone ==
  ASSUME IInv, runs' = StoppedRuns \/ runs' = Reaped(runs, mode.backend), mode'.backend = None
  PROVE  RunsInCustody' /\ runs' \in [Runs -> RunStates]
BY StoppedRunsInCustody, EndedRunsInCustody DEF IInv, RunsInCustody, Custody

LEMMA NoContentIsContent == NoContent \in Contents /\ Nobody \in [run : Runs \cup {None}, content : Contents]
BY DEF NoContent, Nobody, Contents

LEMMA StoppedStoreIsTyped ==
  ASSUME TypeOK PROVE StoppedStore \in [run : Runs \cup {None}, phase : Phases]
BY DEF TypeOK, StoppedStore, IsActive, Phases

LEMMA ModeIsTyped ==
  ASSUME TypeOK
  PROVE  LET Modes == [alive : BOOLEAN, presented : BOOLEAN, expected : Contents, active : Runs \cup {None},
                       content : Contents, backend : Runs \cup {None}]
         IN  /\ Closed \in Modes /\ Closed.backend = None /\ Closed.active = None
             /\ [Closed EXCEPT !.alive = FALSE] \in Modes
             /\ Without(mode) \in Modes /\ Without(mode).backend = None /\ Without(mode).active = None
             /\ \A c \in Contents, p \in BOOLEAN :
                  [Without(mode) EXCEPT !.presented = p, !.expected = c] \in Modes
BY NoContentIsContent DEF TypeOK, Closed, Without

LEMMA CloseKeeps ==
  ASSUME IInv, Close, UNCHANGED <<panel, changes>>, mainQueue' \in Seq(Blocks)
  PROVE  IInv'
<1>1. mode'.backend = None /\ mode'.active = None
  BY DEF Close, Closed
<1>2. RunsInCustody' /\ runs' \in [Runs -> RunStates]
  BY <1>1, BackendGone DEF Close
<1>3. TypeOK'
  BY <1>2, NoContentIsContent, ModeIsTyped DEF IInv, TypeOK, Close, Idle, Phases
<1>4. QED
  BY <1>1, <1>2, <1>3 DEF IInv, WantedIsActive

(* The user's blocks. *)
LEMMA UserKeeps ==
  ASSUME IInv, \/ Present \/ Cancel \/ CloseMode \/ SynchronizeExternalContentChange
               \/ ExternalChange \/ Dealloc
  PROVE  IInv'
<1>0. TypeOK
  BY DEF IInv
<1>1. ASSUME Present PROVE IInv'
  <2>1. mode'.backend = None /\ mode'.active = None
    BY <1>1, ModeIsTyped, <1>0 DEF Present, Without, TypeOK
  <2>2. RunsInCustody' /\ runs' \in [Runs -> RunStates]
    BY <1>1, <2>1, BackendGone DEF Present
  <2>3. TypeOK'
    BY <1>0, <1>1, <2>2, NoContentIsContent, ModeIsTyped DEF TypeOK, Present, Idle, Phases
  <2>4. QED
    BY <2>1, <2>2, <2>3 DEF IInv, WantedIsActive
<1>2. ASSUME Cancel PROVE IInv'
  <2>1. mode'.backend = None /\ mode'.active = None
    BY <1>2, ModeIsTyped, <1>0 DEF Cancel
  <2>2. RunsInCustody' /\ runs' \in [Runs -> RunStates]
    BY <1>2, <2>1, BackendGone DEF Cancel
  <2>3. TypeOK'
    BY <1>0, <1>2, <2>2, NoContentIsContent, ModeIsTyped, StoppedStoreIsTyped DEF TypeOK, Cancel
  <2>4. QED
    BY <2>1, <2>2, <2>3 DEF IInv, WantedIsActive
<1>3. ASSUME CloseMode \/ SynchronizeExternalContentChange PROVE IInv'
  BY <1>0, <1>3, CloseKeeps DEF CloseMode, SynchronizeExternalContentChange, TypeOK
<1>4. ASSUME ExternalChange PROVE IInv'
  <2>1. panel' \in Contents /\ changes' \in Nat
    BY <1>0, <1>4 DEF ExternalChange, TypeOK, Contents
  <2>2. QED
    BY <1>4, <2>1 DEF ExternalChange, IInv, TypeOK, RunsInCustody, WantedIsActive
<1>5. ASSUME Dealloc PROVE IInv'
  <2>1. mode'.backend = None /\ mode'.active = None
    BY <1>5 DEF Dealloc, Closed
  <2>2. RunsInCustody' /\ runs' \in [Runs -> RunStates]
    BY <1>5, <2>1, BackendGone DEF Dealloc
  <2>3. mainQueue' \in Seq(Blocks)
    BY <1>5 DEF Dealloc
  <2>4. TypeOK'
    BY <1>0, <1>5, <2>2, <2>3, NoContentIsContent, ModeIsTyped DEF TypeOK, Dealloc, Idle, Phases
  <2>5. QED
    BY <2>1, <2>2, <2>4 DEF IInv, WantedIsActive
<1>6. QED
  BY <1>1, <1>2, <1>3, <1>4, <1>5

(* A search that begins, or could not. *)
LEMMA StartSearchKeeps ==
  ASSUME IInv, NEW r \in Runs, StartSearch(r)
  PROVE  IInv'
<1>0. TypeOK /\ panel \in Contents
  BY DEF IInv, TypeOK
<1>1. /\ Custody(StoppedRuns, None)
      /\ StoppedRuns[r].at = "none" /\ StoppedRuns[r] \in RunStates
  BY StoppedRunsInCustody DEF StartSearch, Used, IInv, Custody
<1>2. InCustody(StoppedRuns[r], FALSE)
  <2>1. None # r
    BY DEF Runs, None
  <2>2. QED
    BY <1>1, <2>1 DEF Custody, InCustody
<1>3. \A q \in Runs : None # q
  BY DEF Runs, None
<1>4. CASE /\ store' = [run |-> r, phase |-> "Running"]
           /\ runs' = [StoppedRuns EXCEPT ![r] = Going]
           /\ mode' = [mode EXCEPT !.active = r, !.content = panel, !.backend = r]
           /\ wanted' = [run |-> r, content |-> panel]
  <2>1. Going \in RunStates /\ InCustody(Going, r = r)
    BY DEF Going, NotStarted, RunStates, InCustody, Scanning, Places, Holders
  <2>2. \A q \in Runs \ {r} : (None = q) = (r = q)
    BY <1>3
  <2>3. Custody([StoppedRuns EXCEPT ![r] = Going], r)
    BY <1>1, <2>1, <2>2, OneRunChanges
  <2>4. mode'.backend = r /\ mode'.active = r /\ mode'.content = panel
    BY <1>0, <1>4 DEF TypeOK
  <2>5. RunsInCustody' /\ runs' \in [Runs -> RunStates]
    BY <1>4, <2>3, <2>4 DEF RunsInCustody, Custody
  <2>6. TypeOK'
    BY <1>0, <1>4, <2>5 DEF TypeOK, StartSearch, Phases
  <2>7. WantedIsActive'
    BY <1>4, <2>4 DEF WantedIsActive
  <2>8. QED
    BY <2>5, <2>6, <2>7 DEF IInv
<1>5. CASE /\ \E phase \in {"Unavailable", "Failed"} : store' = [run |-> r, phase |-> phase]
           /\ runs' = [StoppedRuns EXCEPT ![r].at = "over"]
           /\ mode' = Without(mode)
           /\ wanted' = Nobody
  <2> DEFINE x == [StoppedRuns[r] EXCEPT !.at = "over"]
  <2>1. x \in RunStates /\ InCustody(x, None = r)
    BY <1>1, <1>2, <1>3 DEF RunStates, InCustody, Scanning, Places, Holders
  <2>2. Custody([StoppedRuns EXCEPT ![r] = x], None)
    BY <1>1, <2>1, OneRunChanges
  <2>3. runs' = [StoppedRuns EXCEPT ![r] = x]
    BY <1>1, <1>5 DEF Custody
  <2>4. mode'.backend = None /\ mode'.active = None
    BY <1>0, <1>5, ModeIsTyped
  <2>5. RunsInCustody' /\ runs' \in [Runs -> RunStates]
    BY <2>2, <2>3, <2>4 DEF RunsInCustody, Custody
  <2>6. TypeOK'
    <3>1. store' \in [run : Runs \cup {None}, phase : Phases]
      BY <1>5 DEF Phases
    <3>2. QED
      BY <1>0, <1>5, <2>5, <3>1, ModeIsTyped, NoContentIsContent DEF TypeOK, StartSearch
  <2>7. QED
    BY <2>4, <2>5, <2>6 DEF IInv, WantedIsActive
<1>6. QED
  BY <1>4, <1>5 DEF StartSearch

(* The blocks that callbacks sent. *)
LEMMA MainBlockKeeps ==
  ASSUME IInv, NEW r \in Runs, MainBlock(r)
  PROVE  IInv'
<1>0. TypeOK /\ panel \in Contents
  BY DEF IInv, TypeOK
<1>1. ASSUME NEW what, Arrives(r, what), mainQueue' = Tail(mainQueue)
      PROVE  mainQueue' \in Seq(Blocks)
  BY <1>0, <1>1 DEF Arrives, TypeOK
<1>2. ASSUME NEW phase \in Phases, Ended(r, phase), mode'.backend = None
      PROVE  /\ RunsInCustody' /\ runs' \in [Runs -> RunStates]
             /\ store' \in [run : Runs \cup {None}, phase : Phases]
  BY <1>2, BackendGone DEF Ended
<1>3. ASSUME NEW what, LateCallback(r, what) PROVE IInv'
  BY <1>1, <1>3 DEF LateCallback, IInv, TypeOK, RunsInCustody, WantedIsActive
<1>4. ASSUME NEW what, FencedCallback(r, what) PROVE IInv'
  BY <1>1, <1>4, CloseKeeps DEF FencedCallback
<1>5. ASSUME AcceptProgress(r) PROVE IInv'
  BY <1>1, <1>5 DEF AcceptProgress, IInv, TypeOK, RunsInCustody, WantedIsActive
<1>6. ASSUME NEW what, NEW phase \in Phases, AcceptEnd(r, what, phase) PROVE IInv'
  <2>1. mode'.backend = None /\ mode'.active = None
    BY <1>0, <1>6, ModeIsTyped DEF AcceptEnd
  <2>2. /\ RunsInCustody' /\ runs' \in [Runs -> RunStates]
        /\ store' \in [run : Runs \cup {None}, phase : Phases]
    BY <1>2, <1>6, <2>1 DEF AcceptEnd
  <2>3. mainQueue' \in Seq(Blocks)
    BY <1>1, <1>6 DEF AcceptEnd
  <2>4. TypeOK'
    BY <1>0, <1>6, <2>2, <2>3, ModeIsTyped, NoContentIsContent DEF AcceptEnd, TypeOK
  <2>5. QED
    BY <2>1, <2>2, <2>4 DEF IInv, WantedIsActive
<1>7. ASSUME AcceptResults(r) PROVE IInv'
  <2>1. Shown(r) \in Contents
    BY <1>0 DEF Shown, Contents
  <2>2. /\ mode' \in {Without(mode), [Without(mode) EXCEPT !.expected = Shown(r)]}
        /\ panel' \in {panel, Shown(r)}
        /\ Ended(r, "Results") \/ Ended(r, "Failed")
    BY <1>7 DEF AcceptResults
  <2>3. mode'.backend = None /\ mode'.active = None
    <3>1. PICK left : left = Without(mode)
      OBVIOUS
    <3>2. /\ left \in [alive : BOOLEAN, presented : BOOLEAN, expected : Contents, active : Runs \cup {None},
                       content : Contents, backend : Runs \cup {None}]
          /\ left.backend = None /\ left.active = None
      BY <1>0, <3>1, ModeIsTyped
    <3>3. mode' = left \/ mode' = [left EXCEPT !.expected = Shown(r)]
      BY <2>2, <3>1
    <3>4. QED
      BY <3>2, <3>3
  <2>4. /\ RunsInCustody' /\ runs' \in [Runs -> RunStates]
        /\ store' \in [run : Runs \cup {None}, phase : Phases]
    BY <1>2, <2>2, <2>3 DEF Phases
  <2>5. mainQueue' \in Seq(Blocks)
    BY <1>1, <1>7 DEF AcceptResults
  <2>6. mode' \in [alive : BOOLEAN, presented : BOOLEAN, expected : Contents, active : Runs \cup {None},
                   content : Contents, backend : Runs \cup {None}]
    <3>1. PICK left : left = Without(mode)
      OBVIOUS
    <3>2. left \in [alive : BOOLEAN, presented : BOOLEAN, expected : Contents, active : Runs \cup {None},
                    content : Contents, backend : Runs \cup {None}]
      BY <1>0, <3>1, ModeIsTyped
    <3>3. mode' = left \/ mode' = [left EXCEPT !.expected = Shown(r)]
      BY <2>2, <3>1
    <3>4. QED
      BY <2>1, <3>2, <3>3
  <2>7. TypeOK'
    BY <1>0, <1>7, <2>1, <2>2, <2>4, <2>5, <2>6, NoContentIsContent DEF AcceptResults, TypeOK
  <2>8. QED
    BY <2>3, <2>4, <2>7 DEF IInv, WantedIsActive
<1>8. QED
  BY <1>3, <1>4, <1>5, <1>6, <1>7 DEF MainBlock, Phases

-----------------------------------------------------------------------------
LEMMA InitInductive == Init => IInv
<1> SUFFICES ASSUME Init PROVE IInv
  OBVIOUS
<1>1. TypeOK
  BY NoContentIsContent DEF Init, TypeOK, Contents, Idle, Phases, Closed, RunStates, NotStarted, Places, Holders
<1>2. RunsInCustody
  <2>1. \A r \in Runs : None # r
    BY DEF Runs, None
  <2>2. \A r \in Runs : InCustody(runs[r], mode.backend = r)
    BY <2>1 DEF Init, InCustody, Scanning, NotStarted, Closed
  <2>3. QED
    BY <1>1, <2>2 DEF RunsInCustody, Custody, TypeOK
<1>3. QED
  BY <1>1, <1>2 DEF IInv, WantedIsActive, Init, Closed

LEMMA StepInductive == IInv /\ [Next]_vars => IInv'
<1> SUFFICES ASSUME IInv, [Next]_vars PROVE IInv'
  OBVIOUS
<1>1. CASE UNCHANGED vars
  BY <1>1 DEF vars, IInv, TypeOK, RunsInCustody, WantedIsActive
<1>2. ASSUME NEW r \in Runs, EnterCallback(r) \/ ScanEnds(r) \/ QueueThread(r) PROVE IInv'
  BY <1>2, QueueThreadKeeps
<1>3. ASSUME NEW r \in Runs, Reaper(r) \/ ReapReturns(r) PROVE IInv'
  BY <1>3, ReaperKeeps
<1>4. ASSUME NEW r \in Runs, MainBlock(r) PROVE IInv'
  BY <1>4, MainBlockKeeps
<1>5. ASSUME NEW r \in Runs, StartSearch(r) PROVE IInv'
  BY <1>5, StartSearchKeeps
<1>6. ASSUME \/ Present \/ Cancel \/ CloseMode \/ SynchronizeExternalContentChange
             \/ ExternalChange \/ Dealloc
      PROVE  IInv'
  BY <1>6, UserKeeps
<1>7. QED
  BY <1>1, <1>2, <1>3, <1>4, <1>5, <1>6 DEF Next

(* The inductive invariant holds whatever is searched, cancelled or closed, in *)
(* whatever order the blocks of scans and reapers come.                        *)
THEOREM CustodyOfRuns == Spec => []IInv
BY InitInductive, StepInductive, PTL DEF Spec

(* No destructor ever waits for a scan, for any number of searches: a run that *)
(* nobody holds has an empty queue.                                            *)
THEOREM NoDestructorWaits == Spec => []DestructorsNeverWait
<1>1. IInv => DestructorsNeverWait
  BY DEF IInv, RunsInCustody, Custody, InCustody, DestructorsNeverWait, Freed, At
<1>2. QED
  BY <1>1, CustodyOfRuns, PTL

(* What the panel shows becomes a listing of the search the user waits for,    *)
(* over the content it was begun for, and of no other.                         *)
THEOREM OnlyTheWantedIsShown == Spec => OnlyTheWantedSearchCommits
<1>1. IInv /\ [Next]_vars => [CommitsOnlyTheWanted]_vars
  <2> SUFFICES ASSUME IInv, Next, panel' # panel, panel'.result # None
               PROVE  wanted = [run |-> panel'.result, content |-> panel]
    BY DEF CommitsOnlyTheWanted, vars
  <2>1. PICK r \in Runs : AcceptResults(r)
    <3>1. ~ExternalChange
      BY DEF ExternalChange
    <3>2. ~(Present \/ Cancel \/ CloseMode \/ SynchronizeExternalContentChange \/ Dealloc)
      BY DEF Present, Cancel, CloseMode, SynchronizeExternalContentChange, Dealloc
    <3>3. \A r \in Runs : ~(EnterCallback(r) \/ ScanEnds(r) \/ QueueThread(r))
      BY DEF EnterCallback, ScanEnds, QueueThread, CallbackReturns, ReportProgress, StopItself, Finish,
             FinishWithoutRun, BuildSearchResultListing, BlockEnds
    <3>4. \A r \in Runs : ~(Reaper(r) \/ ReapReturns(r) \/ StartSearch(r))
      BY DEF Reaper, Wait, WaitReturns, ReapReturns, StartSearch
    <3>5. \A r \in Runs : MainBlock(r) => AcceptResults(r)
      BY DEF MainBlock, AcceptProgress, AcceptEnd, LateCallback, FencedCallback
    <3>6. QED
      BY <3>1, <3>2, <3>3, <3>4, <3>5 DEF Next
  <2>2. panel' = Shown(r) /\ panel'.result = r
    BY <2>1 DEF AcceptResults, Shown
  <2>3. mode.active = r /\ mode.active # None /\ mode.content = panel
    BY <2>1 DEF AcceptResults, Current, SameContent, Runs, None
  <2>4. QED
    BY <2>2, <2>3 DEF IInv, WantedIsActive
<1>2. QED
  BY <1>1, CustodyOfRuns, PTL DEF Spec, OnlyTheWantedSearchCommits
=============================================================================
