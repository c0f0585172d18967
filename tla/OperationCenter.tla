-------------------------- MODULE OperationCenter --------------------------
(***************************************************************************)
(* The operation center (OperationCenterCoordinator.cpp and                *)
(* OperationCenterModel.cpp): the records a user sees and controls, kept   *)
(* in step with operations that are submitted, started, stopped, paused    *)
(* and finished by different threads.                                      *)
(*                                                                         *)
(* A residency ties a record to its operation.  Its cancel_gate is held by *)
(* a submission from the handoff to the pool until the orchestrator        *)
(* returns, by whoever cancels or pauses, and by whoever reports a         *)
(* terminal outcome.  The job's m_TransitionMutex is taken by stopping,    *)
(* pausing and completing, and by a launch that failed, which keeps it     *)
(* until the finish callback returns; the pool's m_StartGate is held while *)
(* operations are started.                                                 *)
(*                                                                         *)
(* A thread is the list of steps it still has to take.  A lock is held by  *)
(* the thread whose list has the step that gives it back.  The journal,    *)
(* the custodian and the pool are reduced to what Journal, Custodian and   *)
(* Pool say of them: a recorded outcome is told once, and a finalizer that *)
(* could not record keeps the operation.                                   *)
(***************************************************************************)
EXTENDS Naturals, Sequences, FiniteSets, SequencesExt

CONSTANTS
  Ops,          \* operations, each submitted by a thread of its own
  Controllers,  \* threads that cancel, pause and resume
  Others,       \* other threads: start what is queued, recover what the journal did not record
  MaxRevision   \* bound: no pause or resume beyond this revision

ASSUME CenterAssumption == IsFiniteSet(Ops)

Submitter(o) == <<"submit", o>>
Worker(o)    == <<"work", o>>
Controlling  == {"control"} \X Controllers
Helping      == {"other"} \X Others
Threads      == ({"submit", "work"} \X Ops) \cup Controlling \cup Helping

VARIABLES
  record,     \* the model's record of each operation: state and revision
  entry,      \* the journal's entry, as a reader of the journal sees it
  observer,   \* the terminal observer in the custodian's slot: none, waiting or told
  residency,  \* none, staged, live or retired
  inFlight,   \* LiveResidency::cancel_in_flight
  deferred,   \* LiveResidency::deferred_terminal
  job,        \* the flags of the operation's job
  pool,       \* out, queued, listed (to be started or running), finalizing or retained
  thread      \* the remaining steps of each thread

journal == <<entry, observer>>
center  == <<record, residency, inFlight, deferred>>
vars    == <<center, journal, job, pool, thread>>

Terminal == {"Completed", "Cancelled", "Interrupted"}
Live     == {"Queued", "Running", "Paused", "Cancelling"}
Nothing  == "none"

Init ==
  /\ record = [o \in Ops |-> [state |-> Nothing, revision |-> 0]]
  /\ entry = [o \in Ops |-> Nothing]
  /\ observer = [o \in Ops |-> Nothing]
  /\ residency = [o \in Ops |-> Nothing]
  /\ inFlight = [o \in Ops |-> FALSE]
  /\ deferred = [o \in Ops |-> Nothing]
  /\ job = [o \in Ops |-> [isRunning |-> FALSE, ended |-> Nothing]]
  /\ pool = [o \in Ops |-> "out"]
  /\ thread = [t \in Threads |-> <<>>]

-----------------------------------------------------------------------------
(* Threads and locks.  A step has an operation and an argument: a revision,   *)
(* or whether a job was running or stopped.                                   *)

Do(step, o, arg) == [step |-> step, op |-> o, arg |-> arg]
To(step, o)      == Do(step, o, 0)
Now(t)           == Head(thread[t])
Op(t)            == Now(t).op
At(t, step)      == thread[t] # <<>> /\ Now(t).step = step
Does(t, todo)    == thread' = [thread EXCEPT ![t] = todo \o Tail(@)]
Begins(t, todo)  == thread[t] = <<>> /\ thread' = [thread EXCEPT ![t] = todo]

Holds(t, lock, o)   == \E i \in DOMAIN thread[t] : thread[t][i].step = lock /\ thread[t][i].op = o
GateIsFree(t, o)    == \A u \in Threads \ {t} : ~Holds(u, "leaveGate", o)
TransitionIsFree(o) == \A u \in Threads : ~Holds(u, "leaveTransition", o)
StartGateIsFree(t)  == \A u \in Threads \ {t}, o \in Ops : ~Holds(u, "leaveStart", o)

Leave(t) ==
  /\ \E lock \in {"leaveGate", "leaveTransition", "leaveStart"} : At(t, lock)
  /\ Does(t, <<>>)
  /\ UNCHANGED <<center, journal, job, pool>>

-----------------------------------------------------------------------------
(* The model.  A terminal state is reached through Finalizing in one section  *)
(* of m_ReductionLock.                                                        *)

CanCancel(o) == record[o].state \in {"Queued", "Running", "Paused"}
CanPause(o)  == record[o].state = "Running"
CanResume(o) == record[o].state = "Paused"

Moved(r, state)      == [state |-> state, revision |-> r.revision + 1]
Applied(r, terminal) == IF r.state \in Live THEN Moved(Moved(r, "Finalizing"), terminal) ELSE r
Published(state)     == [state |-> state, revision |-> 1]

\* Pool::Operations() has what is finalizing too.
IsResident(o) == pool[o] # "out"

-----------------------------------------------------------------------------
(* Submission.  m_AdmissionLock keeps one submission between staging and      *)
(* committing.                                                                *)

StageAdmission(o) ==
  /\ entry[o] = Nothing /\ residency[o] = Nothing
  /\ \A p \in Ops : ~At(Submitter(p), "commit")
  /\ Begins(Submitter(o), <<To("commit", o)>>)
  /\ residency' = [residency EXCEPT ![o] = "staged"]
  /\ UNCHANGED <<record, inFlight, deferred, journal, job, pool>>

\* The journal admits and the record is published, or the journal refuses, or it
\* cannot tell: such an entry is seen again only when the journal is reopened.
CommitAdmission(t, o) ==
  /\ At(t, "commit") /\ o = Op(t)
  /\ \/ /\ entry' = [entry EXCEPT ![o] = "Live"]
        /\ record' = [record EXCEPT ![o] = Published("Queued")]
        /\ Does(t, <<To("submit", o)>>)
        /\ UNCHANGED residency
     \/ /\ entry' \in {entry, [entry EXCEPT ![o] = "Doubtful"]}
        /\ residency' = [residency EXCEPT ![o] = Nothing]
        /\ Does(t, <<>>)
        /\ UNCHANGED record
  /\ UNCHANGED <<inFlight, deferred, observer, job, pool>>

FromJournal(o) == <<Do("reduce", o, "journal"), To("retire", o)>>
Told(o)        == Do("reduce", o, "observer")

\* The orchestrator fails before a slot has the observer: the binding goes with it.
SubmitUnreserved(t, o) ==
  /\ At(t, "submit") /\ o = Op(t)
  /\ entry' \in {entry, [entry EXCEPT ![o] = "Cancelled"]}
  /\ residency' = [residency EXCEPT ![o] = Nothing]
  /\ Does(t, FromJournal(o))
  /\ UNCHANGED <<record, inFlight, deferred, observer, job, pool>>

\* FinalizeBeforeEnqueue or RejectEnqueue: recorded and told, or left in the slot.
Rejects(t, o, rest) ==
  /\ \/ /\ entry' = [entry EXCEPT ![o] = "Cancelled"]
        /\ thread' = [thread EXCEPT ![t] = <<Told(o)>> \o rest]
     \/ /\ thread' = [thread EXCEPT ![t] = rest]
        /\ UNCHANGED entry
  /\ observer' = [observer EXCEPT ![o] = "waiting"]

SubmitCancelled(t, o) ==
  /\ At(t, "submit") /\ o = Op(t)
  /\ Rejects(t, o, FromJournal(o))
  /\ UNCHANGED <<center, job, pool>>

\* The lease: RegisterLiveResidency under the new residency's own gate.
RegisterLiveResidency(t, o) ==
  /\ At(t, "submit") /\ o = Op(t)
  /\ residency' = [residency EXCEPT ![o] = "live"]
  /\ observer' = [observer EXCEPT ![o] = "waiting"]
  /\ Does(t, <<To("enqueue", o), To("leaveGate", o)>>)
  /\ UNCHANGED <<record, inFlight, deferred, entry, job, pool>>

EnqueueAccepted(t, o) ==
  /\ At(t, "enqueue") /\ o = Op(t)
  /\ pool' = [pool EXCEPT ![o] = "queued"]
  /\ Does(t, <<To("startPending", o)>>)
  /\ UNCHANGED <<center, journal, job>>

EnqueueRejected(t, o) ==
  /\ At(t, "enqueue") /\ o = Op(t)
  /\ Rejects(t, o, <<To("leaveGate", o)>> \o FromJournal(o))
  /\ UNCHANGED <<center, job, pool>>

RetireLiveResidency(t, o) ==
  /\ At(t, "retire") /\ o = Op(t)
  /\ residency' = [residency EXCEPT ![o] = IF @ = "live" THEN "retired" ELSE @]
  /\ Does(t, <<>>)
  /\ UNCHANGED <<record, inFlight, deferred, journal, job, pool>>

-----------------------------------------------------------------------------
(* The pool and the job.                                                      *)

\* Under m_Lock, then one operation after the other.
StartPendingOperations(t) ==
  /\ At(t, "startPending")
  /\ \E S \in SUBSET {o \in Ops : pool[o] = "queued"} : \E todo \in SetToSeqs(S) :
       /\ pool' = [o \in Ops |-> IF o \in S THEN "listed" ELSE pool[o]]
       /\ Does(t, [i \in DOMAIN todo |-> To("start", todo[i])])
  /\ UNCHANGED <<center, journal, job>>

\* Job::Run does nothing for a job that was stopped, and the observers of the
\* start are fired all the same.
Start(t, o) ==
  /\ At(t, "start") /\ o = Op(t)
  /\ StartGateIsFree(t)
  /\ IF job[o].ended = Nothing
     THEN /\ job' = [job EXCEPT ![o].isRunning = TRUE]
          /\ Does(t, <<To("launch", o), To("leaveStart", o)>>)
     ELSE /\ Does(t, <<To("started", o), To("leaveStart", o)>>)
          /\ UNCHANGED job
  /\ UNCHANGED <<center, journal, pool>>

Launch(t, o) ==
  /\ At(t, "launch") /\ o = Op(t)
  /\ thread' = [thread EXCEPT ![t] = <<To("started", o)>> \o Tail(@),
                              ![Worker(o)] = <<To("work", o)>>]
  /\ UNCHANGED <<center, journal, job, pool>>

LaunchFails(t, o) ==
  /\ At(t, "launch") /\ o = Op(t)
  /\ TransitionIsFree(o)
  /\ job' = [job EXCEPT ![o].isRunning = FALSE, ![o].ended = "Stopped"]
  /\ Does(t, <<To("finish", o), To("leaveTransition", o)>>)
  /\ UNCHANGED <<center, journal, pool>>

ReduceStarted(t, o) ==
  /\ At(t, "started") /\ o = Op(t)
  /\ record' = [record EXCEPT ![o] = IF @.state = "Queued" THEN Moved(@, "Running") ELSE @]
  /\ Does(t, <<>>)
  /\ UNCHANGED <<residency, inFlight, deferred, journal, job, pool>>

\* SetCompleted unless the job was stopped, then FinishExecution.
WorkEnds(t, o) ==
  /\ At(t, "work") /\ o = Op(t)
  /\ TransitionIsFree(o)
  /\ job' = [job EXCEPT ![o].isRunning = FALSE,
                        ![o].ended = IF @ = Nothing THEN "Completed" ELSE @]
  /\ Does(t, <<To("finish", o)>>)
  /\ UNCHANGED <<center, journal, pool>>

\* JobFinished fires nothing while the job is running; OperationDidFinish takes
\* the operation once.
Finish(t, o) ==
  /\ At(t, "finish") /\ o = Op(t)
  /\ IF ~job[o].isRunning /\ pool[o] \in {"queued", "listed"}
     THEN /\ pool' = [pool EXCEPT ![o] = "finalizing"]
          /\ Does(t, <<To("finalize", o)>>)
     ELSE /\ Does(t, <<>>)
          /\ UNCHANGED pool
  /\ UNCHANGED <<center, journal, job>>

Outcome(o) == IF job[o].ended = "Completed" THEN "Completed" ELSE "Cancelled"

Finalize(t, o) ==
  /\ At(t, "finalize") /\ o = Op(t)
  /\ \/ /\ entry' = [entry EXCEPT ![o] = Outcome(o)]
        /\ Does(t, <<Told(o), To("release", o)>>)
        /\ UNCHANGED pool
     \/ /\ pool' = [pool EXCEPT ![o] = "retained"]
        /\ Does(t, <<To("startPending", o)>>)
        /\ UNCHANGED entry
  /\ UNCHANGED <<center, observer, job>>

Release(t, o) ==
  /\ At(t, "release") /\ o = Op(t)
  /\ pool' = [pool EXCEPT ![o] = "out"]
  /\ Does(t, <<To("startPending", o)>>)
  /\ UNCHANGED <<center, journal, job>>

-----------------------------------------------------------------------------
(* ReduceDurableTerminal, called by the observer or with the journal's entry. *)

ByObserver(t) == Now(t).arg = "observer"

Hears(t, o) == observer' = IF ByObserver(t) THEN [observer EXCEPT ![o] = "told"] ELSE observer

\* No live residency: the record alone.  A residency that is still staged goes
\* with the observer, which has the binding.
ReduceDurableTerminal(t, o) ==
  /\ At(t, "reduce") /\ o = Op(t)
  /\ IF residency[o] = "live" /\ entry[o] \in Terminal
     THEN /\ Does(t, <<Do("reduceGated", o, Now(t).arg)>>)
          /\ UNCHANGED <<record, residency, observer>>
     ELSE /\ record' = [record EXCEPT ![o] = IF entry[o] \in Terminal THEN Applied(@, entry[o]) ELSE @]
          /\ residency' = [residency EXCEPT ![o] = IF ByObserver(t) /\ @ = "staged" THEN Nothing ELSE @]
          /\ Hears(t, o)
          /\ Does(t, <<>>)
  /\ UNCHANGED <<inFlight, deferred, entry, job, pool>>

ReduceUngated(t, o) == \* mutant: the gate is not kept through the reduction
  /\ At(t, "reduceGated") /\ o = Op(t)
  /\ record' = [record EXCEPT ![o] = Applied(@, entry[o])]
  /\ residency' = [residency EXCEPT ![o] = "retired"]
  /\ Hears(t, o)
  /\ Does(t, <<>>)
  /\ UNCHANGED <<inFlight, deferred, entry, job, pool>>

\* Under the gate.  The gate is recursive: in flight means that this thread is
\* inside Stop.
ReduceGated(t, o) ==
  /\ At(t, "reduceGated") /\ o = Op(t)
  /\ GateIsFree(t, o)
  /\ IF inFlight[o]
     THEN /\ deferred' = [deferred EXCEPT ![o] = entry[o]]
          /\ UNCHANGED <<record, residency>>
     ELSE /\ record' = [record EXCEPT ![o] = Applied(@, entry[o])]
          /\ residency' = [residency EXCEPT ![o] = "retired"]
          /\ UNCHANGED deferred
  /\ Hears(t, o)
  /\ Does(t, <<>>)
  /\ UNCHANGED <<inFlight, entry, job, pool>>

-----------------------------------------------------------------------------
(* Cancel.  The first look is without the gate, the second under it.          *)

Cancel(t, o) ==
  /\ CanCancel(o) /\ residency[o] = "live"
  /\ Begins(t, <<Do("cancel", o, record[o].revision)>>)
  /\ UNCHANGED <<center, journal, job, pool>>

CancelUnderGate(t, o) ==
  /\ At(t, "cancel") /\ o = Op(t)
  /\ GateIsFree(t, o)
  /\ IF /\ record[o].revision = Now(t).arg /\ CanCancel(o)
        /\ ~inFlight[o] /\ IsResident(o)
     THEN /\ inFlight' = [inFlight EXCEPT ![o] = TRUE]
          /\ Does(t, <<To("askStop", o), To("leaveGate", o)>>)
     ELSE /\ Does(t, <<>>)
          /\ UNCHANGED inFlight
  /\ UNCHANGED <<record, residency, deferred, journal, job, pool>>

\* Operation::Stop reads IsRunning before it stops the job.
AskStop(t, o) ==
  /\ At(t, "askStop") /\ o = Op(t)
  /\ Does(t, <<Do("stop", o, job[o].isRunning)>>)
  /\ UNCHANGED <<center, journal, job, pool>>

Stopped(o) == Do("endCancel", o, "accepted")
Refused(o) == Do("endCancel", o, "rejected")

\* Job::Stop; a job that was cold finishes on this thread.
Stop(t, o) ==
  /\ At(t, "stop") /\ o = Op(t)
  /\ TransitionIsFree(o)
  /\ \/ /\ job[o].ended = Nothing
        /\ job' = [job EXCEPT ![o].ended = "Stopped"]
        /\ Does(t, IF Now(t).arg THEN <<Stopped(o)>> ELSE <<To("finish", o), Stopped(o)>>)
     \/ /\ Does(t, <<Refused(o)>>)
        /\ UNCHANGED job
  /\ UNCHANGED <<center, journal, pool>>

EndCancelEitherWay(t, o) == \* mutant: an accepted request leaves out what was put off
  /\ At(t, "endCancel") /\ o = Op(t)
  /\ record' = [record EXCEPT ![o] =
       IF Now(t).arg = "accepted" THEN (IF CanCancel(o) THEN Moved(@, "Cancelling") ELSE @)
       ELSE IF deferred[o] # Nothing THEN Applied(@, deferred[o]) ELSE @]
  /\ deferred' = [deferred EXCEPT ![o] = Nothing]
  /\ inFlight' = [inFlight EXCEPT ![o] = FALSE]
  /\ Does(t, <<>>)
  /\ UNCHANGED <<residency, journal, job, pool>>

EndCancel(t, o) ==
  /\ At(t, "endCancel") /\ o = Op(t)
  /\ LET cancelling == IF Now(t).arg = "accepted" /\ CanCancel(o)
                       THEN Moved(record[o], "Cancelling") ELSE record[o] IN
     IF deferred[o] = Nothing
     THEN /\ record' = [record EXCEPT ![o] = cancelling]
          /\ UNCHANGED <<residency, deferred>>
     ELSE /\ record' = [record EXCEPT ![o] = Applied(cancelling, deferred[o])]
          /\ residency' = [residency EXCEPT ![o] = "retired"]
          /\ deferred' = [deferred EXCEPT ![o] = Nothing]
  /\ inFlight' = [inFlight EXCEPT ![o] = FALSE]
  /\ Does(t, <<>>)
  /\ UNCHANGED <<journal, job, pool>>

-----------------------------------------------------------------------------
(* SetPaused.                                                                 *)

Available(o, intent) == IF intent = "Pause" THEN CanPause(o) ELSE CanResume(o)

SetPaused(t, o) ==
  \E intent \in {"Pause", "Resume"} :
    /\ Available(o, intent) /\ residency[o] = "live" /\ record[o].revision < MaxRevision
    /\ Begins(t, <<Do("setPaused", o, [intent |-> intent, revision |-> record[o].revision])>>)
    /\ UNCHANGED <<center, journal, job, pool>>

SetPausedUnderGate(t, o) ==
  /\ At(t, "setPaused") /\ o = Op(t)
  /\ GateIsFree(t, o)
  /\ LET call == Now(t).arg IN
     Does(t, IF record[o].revision = call.revision /\ Available(o, call.intent) /\ IsResident(o)
             THEN <<Do("pauseJob", o, call.intent), To("leaveGate", o)>>
             ELSE <<>>)
  /\ UNCHANGED <<center, journal, job, pool>>

\* Job::Pause or Job::Resume, whatever the job makes of it, then ReducePaused.
ReducePaused(t, o) ==
  /\ At(t, "pauseJob") /\ o = Op(t)
  /\ TransitionIsFree(o)
  /\ record' = [record EXCEPT ![o] =
       IF ~Available(o, Now(t).arg) THEN @
       ELSE Moved(@, IF Now(t).arg = "Pause" THEN "Paused" ELSE "Running")]
  /\ Does(t, <<>>)
  /\ UNCHANGED <<residency, inFlight, deferred, journal, job, pool>>

-----------------------------------------------------------------------------
(* Recovery.  The journal is reopened when nothing uses it: it settles every  *)
(* entry it finds live, and the custodian tells what it still had to tell.    *)

Quiet == /\ \A o \in Ops : thread[Submitter(o)] = <<>> /\ thread[Worker(o)] = <<>>
         /\ \A t \in Threads : \A i \in DOMAIN thread[t] :
              thread[t][i].step \notin {"launch", "finalize", "release", "reduce", "reduceGated"}
         /\ \A o \in Ops : pool[o] \in {"out", "retained"}

Recover(t, o) ==
  /\ Quiet
  /\ \/ entry[o] = "Live" /\ entry' \in {[entry EXCEPT ![o] = e] : e \in {Outcome(o), "Interrupted"}}
     \/ entry[o] = "Doubtful" /\ entry' \in {[entry EXCEPT ![o] = e] : e \in {"Interrupted", "Lost"}}
  /\ Begins(t, (IF observer[o] = "waiting" THEN <<Told(o)>> ELSE <<>>)
               \o (IF pool[o] = "retained" THEN <<To("release", o)>> ELSE <<>>))
  /\ UNCHANGED <<center, observer, job, pool>>

\* Pool::RetryFinalization of an operation that was retained.
RetryFinalization(t, o) ==
  /\ pool[o] = "retained" /\ entry[o] = "Live"
  /\ Begins(t, <<To("finalize", o)>>)
  /\ pool' = [pool EXCEPT ![o] = "finalizing"]
  /\ UNCHANGED <<center, journal, job>>

Seen(o) == entry[o] \notin {Nothing, "Doubtful", "Lost"}

\* The journal's entries, read before any lock: none may be active.
ReadHistory(t) ==
  /\ \A o \in Ops : Seen(o) => entry[o] \in Terminal
  /\ \E o \in Ops : Seen(o)
  /\ Begins(t, <<Do("refresh", Nothing, {o \in Ops : Seen(o)})>>)
  /\ UNCHANGED <<center, journal, job, pool>>

RefreshColdHistory(t) ==
  /\ At(t, "refresh")
  /\ record' = IF /\ \A o \in Ops : residency[o] \notin {"staged", "live"}
                  /\ \A o \in Ops : record[o].state \notin Live
                  /\ \A o \in Now(t).arg : record[o].state \in {Nothing, entry[o]}
               THEN [o \in Ops |-> IF o \in Now(t).arg /\ record[o].state = Nothing
                                   THEN Published(entry[o]) ELSE record[o]]
               ELSE record
  /\ Does(t, <<>>)
  /\ UNCHANGED <<residency, inFlight, deferred, journal, job, pool>>

-----------------------------------------------------------------------------
Begin(o) ==
  \/ StageAdmission(o)
  \/ \E t \in Controlling : Cancel(t, o) \/ SetPaused(t, o)
  \/ \E t \in Helping : Recover(t, o) \/ RetryFinalization(t, o)

\* Some other operation left the pool.
BeginStarting(t) == /\ \E o \in Ops : pool[o] = "queued"
                    /\ Begins(t, <<To("startPending", Nothing)>>)
                    /\ UNCHANGED <<center, journal, job, pool>>

StepOf(t, o) ==
  \/ CommitAdmission(t, o) \/ SubmitUnreserved(t, o) \/ SubmitCancelled(t, o)
  \/ RegisterLiveResidency(t, o) \/ EnqueueAccepted(t, o) \/ EnqueueRejected(t, o)
  \/ RetireLiveResidency(t, o)
  \/ Start(t, o) \/ Launch(t, o) \/ LaunchFails(t, o) \/ ReduceStarted(t, o)
  \/ WorkEnds(t, o) \/ Finish(t, o) \/ Finalize(t, o) \/ Release(t, o)
  \/ ReduceDurableTerminal(t, o) \/ ReduceGated(t, o)
  \/ CancelUnderGate(t, o) \/ AskStop(t, o) \/ Stop(t, o) \/ EndCancel(t, o)
  \/ SetPausedUnderGate(t, o) \/ ReducePaused(t, o)

Step(t) ==
  /\ thread[t] # <<>>
  /\ \/ \E o \in Ops \cap {Op(t)} : StepOf(t, o)
     \/ StartPendingOperations(t) \/ RefreshColdHistory(t) \/ Leave(t)

Next == \/ \E o \in Ops : Begin(o)
        \/ \E t \in Helping : BeginStarting(t)
        \/ \E t \in Helping : ReadHistory(t)
        \/ \E t \in Threads : Step(t)

Spec     == Init /\ [][Next]_vars
\* A thread that can go on goes on.
FairSpec == Spec /\ \A t \in Threads : WF_vars(Step(t))

-----------------------------------------------------------------------------
StepNames == {"commit", "submit", "enqueue", "retire", "startPending", "start", "launch",
              "started", "work", "finish", "finalize", "release", "reduce", "reduceGated",
              "cancel", "askStop", "stop", "endCancel", "setPaused", "pauseJob", "refresh",
              "leaveGate", "leaveTransition", "leaveStart"}

\* Types; a terminal outcome is put off only while a cancellation is in flight.
TypeOK ==
  /\ record \in [Ops -> [state : Terminal \cup Live \cup {Nothing}, revision : Nat]]
  /\ entry \in [Ops -> Terminal \cup {"Live", "Doubtful", "Lost", Nothing}]
  /\ observer \in [Ops -> {"waiting", "told", Nothing}]
  /\ residency \in [Ops -> {"staged", "live", "retired", Nothing}]
  /\ inFlight \in [Ops -> BOOLEAN]
  /\ deferred \in [Ops -> Terminal \cup {Nothing}]
  /\ job \in [Ops -> [isRunning : BOOLEAN, ended : {"Completed", "Stopped", Nothing}]]
  /\ pool \in [Ops -> {"out", "queued", "listed", "finalizing", "retained"}]
  /\ \A t \in Threads : \A i \in DOMAIN thread[t] :
       thread[t][i].step \in StepNames /\ thread[t][i].op \in Ops \cup {Nothing}
  /\ \A o \in Ops : deferred[o] # Nothing => inFlight[o]

\* What the journal recorded is what the record ends with: a record that is over
\* agrees with the entry, and once the observer was told, the record is over
\* unless the cancellation that is in flight has the outcome to apply.  Nothing
\* else would ever apply it (ReduceDurableTerminal, Cancel).
OutcomeReachesTheRecord ==
  \A o \in Ops :
    /\ record[o].state \in Terminal => record[o].state = entry[o]
    /\ observer[o] = "told" => \/ record[o].state \in Terminal
                               \/ inFlight[o] /\ deferred[o] # Nothing

\* No control reaches an executor whose terminal outcome the record already has:
\* from the second look under the gate to the job's own lock, the record stays
\* unfinished and its residency live (the comment in ReduceDurableTerminal).
ControlsReachOnlyTheLiving ==
  \A t \in Controlling : \A step \in {"askStop", "stop", "pauseJob"} :
    At(t, step) => record[Op(t)].state \in Live /\ residency[Op(t)] = "live"

\* A cancellation that asked the operation to stop comes back: the gate serializes
\* it with the terminal callback, which is put off.
CancelReturns == \A o \in Ops : inFlight[o] ~> ~inFlight[o]
=============================================================================
