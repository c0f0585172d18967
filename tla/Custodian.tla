----------------------------- MODULE Custodian -----------------------------
(***************************************************************************)
(* Custody of a run receipt (CopyOperationOrchestrator.cpp) between the    *)
(* journal, which must record how the work of a plan ended, and the pool,  *)
(* which must not let its operation go before that; and the coordinator    *)
(* that recovers what a failed journal left behind                         *)
(* (CopyOperationRecoveryCoordinator.mm).                                  *)
(*                                                                         *)
(* Four kinds of threads meet in the slot of a plan: the one that submits  *)
(* it, the worker whose operation ends, and the ones that recover and that *)
(* release.  A thread is the list of the steps it still has to take; each  *)
(* step is a section under one lock (the slot's, the map's or the pool's)  *)
(* or a call made without any.  The journal and the pool are reduced to    *)
(* what their modules, Journal and Pool, promise; a call of the journal    *)
(* keeps the slot's lock.  Plans and evidence are reduced to the terminal  *)
(* state they record.                                                      *)
(***************************************************************************)
EXTENDS Naturals, Sequences, FiniteSets

CONSTANTS
  Plans,            \* reviewed plans, each submitted at most once
  Recoverers,       \* threads that call Service of the recovery coordinator
  Releasers,        \* threads that call ReleaseReconciled or the pool's
                    \* RetryFinalization on their own, as the tests do
  Outcomes,         \* terminal states an operation may report
  MaxPendingSlots

Terminal == {"Completed", "Failed", "Cancelled"}

ASSUME CustodianAssumption ==
  /\ Outcomes \subseteq Terminal
  /\ MaxPendingSlots \in Nat

Submitter(p) == <<"submit", p>>
Worker(p)    == <<"work", p>>
Recovering   == {"recover"} \X Recoverers
Releasing    == {"release"} \X Releasers
Threads      == ({"submit", "work"} \X Plans) \cup Recovering \cup Releasing

VARIABLES
  entry,      \* the journal file's entry of each plan
  journal,    \* the coordinator's m_Journal: open, poisoned or none
  slot,       \* the slot of each plan, also once it left the map
  slots,      \* the custodian's map
  pool,       \* where the pool has the operation of each plan
  poolAlive,  \* the pool has not been destroyed
  thread,     \* the plan and the remaining steps of each thread
  told,       \* history: the outcomes the terminal observer was called with
  completed   \* history: plans whose completion the pool reported

custody == <<slot, slots>>
vars    == <<entry, journal, custody, pool, poolAlive, thread, told, completed>>

Phases == {"Reserved", "Armed", "EnqueueInProgress", "PoolOwned", "RetryRequired", "ReconcileRequired",
           "ContractViolation", "Reconciled", "ReleaseInProgress", "Finalized", "Released"}

Unknown == "unknown"   \* no evidence yet, no reconciliation status yet

(* A slot owns the receipt and a share of the journal until one of the two is *)
(* spent; evidence is what the journal is asked to record.                    *)
NewSlot == [phase |-> "Reserved", receipt |-> FALSE, journal |-> TRUE, evidence |-> Unknown,
            status |-> Unknown, poolOwned |-> FALSE, latched |-> FALSE, delivered |-> FALSE]

NoSlot == [NewSlot EXCEPT !.phase = "Released", !.journal = FALSE]

Idle == [plan |-> Unknown, todo |-> <<>>, result |-> Unknown]

Init ==
  /\ entry = [p \in Plans |-> "None"]
  /\ journal = "open"
  /\ slot = [p \in Plans |-> NoSlot]
  /\ slots = {}
  /\ pool = [p \in Plans |-> "out"]
  /\ poolAlive = TRUE
  /\ thread = [t \in Threads |-> Idle]
  /\ told = [p \in Plans |-> <<>>]
  /\ completed = {}

-----------------------------------------------------------------------------
(* Threads.  `Does` replaces the step a thread is at, `Ends` gives up the     *)
(* rest of its call.                                                         *)

Steps == {"admit", "admitted", "reserved", "abandon", "arm", "armed", "enqueue", "commit",
          "settle", "deliver", "tell", "close", "erase",
          "retryFinalization", "finalize", "retain", "letGo",
          "reopen", "reconcile", "release", "confirm"}

Rest(t)       == Tail(thread[t].todo)
At(t, step)   == thread[t].todo # <<>> /\ Head(thread[t].todo) = step
Plan(t)       == thread[t].plan
Begins(t, p, todo) ==
  /\ thread[t] = Idle
  /\ thread' = [thread EXCEPT ![t] = [Idle EXCEPT !.plan = p, !.todo = todo]]
Continues(t, todo) ==
  thread' = [thread EXCEPT ![t] = IF todo = <<>> THEN Idle ELSE [@ EXCEPT !.todo = todo]]
Does(t, todo) == Continues(t, todo \o Rest(t))
Ends(t)       == thread' = [thread EXCEPT ![t] = Idle]
Reports(t, result) ==
  thread' = [thread EXCEPT ![t] = IF Rest(t) = <<>> THEN Idle
                                  ELSE [@ EXCEPT !.todo = Rest(t), !.result = result]]

Submitting(p) == thread[Submitter(p)] # Idle
Busy(ts)      == \E t \in ts : thread[t] # Idle
SetSlot(p, s) == slot' = [slot EXCEPT ![p] = s]
Phase(p)      == slot[p].phase

-----------------------------------------------------------------------------
(* The journal: a mutation takes the entry of a plan from one state to the    *)
(* next, is refused with nothing changed, or leaves the file one way or the   *)
(* other and the instance poisoned.  A poisoned instance refuses everything.  *)

Mutation(p, state, result) ==
  CASE result = "ok"        -> journal = "open" /\ entry' = [entry EXCEPT ![p] = state] /\ UNCHANGED journal
    [] result = "refused"   -> journal = "open" /\ UNCHANGED <<entry, journal>>
    [] result = "uncertain" -> /\ journal = "open" /\ journal' = "poisoned"
                               /\ entry' \in {entry, [entry EXCEPT ![p] = state]}
    [] result = "unusable"  -> journal = "poisoned" /\ UNCHANGED <<entry, journal>>

Results == {"ok", "refused", "uncertain", "unusable"}

(* Shares of the journal besides the coordinator's: its lock on the directory *)
(* is held until the last of them is gone.  A submission keeps the share it   *)
(* took; a slot lives in the map, in the pool's finalizer and in submissions. *)
Resident(p) == pool[p] \in {"listed", "finalizing", "busy"} /\ poolAlive
Kept(p)     == p \in slots \/ Resident(p) \/ Submitting(p)
Holders     == {p \in Plans : Submitting(p) \/ (slot[p].journal /\ Kept(p))}

-----------------------------------------------------------------------------
(* SubmitAdmitted.  Cancellation, the factory, the cold operation's           *)
(* configuration and the handoff are choices of the environment.              *)

(* CurrentJournal waits for a Service in progress. *)
TakeJournal(p) ==
  /\ entry[p] = "None" /\ journal # "none" /\ poolAlive
  /\ ~Busy(Recovering)
  /\ Begins(Submitter(p), p, <<"admit">>)
  /\ UNCHANGED <<entry, journal, custody, pool, poolAlive, told, completed>>

Admit(t) ==
  /\ At(t, "admit")
  /\ \E result \in Results :
       /\ Mutation(Plan(t), "Admitted", result)
       /\ IF result = "ok" THEN Does(t, <<"admitted">>) ELSE Ends(t)
  /\ UNCHANGED <<custody, pool, poolAlive, told, completed>>

(* FinalizeAdmission: the submission ends whatever the journal answers. *)
FinalizeAdmission(t) ==
  /\ At(t, "admitted")
  /\ \E state \in {"Cancelled", "Failed"}, result \in Results : Mutation(Plan(t), state, result)
  /\ Ends(t)
  /\ UNCHANGED <<custody, pool, poolAlive, told, completed>>

Reserve(t) ==
  LET p == Plan(t)
  IN  /\ At(t, "admitted")
      /\ Cardinality(slots) < MaxPendingSlots /\ p \notin slots
      /\ slots' = slots \cup {p}
      /\ SetSlot(p, NewSlot)
      /\ Does(t, <<"reserved">>)
      /\ UNCHANGED <<entry, journal, pool, poolAlive, told, completed>>

TransitionToRunning(t) ==
  /\ At(t, "reserved")
  /\ \E result \in Results :
       /\ Mutation(Plan(t), "Running", result)
       /\ Does(t, IF result = "ok" THEN <<"arm">> ELSE <<"abandon">>)
  /\ UNCHANGED <<custody, pool, poolAlive, told, completed>>

(* The plan never ran: the slot is released and the admission finalized. *)
Abandon(t) ==
  LET p == Plan(t)
  IN  /\ At(t, "abandon")
      /\ SetSlot(p, [slot[p] EXCEPT !.phase = "Released"])
      /\ slots' = slots \ {p}
      /\ \E result \in Results : Mutation(p, "Failed", result)
      /\ Ends(t)
      /\ UNCHANGED <<pool, poolAlive, told, completed>>

(* Nothing else touches a reserved slot, so arming it cannot be refused. *)
Arm(t) ==
  LET p == Plan(t)
  IN  /\ At(t, "arm") /\ Phase(p) = "Reserved"
      /\ SetSlot(p, [slot[p] EXCEPT !.phase = "Armed", !.receipt = TRUE])
      /\ Does(t, <<"armed">>)
      /\ UNCHANGED <<entry, journal, slots, pool, poolAlive, told, completed>>

(* Cancelled or refused before it could be enqueued. *)
FinalizeBeforeEnqueue(t) ==
  LET p == Plan(t)
  IN  /\ At(t, "armed") /\ Phase(p) = "Armed"
      /\ \E evidence \in {"Cancelled", "Failed"} : SetSlot(p, [slot[p] EXCEPT !.evidence = evidence])
      /\ Does(t, <<"settle">>)
      /\ UNCHANGED <<entry, journal, slots, pool, poolAlive, told, completed>>

BeginEnqueue(t) ==
  LET p == Plan(t)
  IN  /\ At(t, "armed") /\ Phase(p) = "Armed"
      /\ SetSlot(p, [slot[p] EXCEPT !.phase = "EnqueueInProgress"])
      /\ Does(t, <<"enqueue">>)
      /\ UNCHANGED <<entry, journal, slots, pool, poolAlive, told, completed>>

(* From here on the operation may run, and end, before the call returns. *)
TryEnqueue(t) ==
  /\ At(t, "enqueue")
  /\ pool' = [pool EXCEPT ![Plan(t)] = "listed"]
  /\ Does(t, <<"commit">>)
  /\ UNCHANGED <<entry, journal, custody, poolAlive, told, completed>>

RejectEnqueue(t) ==
  LET p == Plan(t)
  IN  /\ At(t, "enqueue")
      /\ \E evidence \in {"Cancelled", "Failed"} :
           SetSlot(p, [slot[p] EXCEPT !.evidence = evidence, !.phase = "Armed"])
      /\ Does(t, <<"settle">>)
      /\ UNCHANGED <<entry, journal, slots, pool, poolAlive, told, completed>>

CommitOnlyUnfinished(t) == \* mutant: the finalizer is not expected to have been faster
  LET p == Plan(t)
  IN  /\ At(t, "commit")
      /\ IF Phase(p) = "EnqueueInProgress"
         THEN SetSlot(p, [slot[p] EXCEPT !.phase = "PoolOwned", !.poolOwned = TRUE])
         ELSE UNCHANGED slot
      /\ Does(t, IF Phase(p) = "Finalized" THEN <<"erase">> ELSE <<>>)
      /\ UNCHANGED <<entry, journal, slots, pool, poolAlive, told, completed>>

CommitEnqueue(t) ==
  LET p == Plan(t)
  IN  /\ At(t, "commit")
      /\ CASE Phase(p) = "EnqueueInProgress" ->
                  SetSlot(p, [slot[p] EXCEPT !.phase = "PoolOwned", !.poolOwned = TRUE])
           [] Phase(p) \in {"Finalized", "ReconcileRequired"} ->
                  SetSlot(p, [slot[p] EXCEPT !.poolOwned = TRUE])
           [] OTHER -> UNCHANGED slot
      /\ Does(t, IF Phase(p) = "Finalized" THEN <<"erase">> ELSE <<>>)
      /\ UNCHANGED <<entry, journal, slots, pool, poolAlive, told, completed>>

-----------------------------------------------------------------------------
(* Finalization.  What the slot becomes with the answer of the journal; the   *)
(* evidence, once acquired, is never asked for again.                         *)

SettledForgettingJournal(s, result, retained) == \* mutant: a refusal gives up the share of the journal
  CASE result = "ok" -> [s EXCEPT !.phase = "Finalized", !.receipt = FALSE]
    [] result \in {"uncertain", "unusable"} ->
         [s EXCEPT !.phase = "ReconcileRequired", !.receipt = FALSE, !.journal = FALSE]
    [] result = "contract" -> [s EXCEPT !.phase = "ContractViolation"]
    [] OTHER -> [s EXCEPT !.phase = retained, !.journal = FALSE]

Settled(s, result, retained) ==
  CASE result = "ok" -> [s EXCEPT !.phase = "Finalized", !.receipt = FALSE]
    [] result \in {"uncertain", "unusable"} ->
         [s EXCEPT !.phase = "ReconcileRequired", !.receipt = FALSE, !.journal = FALSE]
    [] result = "contract" -> [s EXCEPT !.phase = "ContractViolation"]
    [] OTHER -> [s EXCEPT !.phase = retained]

(* The journal may also find that the evidence does not fit the plan. *)
Finalize(p, s, retained, result) ==
  /\ SetSlot(p, Settled(s, result, retained))
  /\ IF result = "contract" THEN journal = "open" /\ UNCHANGED <<entry, journal>>
     ELSE Mutation(p, s.evidence, result)

FinalizeResults == Results \cup {"contract"}

(* FinalizeCustodiedSlot, by the submitter or by Retry; any other phase is    *)
(* busy.                                                                      *)
FinalizeCustodiedSlot(t) ==
  LET p == Plan(t)
  IN  /\ At(t, "settle")
      /\ IF Phase(p) \notin {"Armed", "RetryRequired"}
         THEN Ends(t) /\ UNCHANGED <<entry, journal, slot>>
         ELSE \E result \in FinalizeResults :
                /\ Finalize(p, slot[p], "RetryRequired", result)
                /\ CASE result = "ok" -> Continues(t, <<"deliver", "erase">>)
                     [] result \in {"uncertain", "unusable"} -> Does(t, <<>>)
                     [] OTHER -> Ends(t)
      /\ UNCHANGED <<slots, pool, poolAlive, told, completed>>

(* DeliverTerminalOutcome: under the slot's lock the observer is taken, if    *)
(* what it would be told is confirmed; it is called without the lock.         *)
Confirmed(s) ==
  \/ s.phase = "Finalized" /\ s.evidence # Unknown
  \/ s.phase \in {"Reconciled", "ReleaseInProgress"} /\ s.status # Unknown

DeliverTerminalOutcome(t) ==
  LET p == Plan(t)
  IN  /\ At(t, "deliver")
      /\ IF slot[p].delivered \/ ~Confirmed(slot[p]) THEN Does(t, <<>>) /\ UNCHANGED slot
         ELSE Does(t, <<"tell">>) /\ SetSlot(p, [slot[p] EXCEPT !.delivered = TRUE])
      /\ UNCHANGED <<entry, journal, slots, pool, poolAlive, told, completed>>

Outcome(s) == IF s.status = "InterruptedConfirmed" THEN "Interrupted" ELSE s.evidence

Tell(t) ==
  /\ At(t, "tell")
  /\ told' = [told EXCEPT ![Plan(t)] = Append(@, Outcome(slot[Plan(t)]))]
  /\ Does(t, <<>>)
  /\ UNCHANGED <<entry, journal, custody, pool, poolAlive, completed>>

(* Custody is over; the map forgets the slot next. *)
Close(t) ==
  LET p == Plan(t)
  IN  /\ At(t, "close")
      /\ SetSlot(p, [slot[p] EXCEPT !.phase = "Released"])
      /\ Does(t, <<>>)
      /\ UNCHANGED <<entry, journal, slots, pool, poolAlive, told, completed>>

Erase(t) ==
  /\ At(t, "erase")
  /\ slots' = slots \ {Plan(t)}
  /\ Does(t, <<>>)
  /\ UNCHANGED <<entry, journal, slot, pool, poolAlive, told, completed>>

-----------------------------------------------------------------------------
(* Pool: the end of an operation moves it to the finalizing ones, and whoever *)
(* asks for its finalization runs the finalizer unless another thread does.   *)

OperationDidFinish(p) ==
  /\ pool[p] = "listed" /\ poolAlive
  /\ pool' = [pool EXCEPT ![p] = "finalizing"]
  /\ Begins(Worker(p), p, <<"retryFinalization">>)
  /\ UNCHANGED <<entry, journal, custody, poolAlive, told, completed>>

CallRetryFinalization(t, p) ==
  /\ poolAlive /\ pool[p] # "out"
  /\ Begins(t, p, <<"retryFinalization">>)
  /\ UNCHANGED <<entry, journal, custody, pool, poolAlive, told, completed>>

RetryFinalization(t) ==
  LET p == Plan(t)
  IN  /\ At(t, "retryFinalization")
      /\ CASE pool[p] = "finalizing" -> Does(t, <<"finalize">>) /\ pool' = [pool EXCEPT ![p] = "busy"]
           [] pool[p] = "busy"       -> Reports(t, "InProgress") /\ UNCHANGED pool
           [] OTHER                  -> Reports(t, "NotFinalizing") /\ UNCHANGED pool
      /\ UNCHANGED <<entry, journal, custody, poolAlive, told, completed>>

Retain(t) ==
  /\ At(t, "retain")
  /\ pool' = [pool EXCEPT ![Plan(t)] = "finalizing"]
  /\ Reports(t, "Retained")
  /\ UNCHANGED <<entry, journal, custody, poolAlive, told, completed>>

(* ReleaseDecision, and the pool acts on it.  What is released completes only *)
(* if the journal has it as completed.                                        *)
LetGo(t) ==
  LET p == Plan(t)
  IN  /\ At(t, "letGo")
      /\ pool' = [pool EXCEPT ![p] = "gone"]
      /\ completed' = IF Outcome(slot[p]) = "Completed" THEN completed \cup {p} ELSE completed
      /\ Reports(t, "Released")
      /\ UNCHANGED <<entry, journal, custody, poolAlive, told>>

(* The pool dies when no thread is in it and no operation is listed; what it  *)
(* was finalizing dies with it.                                               *)
PoolExpires ==
  /\ poolAlive
  /\ \A p \in Plans : pool[p] # "listed" /\ ~Submitting(p)
  /\ \A t \in Threads : \A i \in DOMAIN thread[t].todo :
       thread[t].todo[i] \notin {"retryFinalization", "finalize", "retain", "letGo"}
  /\ poolAlive' = FALSE
  /\ UNCHANGED <<entry, journal, custody, pool, thread, told, completed>>

-----------------------------------------------------------------------------
(* FinalizePoolSlot, the finalizer.                                         *)

(* The outcome is confirmed already: it is delivered, and the release of a    *)
(* reconciled slot is latched.                                                *)
AlreadyConfirmed == {"Finalized", "Reconciled", "ReleaseInProgress"}

FinalizeReconciled(t) ==
  LET p == Plan(t)
  IN  /\ At(t, "finalize") /\ Phase(p) \in AlreadyConfirmed
      /\ SetSlot(p, [slot[p] EXCEPT !.latched = @ \/ Phase(p) # "Finalized"])
      /\ Does(t, <<"deliver", "letGo">>)
      /\ UNCHANGED <<entry, journal, slots, pool, poolAlive, told, completed>>

AwaitsResult(s) == s.phase \in {"EnqueueInProgress", "PoolOwned"} /\ s.receipt /\ s.journal

(* Another phase, or evidence that is not available, retains the operation. *)
FinalizeNothing(t) ==
  LET p == Plan(t)
  IN  /\ At(t, "finalize")
      /\ Phase(p) \notin AlreadyConfirmed
      /\ ~AwaitsResult(slot[p]) \/ slot[p].evidence = Unknown
      /\ Does(t, <<"retain">>)
      /\ UNCHANGED <<entry, journal, custody, pool, poolAlive, told, completed>>

(* The accessor contradicts itself. *)
FinalizeInconsistent(t) ==
  LET p == Plan(t)
  IN  /\ At(t, "finalize") /\ AwaitsResult(slot[p]) /\ slot[p].evidence = Unknown
      /\ SetSlot(p, [slot[p] EXCEPT !.phase = "ContractViolation"])
      /\ Does(t, <<"retain">>)
      /\ UNCHANGED <<entry, journal, slots, pool, poolAlive, told, completed>>

ReleaseThenDeliver(t) == \* mutant: the outcome is delivered after the pool let go
  LET p == Plan(t)
  IN  /\ At(t, "finalize") /\ AwaitsResult(slot[p])
      /\ \E evidence \in IF slot[p].evidence = Unknown THEN Outcomes ELSE {slot[p].evidence} :
          \E result \in FinalizeResults :
           /\ Finalize(p, [slot[p] EXCEPT !.evidence = evidence], slot[p].phase, result)
           /\ Does(t, IF result = "ok" THEN <<"letGo", "deliver", "erase">> ELSE <<"retain">>)
      /\ UNCHANGED <<slots, pool, poolAlive, told, completed>>

FinalizePoolSlot(t) ==
  LET p == Plan(t)
  IN  /\ At(t, "finalize") /\ AwaitsResult(slot[p])
      /\ \E evidence \in IF slot[p].evidence = Unknown THEN Outcomes ELSE {slot[p].evidence} :
          \E result \in FinalizeResults :
           /\ Finalize(p, [slot[p] EXCEPT !.evidence = evidence], slot[p].phase, result)
           /\ Does(t, IF result = "ok" THEN <<"deliver", "erase", "letGo">> ELSE <<"retain">>)
      /\ UNCHANGED <<slots, pool, poolAlive, told, completed>>

-----------------------------------------------------------------------------
(* Service of the coordinator, one thread at a time: Retry, and if the        *)
(* journal has to be consulted, Reopen, Reconcile and ReleaseReconciled.      *)
(* Retry reports every other phase and does nothing.                          *)

Service(t, p) ==
  /\ ~Busy(Recovering) /\ p \in slots
  /\ CASE Phase(p) = "RetryRequired"     -> Begins(t, p, <<"settle", "reopen">>)
       [] Phase(p) = "ReconcileRequired" -> Begins(t, p, <<"reopen">>)
       [] OTHER                          -> FALSE
  /\ UNCHANGED <<entry, journal, custody, pool, poolAlive, told, completed>>

(* Opening the journal interrupts what was live in the file. *)
Interrupted(e) == IF e \in {"Admitted", "Running"} THEN "Interrupted" ELSE e

JournalInUse == journal # "none" /\ Holders # {}

Reopen(t) ==
  /\ At(t, "reopen")
  /\ IF JournalInUse THEN Ends(t) /\ UNCHANGED <<entry, journal>>
     ELSE \/ /\ journal' = "open"
             /\ entry' = [p \in Plans |-> Interrupted(entry[p])]
             /\ Does(t, <<"reconcile">>)
          \/ /\ journal' = "none" \* also after it replaced the file
             /\ entry' \in {entry, [p \in Plans |-> Interrupted(entry[p])]}
             /\ Ends(t)
  /\ UNCHANGED <<custody, pool, poolAlive, told, completed>>

ConfirmUnread(p) == "TerminalConfirmed" \* mutant: the reopened journal is not read

(* The journal has the evidence, or the plan as interrupted, or neither. *)
Confirmation(p) ==
  CASE entry[p] = slot[p].evidence -> "TerminalConfirmed"
    [] entry[p] = "Interrupted"    -> "InterruptedConfirmed"
    [] OTHER                       -> "Mismatch"

Reconcile(t) ==
  LET p == Plan(t)
  IN  /\ At(t, "reconcile")
      /\ IF p \notin slots \/ Phase(p) # "ReconcileRequired" \/ Confirmation(p) = "Mismatch" THEN Ends(t) /\ UNCHANGED slot
         ELSE /\ SetSlot(p, [slot[p] EXCEPT !.phase = "Reconciled", !.status = Confirmation(p)])
              /\ Does(t, IF slot[p].poolOwned THEN <<"release">> ELSE <<"deliver", "close", "erase">>)
      /\ UNCHANGED <<entry, journal, slots, pool, poolAlive, told, completed>>

CallReleaseReconciled(t, p) ==
  /\ Begins(t, p, <<"release">>)
  /\ UNCHANGED <<entry, journal, custody, pool, poolAlive, told, completed>>

(* A slot in another phase is reported and left alone.  A pool that is gone   *)
(* needs no release.                                                          *)
ReleaseReconciled(t) ==
  LET p == Plan(t)
  IN  /\ At(t, "release")
      /\ IF p \in slots /\ Phase(p) = "Reconciled" /\ slot[p].poolOwned
         THEN /\ SetSlot(p, [slot[p] EXCEPT !.phase = "ReleaseInProgress"])
              /\ Does(t, IF poolAlive THEN <<"retryFinalization", "confirm">>
                                      ELSE <<"deliver", "close", "erase">>)
         ELSE Ends(t) /\ UNCHANGED slot
      /\ UNCHANGED <<entry, journal, slots, pool, poolAlive, told, completed>>

ConfirmOnLatch(t) == \* mutant: a finalizer that is still in progress counts as released
  LET p == Plan(t)
  IN  /\ At(t, "confirm")
      /\ IF slot[p].latched /\ thread[t].result # "Retained"
         THEN Does(t, <<"close", "erase">>) /\ UNCHANGED slot
         ELSE /\ Ends(t)
              /\ SetSlot(p, IF Phase(p) = "ReleaseInProgress"
                            THEN [slot[p] EXCEPT !.phase = "Reconciled"] ELSE slot[p])
      /\ UNCHANGED <<entry, journal, slots, pool, poolAlive, told, completed>>

ConfirmRelease(t) ==
  LET p == Plan(t)
  IN  /\ At(t, "confirm")
      /\ IF slot[p].latched /\ thread[t].result \in {"Released", "NotFinalizing"}
         THEN Does(t, <<"close", "erase">>) /\ UNCHANGED slot
         ELSE /\ Ends(t)
              /\ SetSlot(p, IF Phase(p) = "ReleaseInProgress"
                            THEN [slot[p] EXCEPT !.phase = "Reconciled"] ELSE slot[p])
      /\ UNCHANGED <<entry, journal, slots, pool, poolAlive, told, completed>>

-----------------------------------------------------------------------------
Submit(t) ==
  \/ Admit(t) \/ FinalizeAdmission(t) \/ Reserve(t) \/ TransitionToRunning(t) \/ Abandon(t)
  \/ Arm(t) \/ FinalizeBeforeEnqueue(t) \/ BeginEnqueue(t)
  \/ TryEnqueue(t) \/ RejectEnqueue(t) \/ CommitEnqueue(t)

Step(t) ==
  \/ Submit(t)
  \/ FinalizeCustodiedSlot(t) \/ DeliverTerminalOutcome(t) \/ Tell(t) \/ Close(t) \/ Erase(t)
  \/ RetryFinalization(t) \/ Retain(t) \/ LetGo(t)
  \/ FinalizeReconciled(t) \/ FinalizeNothing(t) \/ FinalizeInconsistent(t) \/ FinalizePoolSlot(t)
  \/ Reopen(t) \/ Reconcile(t) \/ ReleaseReconciled(t) \/ ConfirmRelease(t)

Next ==
  \/ \E t \in Threads : Step(t)
  \/ \E p \in Plans :
       \/ TakeJournal(p) \/ OperationDidFinish(p)
       \/ \E t \in Recovering : Service(t, p)
       \/ \E t \in Releasing : CallReleaseReconciled(t, p) \/ CallRetryFinalization(t, p)
  \/ PoolExpires

Spec == Init /\ [][Next]_vars

(* Threads are scheduled, operations end, and somebody asks for the recovery  *)
(* of every plan that can be recovered again and again.                       *)
Fairness ==
  /\ \A t \in Threads : WF_vars(Step(t))
  /\ \A p \in Plans : WF_vars(OperationDidFinish(p))
  /\ \A t \in Recovering, p \in Plans : SF_vars(Service(t, p))

FairSpec == Spec /\ Fairness

-----------------------------------------------------------------------------
(* The phases in which the receipt is in the slot, and those in which the     *)
(* journal has answered for the evidence.                                     *)
Custodial == {"Armed", "EnqueueInProgress", "PoolOwned", "RetryRequired", "ContractViolation"}
Answered  == {"RetryRequired", "ReconcileRequired", "Reconciled", "ReleaseInProgress", "Finalized"}

(* The ranges of the state, and the parts of a slot that go with its phase.   *)
TypeOK ==
  /\ \A p \in Plans :
       /\ slot[p].receipt <=> Phase(p) \in Custodial
       /\ Phase(p) \in Answered => slot[p].evidence # Unknown
       /\ Phase(p) \in {"Reconciled", "ReleaseInProgress"} => slot[p].status # Unknown
  /\ entry \in [Plans -> {"None", "Admitted", "Running", "Interrupted"} \cup Terminal]
  /\ journal \in {"open", "poisoned", "none"}
  /\ slot \in [Plans -> [phase : Phases, receipt : BOOLEAN, journal : BOOLEAN,
                         evidence : Terminal \cup {Unknown},
                         status : {Unknown, "TerminalConfirmed", "InterruptedConfirmed"},
                         poolOwned : BOOLEAN, latched : BOOLEAN, delivered : BOOLEAN]]
  /\ slots \subseteq Plans /\ Cardinality(slots) <= MaxPendingSlots
  /\ pool \in [Plans -> {"out", "listed", "finalizing", "busy", "gone"}]
  /\ poolAlive \in BOOLEAN
  /\ thread \in [Threads -> [plan : Plans \cup {Unknown}, todo : Seq(Steps),
                             result : {Unknown, "InProgress", "NotFinalizing", "Retained", "Released"}]]
  /\ told \in [Plans -> Seq(Terminal \cup {"Interrupted"})]
  /\ completed \subseteq Plans

Recorded(e) == IF e \in Terminal \cup {"Interrupted"} THEN e ELSE Unknown

Promise == INSTANCE DurableOutcome
             WITH Results <- Terminal \cup {"Interrupted"}, Success <- "Completed", Nothing <- Unknown,
                  outcome <- [p \in Plans |-> Recorded(entry[p])],
                  letGo   <- {p \in Plans : pool[p] = "gone"}

(* Custody implements the promise: what is recorded of a plan never changes,  *)
(* not even by a reopen of a journal nobody is sure of; the observer hears of *)
(* it at most once and exactly what is recorded, however many threads         *)
(* finalize, reconcile and release; the pool lets the operation go only after *)
(* that, and reports as completed only what is recorded as completed          *)
(* (DeliverTerminalOutcome and its callers).                                  *)
KeepsThePromise == Promise!Spec

(* No reopen interrupts work that somebody still has authority over: an armed *)
(* receipt belongs to a plan the journal has as running (the use count the    *)
(* coordinator takes before it gives its journal up).                         *)
ReceiptsAreForRunningPlans ==
  \A p \in Plans : slot[p].receipt /\ Kept(p) => entry[p] = "Running"

LettingGo(p) == \E t \in Threads : Plan(t) = p /\ \E i \in DOMAIN thread[t].todo : thread[t].todo[i] = "letGo"

(* Custody outlives residency: a plan the pool still has keeps its slot, from *)
(* which alone it can be finalized or released, unless its finalizer is       *)
(* already past the point of return (CommitEnqueue, Reconcile and             *)
(* ReleaseReconciled).                                                        *)
ResidentsKeepTheirSlot ==
  \A p \in Plans : Resident(p) /\ p \notin slots => LettingGo(p)

(* What the recovery alert says, that a busy record should be retried later   *)
(* (CopyFile.mm): once the journal has confirmed how a plan of the pool ended, *)
(* servicing it again and again gets its operation released.                  *)
RetryingRecoveryReleases ==
  \A p \in Plans : Phase(p) = "Reconciled" ~> Phase(p) = "Released"
=============================================================================
