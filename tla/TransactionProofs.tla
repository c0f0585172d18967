-------------------------- MODULE TransactionProofs --------------------------
(***************************************************************************)
(* Proofs about Transaction, for any number of callers and any answers.    *)
(***************************************************************************)
EXTENDS Transaction, TLAPS

-----------------------------------------------------------------------------
(* The three tables of ConditionalCommit agree: facts about results alone,  *)
(* whoever makes them.                                                      *)

(* What the transaction produces by itself is well formed. *)
LEMMA OwnResults ==
  /\ Unknown \in CommitResults /\ ResultIsValid(Unknown)
  /\ \A f \in {"Cancelled", "Aborted"} :
       NotPublished(f) \in CommitResults /\ ResultIsValid(NotPublished(f))
BY DEF Unknown, NotPublished, CommitResults, ResultIsValid, Publications, Failures, Syncs, Errnos

(* The provider's table and the mapper's table are the same table. *)
LEMMA TablesAgree ==
  ASSUME NEW r \in CommitResults, ResultIsValid(r)
  PROVE  Consistent(r)
<1>1. CASE r.publication = "NotPublished"
  BY <1>1 DEF ResultIsValid, Consistent
<1>2. CASE r.publication = "Unknown"
  BY <1>2 DEF ResultIsValid, Consistent
<1>3. CASE r.publication = "Published"
  BY <1>3 DEF ResultIsValid, Consistent
<1>4. QED
  BY <1>1, <1>2, <1>3 DEF CommitResults, Publications

(* A valid result maps to an item the journal accepts, whatever the plan.   *)
LEMMA ItemIsValid ==
  ASSUME NEW r \in CommitResults, ResultIsValid(r), r.failure # "Aborted",
         NEW type \in PlanTypes
  PROVE  ValidItemResult(type, ItemOf(r, RemovesSource(type)))
<1> DEFINE removes == RemovesSource(type)
           x == ItemOf(r, removes)
<1>1. removes \in BOOLEAN /\ PublishesDestination(type) = ~removes
  BY DEF RemovesSource, PublishesDestination, PlanTypes, RemovingTypes, PublishingTypes
<1>2. /\ x.status = StatusOf(r) /\ x.error = ErrorOf(r) /\ x.system = r.error
      /\ x.priorError = "None" /\ x.priorSystem = "zero"
      /\ x.bytes = (r.publication = "Published")
      /\ x.dest = (IF removes THEN "NotPublished" ELSE r.publication)
      /\ x.source = (IF removes THEN Removal(r.publication) ELSE "NotRemoved")
      /\ x.sync = r.sync /\ x.syncError = r.syncError
      /\ x.recovery = RecoveryOf(r, removes)
  BY DEF ItemOf
<1>3. r.error # "negative" /\ r.syncError # "negative"
  BY DEF ResultIsValid
<1>4. CASE r.publication = "NotPublished"
  <2>1. NothingHappened(x)
    BY <1>2, <1>4 DEF NothingHappened, Removal
  <2>2. r.sync = "NotAttempted" /\ r.syncError = "zero"
    BY <1>4 DEF ResultIsValid
  <2>3. x.error # "Cleanup"
    BY <1>2, <1>4 DEF ErrorOf
  <2>4. CASE r.failure = "Cancelled"
    BY <1>1, <1>2, <1>3, <1>4, <2>1, <2>2, <2>3, <2>4
    DEF ValidItemResult, ValidSync, ValidPrior, NothingHappened, ResultIsValid, StatusOf, ErrorOf, RecoveryOf
  <2>5. CASE r.failure # "Cancelled"
    <3>1. r.failure \in {"SourceStale", "DestinationParentStale", "DestinationExists", "ProviderFailure"}
          /\ r.error # "zero"
      BY <1>4, <2>5 DEF ResultIsValid
    <3>2. x.status = "Failed" /\ x.error \notin {"None", "Cancelled"} /\ x.recovery = "Retry"
      BY <1>2, <1>4, <3>1 DEF StatusOf, ErrorOf, RecoveryOf
    <3>3. ValidRecovery(x)
      BY <2>1, <3>2 DEF ValidRecovery, NothingHappened
    <3> QED
      BY <1>1, <1>2, <1>3, <2>1, <2>2, <2>3, <3>1, <3>2, <3>3
      DEF ValidItemResult, ValidSync, ValidPrior, NothingHappened
  <2> QED BY <2>4, <2>5
<1>5. CASE r.publication = "Unknown"
  <2>1. r.failure = "ProviderFailure" /\ r.error # "zero" /\ r.sync = "NotAttempted" /\ r.syncError = "zero"
    BY <1>5 DEF ResultIsValid
  <2>2. x.status = "Failed" /\ x.error = "Commit" /\ x.recovery = Inspect(removes)
    BY <1>2, <1>5, <2>1 DEF StatusOf, ErrorOf, RecoveryOf
  <2>3. x.dest = (IF removes THEN "NotPublished" ELSE "Unknown")
        /\ x.source = (IF removes THEN "Unknown" ELSE "NotRemoved")
    BY <1>2, <1>5 DEF Removal
  <2>4. ValidRecovery(x)
    BY <1>1, <2>2, <2>3 DEF ValidRecovery, Inspect
  <2> QED
    BY <1>1, <1>2, <1>3, <2>1, <2>2, <2>3, <2>4 DEF ValidItemResult, ValidSync, ValidPrior
<1>6. CASE r.publication = "Published"
  <2>1. x.dest = (IF removes THEN "NotPublished" ELSE "Published")
        /\ x.source = (IF removes THEN "Removed" ELSE "NotRemoved")
    BY <1>2, <1>6 DEF Removal
  <2>2. \/ r.sync = "Confirmed" /\ r.syncError = "zero"
        \/ r.sync = "Failed" /\ r.syncError # "zero"
    BY <1>6 DEF ResultIsValid, CommitResults, Syncs
  <2>3. CASE r.failure = "None"
    BY <1>1, <1>2, <1>3, <1>6, <2>1, <2>2, <2>3
    DEF ValidItemResult, ValidSync, ValidPrior, ResultIsValid, StatusOf, ErrorOf, RecoveryOf
  <2>4. CASE r.failure # "None"
    <3>1. r.failure \in {"MetadataFailed", "FileSystemSyncFailed", "ProviderFailure"} /\ r.error # "zero"
      BY <1>6, <2>4 DEF ResultIsValid
    <3>2. x.status = "Failed" /\ x.error \in {"Metadata", "Commit"} /\ x.recovery = Inspect(removes)
      BY <1>2, <1>6, <3>1 DEF StatusOf, ErrorOf, RecoveryOf
    <3>3. ValidRecovery(x)
      BY <1>1, <2>1, <3>2 DEF ValidRecovery, Inspect
    <3> QED
      BY <1>1, <1>2, <1>3, <2>1, <2>2, <3>1, <3>2, <3>3 DEF ValidItemResult, ValidSync, ValidPrior
  <2> QED BY <2>3, <2>4
<1>7. QED
  BY <1>4, <1>5, <1>6 DEF CommitResults, Publications

(* An item is never one of the mapper's two refusals. *)
LEMMA ItemIsNoRefusal ==
  ASSUME NEW r \in CommitResults, NEW removes \in BOOLEAN
  PROVE  ItemOf(r, removes) \notin Refused
<1>1. DOMAIN ItemOf(r, removes) # DOMAIN NonExecutionTerminal
      /\ DOMAIN ItemOf(r, removes) # DOMAIN InconsistentResult
  <2>1. "status" \in DOMAIN ItemOf(r, removes)
    BY DEF ItemOf
  <2>2. "status" \notin DOMAIN NonExecutionTerminal /\ "status" \notin DOMAIN InconsistentResult
    BY DEF NonExecutionTerminal, InconsistentResult
  <2> QED BY <2>1, <2>2
<1> QED BY <1>1 DEF Refused

-----------------------------------------------------------------------------
(* The transaction.                                                         *)

(* Before the first call nothing has happened. *)
Untouched ==
  state = "Pending" =>
    /\ terminal = None /\ effect = "NotPublished"
    /\ ran["commit"] = 0 /\ ran["abort"] = 0

(* Only the caller that took the handlers is inside, and only meanwhile. *)
OneCaller ==
  /\ \A c \in Callers : call[c] # "idle" => state = "Committing"
  /\ \A c, d \in Callers : call[c] # "idle" /\ call[d] # "idle" => c = d

(* What that caller has run and knows at each step. *)
Progress ==
  /\ state = "Committing" => /\ terminal = None /\ effect = "NotPublished" /\ ran["abort"] = 0
                             /\ ran["commit"] \in {0, 1}
  /\ \A c \in Callers :
       /\ call[c] \in {"checking", "committing", "cancelling", "aborting"} => ran["commit"] = 0
       /\ call[c] = "confirming" => /\ ran["commit"] = 1
                                    /\ answer \in CommitResults /\ ResultIsValid(answer)
                                    /\ answer.publication = "NotPublished"

(* What a cached result says is so. *)
Settled ==
  state \in {"Consumed", "Gone"} =>
    /\ terminal \in CommitResults /\ ResultIsValid(terminal)
    /\ ran["commit"] \in {0, 1} /\ ran["abort"] \in {0, 1}
    /\ terminal.publication = "NotPublished" => effect = "NotPublished" /\ ran["abort"] = 1

Replays == \A c \in Callers : told[c] \in {None, Unknown, terminal}

IInv == TypeOK /\ Untouched /\ OneCaller /\ Progress /\ Settled /\ Replays

-----------------------------------------------------------------------------
(* The invariant holds initially. *)
LEMMA InitIInv == Init => IInv
BY DEF Init, IInv, TypeOK, Untouched, OneCaller, Progress, Settled, Replays, Calls, Publications

(* The two ways a step ends a call, as facts used by every finishing action. *)
LEMMA FinishIInv ==
  ASSUME IInv, NEW c \in Callers, call[c] # "idle",
         NEW r \in CommitResults, ResultIsValid(r), Finish(c, r),
         ran' \in [{"commit", "abort"} -> Nat], effect' \in Publications,
         ran'["commit"] \in {0, 1}, ran'["abort"] \in {0, 1},
         r.publication = "NotPublished" => effect' = "NotPublished" /\ ran'["abort"] = 1
  PROVE  IInv'
<1>1. state = "Committing" /\ terminal = None
  BY DEF IInv, OneCaller, Progress
<1>2. /\ state' = "Consumed" /\ terminal' = r /\ answer' = None
      /\ call' = [call EXCEPT ![c] = "idle"] /\ told' = [told EXCEPT ![c] = r]
  BY DEF Finish, Tell
<1>3. \A d \in Callers : call'[d] = "idle"
  BY <1>2 DEF IInv, TypeOK, OneCaller
<1>4. TypeOK'
  BY <1>2 DEF IInv, TypeOK, Calls
<1>5. Replays'
  BY <1>1, <1>2 DEF IInv, TypeOK, Replays
<1>6. Untouched' /\ OneCaller' /\ Progress' /\ Settled'
  BY <1>2, <1>3 DEF Untouched, OneCaller, Progress, Settled
<1> QED
  BY <1>4, <1>5, <1>6 DEF IInv

(* Every step of every caller, the provider and the owner keeps the invariant. *)
LEMMA StepIInv == ASSUME IInv, [Next]_vars PROVE IInv'
<1> USE TransactionAssumption
<1>1. CASE UNCHANGED vars
  BY <1>1 DEF vars, IInv, TypeOK, Untouched, OneCaller, Progress, Settled, Replays
<1>2. ASSUME NEW c \in Callers, NEW step \in {"checking", "aborting"}, Take(c, step) PROVE IInv'
  <2>1. /\ call[c] = "idle" /\ state = "Pending" /\ state' = "Committing"
        /\ call' = [call EXCEPT ![c] = step]
        /\ UNCHANGED <<terminal, answer, told, ran, effect>>
    BY <1>2 DEF Take
  <2>2. \A d \in Callers : call[d] = "idle"
    BY <2>1 DEF IInv, OneCaller
  <2>3. TypeOK'
    BY <2>1 DEF IInv, TypeOK, Calls
  <2>4. OneCaller' /\ Progress'
    BY <2>1, <2>2 DEF IInv, TypeOK, OneCaller, Progress, Untouched
  <2> QED
    BY <2>1, <2>3, <2>4 DEF IInv, Untouched, Settled, Replays
<1>3. ASSUME NEW c \in Callers, Replay(c) PROVE IInv'
  <2>1. /\ told' = [told EXCEPT ![c] = Unknown] \/ told' = [told EXCEPT ![c] = terminal]
        /\ UNCHANGED <<state, terminal, call, answer, ran, effect>>
    BY <1>3 DEF Replay, Tell
  <2>2. TypeOK'
    BY <2>1, OwnResults DEF IInv, TypeOK
  <2>3. Replays'
    BY <2>1 DEF IInv, TypeOK, Replays
  <2> QED
    BY <2>1, <2>2, <2>3 DEF IInv, Untouched, OneCaller, Progress, Settled
<1>4. ASSUME NEW c \in Callers, CheckCancelled(c) PROVE IInv'
  <2>1. PICK step \in {"cancelling", "committing"} : call' = [call EXCEPT ![c] = step]
    BY <1>4 DEF CheckCancelled
  <2>2. call[c] = "checking" /\ UNCHANGED <<state, terminal, answer, told, ran, effect>>
    BY <1>4 DEF CheckCancelled
  <2>3. TypeOK'
    BY <2>1, <2>2 DEF IInv, TypeOK, Calls
  <2>4. OneCaller'
    BY <2>1, <2>2 DEF IInv, TypeOK, OneCaller
  <2>5. Progress'
    BY <2>1, <2>2 DEF IInv, TypeOK, Progress
  <2> QED
    BY <2>2, <2>3, <2>4, <2>5 DEF IInv, Untouched, Settled, Replays
<1>5. ASSUME NEW c \in Callers, NEW r \in Answers, ProviderAnswers(c, r) PROVE IInv'
  <2>1. /\ call[c] = "committing" /\ state = "Committing" /\ terminal = None
        /\ effect = "NotPublished" /\ ran["commit"] = 0 /\ ran["abort"] = 0
    BY <1>5 DEF ProviderAnswers, IInv, OneCaller, Progress
  <2>2. /\ ran' = [ran EXCEPT !["commit"] = @ + 1] /\ r \in CommitResults
        /\ ran'["commit"] = 1 /\ ran'["abort"] = 0
        /\ ran' \in [{"commit", "abort"} -> Nat]
    BY <1>5, <2>1 DEF ProviderAnswers, IInv, TypeOK
  <2>3. CASE /\ ResultIsValid(r) /\ r.publication = "NotPublished"
             /\ call' = [call EXCEPT ![c] = "confirming"] /\ answer' = r
             /\ UNCHANGED <<state, terminal, told, effect>>
    <3>1. TypeOK'
      BY <2>2, <2>3 DEF IInv, TypeOK, Calls
    <3>2. OneCaller'
      BY <2>1, <2>3 DEF IInv, TypeOK, OneCaller
    <3>3. Progress'
      BY <2>1, <2>2, <2>3 DEF IInv, TypeOK, OneCaller, Progress
    <3> QED
      BY <2>1, <2>2, <2>3, <3>1, <3>2, <3>3 DEF IInv, Untouched, Settled, Replays
  <2>4. CASE ResultIsValid(r) /\ r.publication # "NotPublished" /\ effect' = r.publication /\ Finish(c, r)
    BY <2>1, <2>2, <2>4, FinishIInv DEF CommitResults
  <2>5. CASE ~ResultIsValid(r) /\ effect' \in Publications /\ Finish(c, Unknown)
    BY <2>1, <2>2, <2>5, FinishIInv, OwnResults DEF Unknown
  <2> QED
    BY <1>5, <2>3, <2>4, <2>5 DEF ProviderAnswers
<1>6. ASSUME NEW c \in Callers, ProviderThrows(c) PROVE IInv'
  <2>1. /\ call[c] = "committing" /\ ran["commit"] = 0 /\ ran["abort"] = 0
        /\ ran' = [ran EXCEPT !["commit"] = @ + 1]
    BY <1>6 DEF ProviderThrows, IInv, OneCaller, Progress
  <2>2. ran' \in [{"commit", "abort"} -> Nat] /\ ran'["commit"] = 1 /\ ran'["abort"] = 0
    BY <2>1 DEF IInv, TypeOK
  <2> QED
    BY <1>6, <2>1, <2>2, FinishIInv, OwnResults DEF ProviderThrows, Unknown
<1>7. ASSUME NEW c \in Callers, NEW confirmed \in BOOLEAN, AbortAnswers(c, confirmed) PROVE IInv'
  <2>1. /\ call[c] \in {"confirming", "cancelling", "aborting"}
        /\ effect = "NotPublished" /\ ran["abort"] = 0 /\ ran["commit"] \in {0, 1}
        /\ ran' = [ran EXCEPT !["abort"] = @ + 1]
        /\ effect' = IF confirmed THEN effect ELSE "Unknown"
    BY <1>7 DEF AbortAnswers, IInv, OneCaller, Progress
  <2>2. ran' \in [{"commit", "abort"} -> Nat] /\ ran'["commit"] \in {0, 1} /\ ran'["abort"] = 1
    BY <2>1 DEF IInv, TypeOK
  <2>3. effect' \in Publications /\ (confirmed => effect' = "NotPublished")
    BY <2>1 DEF Publications
  <2>4. CASE ~confirmed
    <3>1. Finish(c, Unknown)
      BY <1>7, <2>1, <2>4 DEF AbortAnswers, AbortResult
    <3> QED
      BY <2>1, <2>2, <2>3, <3>1, FinishIInv, OwnResults DEF Unknown
  <2>5. CASE confirmed /\ call[c] = "confirming"
    <3>1. Finish(c, answer) /\ answer \in CommitResults /\ ResultIsValid(answer)
      BY <1>7, <2>5 DEF AbortAnswers, IInv, Progress
    <3> QED
      BY <2>1, <2>2, <2>3, <2>5, <3>1, FinishIInv
  <2>6. CASE confirmed /\ call[c] = "cancelling"
    <3>1. Finish(c, NotPublished("Cancelled"))
      BY <1>7, <2>6 DEF AbortAnswers, AbortResult
    <3> QED
      BY <2>1, <2>2, <2>3, <2>6, <3>1, FinishIInv, OwnResults
  <2>7. CASE confirmed /\ call[c] = "aborting"
    <3>1. Finish(c, NotPublished("Aborted"))
      BY <1>7, <2>7 DEF AbortAnswers, AbortResult
    <3> QED
      BY <2>1, <2>2, <2>3, <2>7, <3>1, FinishIInv, OwnResults
  <2> QED
    BY <2>1, <2>4, <2>5, <2>6, <2>7
<1>8. ASSUME NEW confirmed \in BOOLEAN, Reset(confirmed) PROVE IInv'
  <2>1. /\ state' = "Gone" /\ UNCHANGED <<call, answer, told>>
        /\ \A c \in Callers : call'[c] = "idle"
    BY <1>8 DEF Reset
  <2>2. CASE state = "Pending"
    <3>1. /\ ran' = [ran EXCEPT !["abort"] = @ + 1]
          /\ effect' = (IF confirmed THEN effect ELSE "Unknown")
          /\ terminal' = AbortResult("Aborted", confirmed)
          /\ terminal = None /\ effect = "NotPublished" /\ ran["commit"] = 0 /\ ran["abort"] = 0
      BY <1>8, <2>2 DEF Reset, IInv, Untouched
    <3>2. /\ terminal' \in CommitResults /\ ResultIsValid(terminal')
          /\ terminal'.publication = "NotPublished" => confirmed
      BY <3>1, OwnResults DEF AbortResult, Unknown
    <3>3. ran' \in [{"commit", "abort"} -> Nat] /\ ran'["commit"] = 0 /\ ran'["abort"] = 1
      BY <3>1 DEF IInv, TypeOK
    <3>4. TypeOK'
      BY <2>1, <3>1, <3>2, <3>3 DEF IInv, TypeOK, Publications
    <3>5. Settled'
      BY <3>1, <3>2, <3>3 DEF Settled
    <3>6. Replays'
      BY <2>1, <3>1 DEF IInv, Replays
    <3> QED
      BY <2>1, <3>4, <3>5, <3>6 DEF IInv, Untouched, OneCaller, Progress
  <2>3. CASE state = "Consumed"
    <3>1. UNCHANGED <<ran, effect, terminal>>
      BY <1>8, <2>3 DEF Reset
    <3> QED
      BY <2>1, <2>3, <3>1 DEF IInv, TypeOK, Untouched, OneCaller, Progress, Settled, Replays
  <2> QED
    BY <1>8, <2>2, <2>3 DEF Reset
<1>9. QED
  BY <1>1, <1>2, <1>3, <1>4, <1>5, <1>6, <1>7, <1>8 DEF Next, BeginCommit, BeginAbort

(* The invariant holds in every reachable state. *)
LEMMA Inductive == Spec => []IInv
BY InitIInv, StepIInv, PTL DEF Spec

-----------------------------------------------------------------------------
(* Every variable keeps its type, for any callers and answers. *)
THEOREM TypeCorrect == Spec => []TypeOK
<1>1. IInv => TypeOK
  BY DEF IInv
<1> QED
  BY <1>1, Inductive, PTL

(* However many threads race to commit, abort or destroy a transaction,      *)
(* neither handler is invoked twice.                                         *)
THEOREM HandlersRunAtMostOnce == Spec => []HandlersRunOnce
<1>1. IInv => HandlersRunOnce
  <2> SUFFICES ASSUME IInv PROVE HandlersRunOnce
    OBVIOUS
  <2>1. CASE state = "Pending"
    BY <2>1 DEF IInv, Untouched, HandlersRunOnce
  <2>2. CASE state = "Committing"
    BY <2>2 DEF IInv, Progress, HandlersRunOnce
  <2>3. CASE state \in {"Consumed", "Gone"}
    BY <2>3 DEF IInv, Settled, HandlersRunOnce
  <2> QED
    BY <2>1, <2>2, <2>3 DEF IInv, TypeOK
<1> QED
  BY <1>1, Inductive, PTL

(* No thread ever hears two different outcomes for one item. *)
THEOREM CallersHearOneResult == Spec => []OneResult
<1>1. IInv => OneResult
  BY DEF IInv, Settled, Replays, OneResult, CommitResults, None
<1> QED
  BY <1>1, Inductive, PTL

(* The abort handler starts only while the item is known to be unpublished. *)
THEOREM AbortsAreEarly == Spec => AbortNeverUndoesAPublication
<1>1. ASSUME IInv, [Next]_vars PROVE [ran'["abort"] # ran["abort"] => effect = "NotPublished"]_vars
  <2> SUFFICES ASSUME ran'["abort"] # ran["abort"], ~UNCHANGED vars PROVE effect = "NotPublished"
    OBVIOUS
  <2>1. CASE state \in {"Pending", "Committing"}
    BY <1>1, <2>1 DEF IInv, Untouched, Progress
  <2>2. CASE state \in {"Consumed", "Gone"}
    <3>1. \A c \in Callers : call[c] = "idle"
      BY <1>1, <2>2 DEF IInv, OneCaller
    <3>2. UNCHANGED ran
      BY <1>1, <2>2, <3>1
      DEF Next, vars, BeginCommit, BeginAbort, Take, Replay, CheckCancelled, ProviderAnswers,
          ProviderThrows, AbortAnswers, Reset
    <3> QED
      BY <3>2
  <2> QED
    BY <1>1, <2>1, <2>2 DEF IInv, TypeOK
<1> QED
  BY <1>1, Inductive, PTL DEF Spec, AbortNeverUndoesAPublication

(* Three components judge a result by three tables; no provider answer gets  *)
(* through the first and is refused by the second or the third, for any plan *)
(* type, so an operation that ran can always be journalled.                  *)
THEOREM TerminalsAreJournalable == Spec => []EveryTerminalIsJournalable
<1>1. ASSUME IInv, terminal # None, NEW type \in PlanTypes
      PROVE  LET x == MapResult(terminal, RemovesSource(type))
             IN  IF terminal.failure = "Aborted" THEN x = NonExecutionTerminal
                 ELSE x \notin Refused /\ ValidItemResult(type, x)
  <2>1. terminal \in CommitResults /\ ResultIsValid(terminal)
    BY <1>1 DEF IInv, TypeOK, Untouched, Progress, Settled
  <2>2. Consistent(terminal)
    BY <2>1, TablesAgree
  <2>3. CASE terminal.failure = "Aborted"
    BY <2>2, <2>3 DEF MapResult
  <2>4. CASE terminal.failure # "Aborted"
    <3>1. MapResult(terminal, RemovesSource(type)) = ItemOf(terminal, RemovesSource(type))
      BY <2>2, <2>4 DEF MapResult
    <3>2. RemovesSource(type) \in BOOLEAN
      BY DEF RemovesSource
    <3> QED
      BY <2>1, <2>4, <3>1, <3>2, ItemIsValid, ItemIsNoRefusal
  <2> QED
    BY <2>3, <2>4
<1>2. IInv => EveryTerminalIsJournalable
  BY <1>1 DEF EveryTerminalIsJournalable
<1> QED
  BY <1>2, Inductive, PTL

(* A retry is offered, and a cancellation reported, only for an item that    *)
(* the provider left unpublished and the abort handler confirmed clean.      *)
THEOREM RetriesAreSafe == Spec => []RetryIsSafe
<1>1. ASSUME IInv, terminal # None, NEW removes \in BOOLEAN,
             MapResult(terminal, removes) \notin Refused,
             \/ MapResult(terminal, removes).status = "Cancelled"
             \/ MapResult(terminal, removes).recovery = "Retry"
      PROVE  effect = "NotPublished" /\ ran["abort"] = 1
  <2>1. /\ state \in {"Consumed", "Gone"}
        /\ terminal \in CommitResults /\ ResultIsValid(terminal)
        /\ terminal.publication = "NotPublished" => effect = "NotPublished" /\ ran["abort"] = 1
    BY <1>1 DEF IInv, TypeOK, Untouched, Progress, Settled
  <2>2. MapResult(terminal, removes) = ItemOf(terminal, removes)
    BY <1>1 DEF MapResult, Refused
  <2>3. StatusOf(terminal) = "Cancelled" \/ RecoveryOf(terminal, removes) = "Retry"
    BY <1>1, <2>2 DEF ItemOf
  <2>4. terminal.publication = "NotPublished"
    <3>1. CASE StatusOf(terminal) = "Cancelled"
      BY <2>1, <3>1 DEF StatusOf, ResultIsValid, CommitResults, Publications
    <3>2. CASE terminal.publication = "Published" /\ RecoveryOf(terminal, removes) = "Retry"
      BY <2>1, <3>2 DEF RecoveryOf, Inspect, ResultIsValid
    <3>3. CASE terminal.publication = "Unknown" /\ RecoveryOf(terminal, removes) = "Retry"
      BY <2>1, <3>3 DEF RecoveryOf, Inspect, ResultIsValid
    <3> QED
      BY <2>1, <2>3, <3>1, <3>2, <3>3 DEF CommitResults, Publications
  <2> QED
    BY <2>1, <2>4
<1>2. IInv => RetryIsSafe
  BY <1>1 DEF RetryIsSafe
<1> QED
  BY <1>2, Inductive, PTL
=============================================================================
