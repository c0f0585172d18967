------------------------- MODULE ConditionalCommit -------------------------
(***************************************************************************)
(* What one item of a reviewed copy, move or delete may end with: the      *)
(* result a provider answers (ProviderCapabilities.cpp), the item evidence *)
(* it is mapped to (ProviderConditionalCopyJournalMapper.cpp) and what the *)
(* journal accepts (OperationJournal.cpp).  Three components judge the     *)
(* same facts by three tables of their own; a result that passes one and   *)
(* fails the next would leave an operation that can never be journalled.   *)
(*                                                                         *)
(* An errno is one of "zero", "negative" and three positive values.        *)
(***************************************************************************)
EXTENDS Naturals

Publications == {"NotPublished", "Published", "Unknown"}
Failures     == {"None", "Aborted", "Cancelled", "SourceStale", "DestinationParentStale",
                 "DestinationExists", "MetadataFailed", "FileSystemSyncFailed",
                 "ProviderFailure"}
Syncs        == {"NotAttempted", "Confirmed", "Failed"}
Errnos       == {"zero", "negative", "stale", "exists", "io"}

CommitResults == [publication : Publications, failure : Failures, error : Errnos,
                  sync : Syncs, syncError : Errnos]

NotPublished(failure) == [publication |-> "NotPublished", failure |-> failure,
                          error |-> "zero", sync |-> "NotAttempted", syncError |-> "zero"]
Unknown == [publication |-> "Unknown", failure |-> "ProviderFailure",
            error |-> "io", sync |-> "NotAttempted", syncError |-> "zero"]

-----------------------------------------------------------------------------
(* ProviderConditionalCopyTransaction: one commit, one cached result.       *)

ResultIsValid(r) ==
  /\ r.error # "negative" /\ r.syncError # "negative"
  /\ r.sync = "Failed" <=> r.syncError # "zero"
  /\ \/ /\ r.publication = "NotPublished" /\ r.sync = "NotAttempted"
        /\ \/ r.failure \in {"Aborted", "Cancelled"} /\ r.error = "zero"
           \/ r.failure \in {"SourceStale", "DestinationParentStale"} /\ r.error = "stale"
           \/ r.failure = "DestinationExists" /\ r.error = "exists"
           \/ r.failure = "ProviderFailure" /\ r.error # "zero"
     \/ /\ r.publication = "Unknown" /\ r.failure = "ProviderFailure"
        /\ r.error # "zero" /\ r.sync = "NotAttempted"
     \/ /\ r.publication = "Published" /\ r.sync # "NotAttempted"
        /\ \/ r.failure = "None" /\ r.error = "zero" /\ r.sync = "Confirmed"
           \/ r.failure \in {"MetadataFailed", "ProviderFailure"} /\ r.error # "zero"
           \/ /\ r.failure = "FileSystemSyncFailed" /\ r.error # "zero"
              /\ r.sync = "Failed" /\ r.syncError = r.error

(* Stopping short of the provider runs the abort handler instead, whose     *)
(* failure leaves the publication unknown.                                  *)
AbortResult(failure, aborted) == IF aborted THEN NotPublished(failure) ELSE Unknown

(* The result Commit caches: the provider's answer if it makes sense, the   *)
(* abort handler having confirmed that an unpublished item left nothing.    *)
(* A handler that throws is an answer that makes no sense.                  *)
CommitResult(answer, cancelled, aborted) ==
  IF cancelled THEN AbortResult("Cancelled", aborted)
  ELSE IF /\ ResultIsValid(answer)
          /\ answer.publication = "NotPublished" => aborted
  THEN answer ELSE Unknown

-----------------------------------------------------------------------------
(* The mapper.                                                              *)

Consistent(r) ==
  /\ {r.error, r.syncError} \cap {"negative"} = {}
  /\ CASE r.sync = "Failed" -> r.syncError # "zero" [] OTHER -> r.syncError = "zero"
  /\ CASE r.publication = "NotPublished" ->
            /\ r.sync = "NotAttempted"
            /\ CASE r.failure \in {"Aborted", "Cancelled"} -> r.error = "zero"
                 [] r.failure \in {"SourceStale", "DestinationParentStale"} -> r.error = "stale"
                 [] r.failure = "DestinationExists" -> r.error = "exists"
                 [] r.failure = "ProviderFailure" -> r.error # "zero"
                 [] OTHER -> FALSE
       [] r.publication = "Unknown" ->
            r.failure = "ProviderFailure" /\ r.error # "zero" /\ r.sync = "NotAttempted"
       [] r.publication = "Published" ->
            CASE r.failure = "None" -> r.error = "zero" /\ r.sync = "Confirmed"
              [] r.failure \in {"MetadataFailed", "ProviderFailure"} ->
                   r.error # "zero" /\ r.sync # "NotAttempted"
              [] r.failure = "FileSystemSyncFailed" ->
                   r.error # "zero" /\ r.sync = "Failed" /\ r.syncError = r.error
              [] OTHER -> FALSE

NonExecutionTerminal == [refused |-> "NonExecutionTerminal"]
InconsistentResult   == [refused |-> "InconsistentResult"]
Refused              == {NonExecutionTerminal, InconsistentResult}

Inspect(removes) == IF removes THEN "InspectSource" ELSE "InspectDestination"

(* Status, error and recovery of a consistent result that executed.         *)
StatusOf(r) == CASE r.failure = "None" -> "Succeeded"
                 [] r.failure = "Cancelled" -> "Cancelled"
                 [] OTHER -> "Failed"

ErrorWithoutPublication(r) == \* mutant: a provider failure is unknown wherever it stopped
  CASE r.failure = "None" -> "None"
    [] r.failure = "Cancelled" -> "Cancelled"
    [] r.failure \in {"SourceStale", "DestinationParentStale", "DestinationExists"} -> "SourceChanged"
    [] OTHER -> "Unknown"

ErrorOf(r) == CASE r.failure = "None" -> "None"
                [] r.failure = "Cancelled" -> "Cancelled"
                [] r.failure = "SourceStale" -> "SourceChanged"
                [] r.failure \in {"DestinationParentStale", "DestinationExists"} -> "DestinationChanged"
                [] r.failure = "MetadataFailed" -> "Metadata"
                [] r.failure = "FileSystemSyncFailed" -> "Commit"
                [] OTHER -> IF r.publication = "NotPublished" THEN "Unknown" ELSE "Commit"

RecoveryOf(r, removes) == CASE r.failure \in {"None", "Cancelled"} -> "None"
                            [] r.failure \in {"MetadataFailed", "FileSystemSyncFailed"} -> Inspect(removes)
                            [] r.failure = "ProviderFailure" /\ r.publication # "NotPublished" -> Inspect(removes)
                            [] OTHER -> "Retry"

Removal(publication) == CASE publication = "NotPublished" -> "NotRemoved"
                          [] publication = "Published" -> "Removed"
                          [] OTHER -> "Unknown"

(* bytes stands for whether the exact source bytes are credited.            *)
ItemOf(r, removes) ==
  [status     |-> StatusOf(r),
   error      |-> ErrorOf(r),
   system     |-> r.error,
   priorError |-> "None", priorSystem |-> "zero",
   bytes      |-> r.publication = "Published",
   dest       |-> IF removes THEN "NotPublished" ELSE r.publication,
   source     |-> IF removes THEN Removal(r.publication) ELSE "NotRemoved",
   sync       |-> r.sync, syncError |-> r.syncError,
   recovery   |-> RecoveryOf(r, removes)]

MapResult(r, removes) ==
  IF ~Consistent(r) THEN InconsistentResult
  ELSE IF r.failure = "Aborted" THEN NonExecutionTerminal ELSE ItemOf(r, removes)

-----------------------------------------------------------------------------
(* The journal's own judgement of an item (OperationJournalValidItemResult). *)

PublishingTypes == {"Copy", "Move", "Rename"}
RemovingTypes   == {"Trash", "PermanentDelete"}
PlanTypes       == PublishingTypes \cup RemovingTypes

PublishesDestination(type) == type \in PublishingTypes
RemovesSource(type)        == type \in RemovingTypes

NothingHappened(x) == x.dest = "NotPublished" /\ x.source = "NotRemoved"

ValidSync(x, happened) ==
  \/ ~happened /\ x.sync = "NotAttempted" /\ x.syncError = "zero"
  \/ happened /\ x.sync = "Confirmed" /\ x.syncError = "zero"
  \/ happened /\ x.sync = "Failed" /\ x.syncError # "zero"

ValidPrior(x) ==
  IF x.error = "Cleanup"
  THEN /\ NothingHappened(x)
       /\ x.priorError \notin {"None", "Cleanup"}
       /\ x.priorError = "Cancelled" <=> x.priorSystem = "zero"
  ELSE x.priorError = "None" /\ x.priorSystem = "zero"

ValidRecovery(x) ==
  /\ x.dest = "Unknown" => x.error = "Commit" /\ x.recovery = "InspectDestination"
  /\ x.source = "Unknown" => x.error = "Commit" /\ x.recovery = "InspectSource"
  /\ CASE x.recovery = "None" -> x.dest # "Unknown" /\ x.source # "Unknown"
       [] x.recovery \in {"Retry", "RemoveTemporaryItem"} -> NothingHappened(x)
       [] x.recovery = "InspectDestination" -> x.dest # "NotPublished"
       [] x.recovery = "InspectSource" -> x.source # "NotRemoved"
       [] x.recovery = "RestoreSource" -> x.dest = "Published"

ValidItemResult(type, x) ==
  LET happened == \/ PublishesDestination(type) /\ x.dest = "Published"
                  \/ RemovesSource(type) /\ x.source = "Removed"
  IN  /\ "negative" \notin {x.system, x.priorSystem, x.syncError}
      /\ PublishesDestination(type) \/ x.dest = "NotPublished"
      /\ RemovesSource(type) \/ x.source = "NotRemoved"
      /\ ValidSync(x, happened)
      /\ ValidPrior(x)
      /\ CASE x.status = "Succeeded" ->
                /\ x.error = "None" /\ x.system = "zero" /\ x.recovery = "None"
                /\ happened /\ x.sync = "Confirmed"
           [] x.status = "Skipped" ->
                /\ x.error = "None" /\ x.system = "zero" /\ x.recovery = "None"
                /\ ~x.bytes /\ NothingHappened(x)
           [] x.status = "Cancelled" ->
                /\ x.error = "Cancelled" /\ x.system = "zero" /\ x.recovery = "None"
                /\ NothingHappened(x)
           [] x.status = "Failed" ->
                /\ x.error \notin {"None", "Cancelled"}
                /\ x.error = "Cleanup" \/ x.system # "zero"
                /\ ValidRecovery(x)
=============================================================================
