----------------------------- MODULE MCCopyJob -----------------------------
(* One provider answer of each kind the job tells apart.                    *)
EXTENDS CopyJob

Copied       == [publication |-> "Published", failure |-> "None", error |-> "zero",
                 sync |-> "Confirmed", syncError |-> "zero"]
Unsynced     == [publication |-> "Published", failure |-> "FileSystemSyncFailed", error |-> "io",
                 sync |-> "Failed", syncError |-> "io"]
StaleSource  == [publication |-> "NotPublished", failure |-> "SourceStale", error |-> "stale",
                 sync |-> "NotAttempted", syncError |-> "zero"]
Nonsense     == [publication |-> "Published", failure |-> "Cancelled", error |-> "zero",
                 sync |-> "NotAttempted", syncError |-> "zero"]

MCAnswers == {Copied, Unsynced, StaleSource, Nonsense,
              NotPublished("Cancelled"), NotPublished("Aborted")}
=============================================================================
