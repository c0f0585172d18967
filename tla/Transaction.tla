---------------------------- MODULE Transaction ----------------------------
(***************************************************************************)
(* ProviderConditionalCopyTransaction (ProviderCapabilities.cpp): the      *)
(* one-shot authority to publish one item.  Any thread may ask it to       *)
(* commit or abort; the first caller takes the two handlers out under the  *)
(* mutex, runs them without it, and caches one result that every later     *)
(* call replays.  A call that finds the handlers running is told Unknown.  *)
(*                                                                         *)
(* The provider is external: any answer at all, or an exception.           *)
(***************************************************************************)
EXTENDS ConditionalCommit

CONSTANTS
  Callers,   \* threads that hold the transaction
  Answers    \* what a provider's commit handler may return

ASSUME TransactionAssumption == Answers \subseteq CommitResults

VARIABLES
  state,     \* Impl::state, or "Gone" once the transaction is destroyed
  terminal,  \* Impl::terminal_result
  call,      \* where each caller is
  answer,    \* the unpublished answer whose clean-up is being confirmed
  told,      \* the last result each caller got
  ran,       \* history: how often each handler was invoked
  effect     \* history: what the provider really did to the item

vars == <<state, terminal, call, answer, told, ran, effect>>

None  == [none |-> "none"]
Calls == {"idle", "checking", "committing", "confirming", "cancelling", "aborting"}

(* The ranges of the state. *)
TypeOK ==
  /\ state \in {"Pending", "Committing", "Consumed", "Gone"}
  /\ terminal \in CommitResults \cup {None}
  /\ call \in [Callers -> Calls]
  /\ answer \in CommitResults \cup {None}
  /\ told \in [Callers -> CommitResults \cup {None}]
  /\ ran \in [{"commit", "abort"} -> Nat]
  /\ effect \in Publications

Init ==
  /\ state = "Pending"
  /\ terminal = None
  /\ call = [c \in Callers |-> "idle"]
  /\ answer = None
  /\ told = [c \in Callers |-> None]
  /\ ran = [h \in {"commit", "abort"} |-> 0]
  /\ effect = "NotPublished"

-----------------------------------------------------------------------------
Tell(c, r) == told' = [told EXCEPT ![c] = r]

(* A call that is not the first one: it is answered under the mutex. *)
Replay(c) ==
  /\ call[c] = "idle"
  /\ \/ state = "Committing" /\ Tell(c, Unknown)
     \/ state = "Consumed" /\ Tell(c, terminal)
  /\ UNCHANGED <<state, terminal, call, answer, ran, effect>>

TakeWithoutMarking(c, step) == \* mutant: the handlers are taken but the state is left Pending
  /\ call[c] = "idle" /\ state = "Pending"
  /\ call' = [call EXCEPT ![c] = step]
  /\ UNCHANGED <<state, terminal, answer, told, ran, effect>>

(* The first call takes both handlers out. *)
Take(c, step) ==
  /\ call[c] = "idle" /\ state = "Pending"
  /\ state' = "Committing"
  /\ call' = [call EXCEPT ![c] = step]
  /\ UNCHANGED <<terminal, answer, told, ran, effect>>

BeginCommit(c) == Take(c, "checking")
BeginAbort(c)  == Take(c, "aborting")

(* The cancel checker is asked once before the handler; a throw counts as yes. *)
CheckCancelled(c) ==
  /\ call[c] = "checking"
  /\ \E step \in {"cancelling", "committing"} : call' = [call EXCEPT ![c] = step]
  /\ UNCHANGED <<state, terminal, answer, told, ran, effect>>

Finish(c, r) ==
  /\ state' = "Consumed"
  /\ terminal' = r
  /\ call' = [call EXCEPT ![c] = "idle"]
  /\ answer' = None
  /\ Tell(c, r)

(* The commit handler returns: a sound answer that left nothing is confirmed *)
(* by the abort handler first, any other sound answer is final, and nothing  *)
(* is known after an answer that makes no sense or an exception.             *)
ProviderAnswers(c, r) ==
  /\ call[c] = "committing"
  /\ ran' = [ran EXCEPT !["commit"] = @ + 1]
  /\ \/ /\ ResultIsValid(r) /\ r.publication = "NotPublished"
        /\ call' = [call EXCEPT ![c] = "confirming"]
        /\ answer' = r
        /\ UNCHANGED <<state, terminal, told, effect>>
     \/ /\ ResultIsValid(r) /\ r.publication # "NotPublished"
        /\ effect' = r.publication
        /\ Finish(c, r)
     \/ /\ ~ResultIsValid(r)
        /\ effect' \in Publications
        /\ Finish(c, Unknown)

ProviderThrows(c) ==
  /\ call[c] = "committing"
  /\ ran' = [ran EXCEPT !["commit"] = @ + 1]
  /\ effect' \in Publications
  /\ Finish(c, Unknown)

AbortIsTrusted(c, confirmed) == \* mutant: the abort handler's answer is not looked at
  /\ call[c] \in {"confirming", "cancelling", "aborting"}
  /\ ran' = [ran EXCEPT !["abort"] = @ + 1]
  /\ effect' = IF confirmed THEN effect ELSE "Unknown"
  /\ Finish(c, CASE call[c] = "confirming" -> answer
                 [] call[c] = "cancelling" -> NotPublished("Cancelled")
                 [] OTHER -> NotPublished("Aborted"))

(* The abort handler confirms that nothing was left, or it does not. *)
AbortAnswers(c, confirmed) ==
  /\ call[c] \in {"confirming", "cancelling", "aborting"}
  /\ ran' = [ran EXCEPT !["abort"] = @ + 1]
  /\ effect' = IF confirmed THEN effect ELSE "Unknown"
  /\ Finish(c, CASE call[c] = "confirming" -> IF confirmed THEN answer ELSE Unknown
                 [] call[c] = "cancelling" -> AbortResult("Cancelled", confirmed)
                 [] OTHER -> AbortResult("Aborted", confirmed))

(* The owner drops a transaction nobody is calling: what was never executed  *)
(* is aborted.                                                               *)
Reset(confirmed) ==
  /\ \A c \in Callers : call[c] = "idle"
  /\ state \in {"Pending", "Consumed"}
  /\ state' = "Gone"
  /\ IF state = "Pending"
     THEN /\ ran' = [ran EXCEPT !["abort"] = @ + 1]
          /\ effect' = IF confirmed THEN effect ELSE "Unknown"
          /\ terminal' = AbortResult("Aborted", confirmed)
     ELSE UNCHANGED <<ran, effect, terminal>>
  /\ UNCHANGED <<call, answer, told>>

Next ==
  \/ \E c \in Callers :
       \/ BeginCommit(c) \/ BeginAbort(c) \/ Replay(c) \/ CheckCancelled(c)
       \/ \E r \in Answers : ProviderAnswers(c, r)
       \/ ProviderThrows(c)
       \/ \E confirmed \in BOOLEAN : AbortAnswers(c, confirmed)
  \/ \E confirmed \in BOOLEAN : Reset(confirmed)

Spec == Init /\ [][Next]_vars

-----------------------------------------------------------------------------
(* Each handler runs at most once however many threads call (Commit, Abort   *)
(* and Reset take them out under the mutex).                                 *)
HandlersRunOnce == ran["commit"] <= 1 /\ ran["abort"] <= 1

(* The abort handler, which deletes what was staged, never starts once the   *)
(* provider has published the item or no longer says what it did.            *)
AbortNeverUndoesAPublication ==
  [][ran'["abort"] # ran["abort"] => effect = "NotPublished"]_vars

(* One result per transaction: it never changes, and a caller is told that   *)
(* result or, while the handlers run, that nothing is known.                 *)
OneResult ==
  /\ state \in {"Consumed", "Gone"} => terminal # None
  /\ \A c \in Callers : told[c] \in {None, Unknown, terminal}

(* Whatever the provider answers, the cached result is one the mapper        *)
(* accepts for every plan type and the journal accepts from the mapper; only *)
(* an aborted item has nothing to report.  Three tables agree.               *)
EveryTerminalIsJournalable ==
  terminal # None =>
    \A type \in PlanTypes :
      LET x == MapResult(terminal, RemovesSource(type))
      IN  IF terminal.failure = "Aborted" THEN x = NonExecutionTerminal
          ELSE x \notin Refused /\ ValidItemResult(type, x)

(* An item is reported cancelled, or offered for a retry, only if nothing    *)
(* happened to it and the abort handler has confirmed that nothing is left.  *)
RetryIsSafe ==
  terminal # None =>
    \A removes \in BOOLEAN :
      LET x == MapResult(terminal, removes)
      IN  x \notin Refused /\ (x.status = "Cancelled" \/ x.recovery = "Retry")
            => effect = "NotPublished" /\ ran["abort"] = 1
=============================================================================
