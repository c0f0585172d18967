-------------------------------- MODULE Pool --------------------------------
(***************************************************************************)
(* The operation pool (Pool.mm): a queue of cold operations, the ones that *)
(* were started, and the finished ones whose terminal finalizer has not    *)
(* released them yet.                                                      *)
(*                                                                         *)
(* Pool code runs on whatever thread calls it: the one that enqueues, the  *)
(* worker of an operation that finishes, a thread that stops or retries,   *)
(* the one that shuts the pool down, and each of them may start further    *)
(* operations.  A thread is a stack of calls, its top first.  m_Lock       *)
(* guards single steps.  m_StartGate is recursive and is held by whoever   *)
(* has a call in GateSteps on its stack.                                   *)
(*                                                                         *)
(* An operation is the part of Job.cpp and Operation.mm the pool sees; the *)
(* detailed one is module CopyJob.  Finalizers and the enqueuing policy    *)
(* are external.  The completion callback, dialogs and the other observers *)
(* change no state of the pool and are left out.                           *)
(***************************************************************************)
EXTENDS Integers, Sequences, SequencesExt, FiniteSets

CONSTANTS
  Ops,          \* operations, each of them also the worker thread created for it
  Impatient,    \* operations the enqueuing policy does not queue
  Limits,       \* concurrencies somebody may ask for
  Enqueuers,    \* threads that enqueue operations
  Stoppers,     \* threads that stop single operations
  Retriers,     \* threads that retry retained finalizations
  Closers       \* threads that shut the pool down

Threads == Ops \cup Enqueuers \cup Stoppers \cup Retriers \cup Closers

ASSUME PoolAssumption ==
  /\ Impatient \subseteq Ops
  /\ Limits \subseteq Int /\ Limits # {}
  /\ Ops \cap (Enqueuers \cup Stoppers \cup Retriers \cup Closers) = {}

VARIABLES
  concurrency,  \* m_Concurrency
  pending,      \* m_PendingOperations
  running,      \* m_RunningOperations
  finalizing,   \* m_FinalizingOperations
  inProgress,   \* operations whose FinalizingOperation is in_progress
  shuttingDown, \* m_ShuttingDown
  snapshot,     \* the operations a shutdown stops and waits for
  job,          \* the flags of each operation's job
  stack,        \* the pool calls each thread is in
  released,     \* history: how often each operation was released
  untold        \* history: operations whose workers ended and told nobody

lists == <<pending, running, finalizing>>
vars  == <<concurrency, lists, inProgress, shuttingDown, snapshot, job, stack, released, untold>>

GateSteps == {"begin", "record", "launch", "failed"}

Whatever(n) == n \* mutant: a concurrency of zero is accepted

(* What a concurrency asked for becomes. *)
AtLeastOne(n) == IF n < 1 THEN 1 ELSE n
Concurrencies == {AtLeastOne(n) : n \in Limits}

Init ==
  /\ concurrency \in Concurrencies
  /\ pending = <<>> /\ running = <<>> /\ finalizing = <<>>
  /\ inProgress = {}
  /\ shuttingDown = FALSE
  /\ snapshot = <<>>
  /\ job = [o \in Ops |-> [wasStarted |-> FALSE, isRunning |-> FALSE, isPaused |-> FALSE,
                           isStopped |-> FALSE, isCompleted |-> FALSE, executionFinished |-> FALSE]]
  /\ stack = [t \in Threads |-> <<>>]
  /\ released = [o \in Ops |-> 0] /\ untold = {}

-----------------------------------------------------------------------------
(* Calls.  A call has a step, an operation it is about, the operations it    *)
(* has still to start or stop, and a flag.                                   *)

Call(step, o, todo, flag) == [step |-> step, op |-> o, todo |-> todo, flag |-> flag]
About(step, o)            == Call(step, o, <<>>, FALSE)
NoOp                      == "no operation"
StartPending              == About("gather", NoOp)

Idle(t)     == stack[t] = <<>>
Top(t)      == Head(stack[t])
At(t, step) == ~Idle(t) /\ Top(t).step = step

Becomes(t, call)     == stack' = [stack EXCEPT ![t] = <<call>> \o Tail(@)]
Calls(t, then, call) == stack' = [stack EXCEPT ![t] = <<call, then>> \o Tail(@)]
Enters(t, call)      == Idle(t) /\ stack' = [stack EXCEPT ![t] = <<call>>]
Returns(t)           == stack' = [stack EXCEPT ![t] = Tail(@)]
Goes(t, step)        == Becomes(t, [Top(t) EXCEPT !.step = step])

Inside(t, o, step)  == \E i \in DOMAIN stack[t] : stack[t][i].op = o /\ stack[t][i].step = step
HoldsGate(t)        == \E i \in DOMAIN stack[t] : stack[t][i].step \in GateSteps
GateIsFree(t)       == \A u \in Threads \ {t} : ~HoldsGate(u)
Listed(o)           == o \in ToSet(pending) \cup ToSet(running) \cup ToSet(finalizing)

(* What a list has of a set, in the order of the list: SelectSeq without its  *)
(* recursion. *)
Only(list, set) ==
  LET at  == {i \in DOMAIN list : list[i] \in set}
      nth == CHOOSE f \in [1 .. Cardinality(at) -> at] : \A i, j \in DOMAIN f : i < j => f[i] < f[j]
  IN  [i \in 1 .. Cardinality(at) |-> list[nth[i]]]
Without(list, o) == Only(list, ToSet(list) \ {o})

State(o) == IF job[o].isPaused THEN "Paused"
            ELSE IF job[o].isRunning THEN "Running"
            ELSE IF job[o].isCompleted THEN "Completed"
            ELSE IF job[o].isStopped THEN "Stopped" ELSE "Cold"

First(t) == Head(Top(t).todo)

(* m_TransitionMutex of the job: a stop keeps it until the pause is cleared,  *)
(* a failed launch until the execution has finished.                          *)
TransitionIsFree(o) ==
  \A t \in Threads : /\ ~Inside(t, o, "clear")
                     /\ \A i \in DOMAIN stack[t] : stack[t][i].step = "failed" => Head(stack[t][i].todo) # o

-----------------------------------------------------------------------------
(* Pause and Resume, on any thread and at any time.                         *)

Pause(o) ==
  /\ TransitionIsFree(o)
  /\ ~job[o].isPaused /\ ~job[o].isCompleted /\ ~job[o].isStopped
  /\ job' = [job EXCEPT ![o].isPaused = TRUE]
  /\ UNCHANGED <<concurrency, lists, inProgress, shuttingDown, snapshot, stack, released, untold>>

Resume(o) ==
  /\ TransitionIsFree(o) /\ job[o].isPaused
  /\ job' = [job EXCEPT ![o].isPaused = FALSE]
  /\ UNCHANGED <<concurrency, lists, inProgress, shuttingDown, snapshot, stack, released, untold>>

-----------------------------------------------------------------------------
(* TryEnqueue: what is not accepted changes nothing.                        *)

TryEnqueueUnchecked(t, o) == \* mutant: a duplicate is not looked for
  /\ ~shuttingDown /\ State(o) = "Cold"
  /\ pending' = Append(pending, o)
  /\ Enters(t, StartPending)
  /\ UNCHANGED <<concurrency, running, finalizing, inProgress, shuttingDown, snapshot, job, released, untold>>

TryEnqueue(t, o) ==
  /\ ~shuttingDown /\ ~Listed(o) /\ State(o) = "Cold"
  /\ pending' = Append(pending, o)
  /\ Enters(t, StartPending)
  /\ UNCHANGED <<concurrency, running, finalizing, inProgress, shuttingDown, snapshot, job, released, untold>>

-----------------------------------------------------------------------------
(* StartPendingOperations.                                                  *)

RoomForOneMore(others) == \* mutant: off by one
  IF Len(others) <= concurrency THEN concurrency + 1 - Len(others) ELSE 0

(* How many queued operations may join those that run. *)
Room(others) == IF Len(others) < concurrency THEN concurrency - Len(others) ELSE 0

(* SetConcurrency comes from the main thread, under no lock, and starts       *)
(* nothing.                                                                   *)
SetConcurrency(n) ==
  /\ concurrency' = AtLeastOne(n)
  /\ UNCHANGED <<lists, inProgress, shuttingDown, snapshot, job, stack, released, untold>>

(* The impatient leave the queue first, unless the policy failed for any; the *)
(* others follow in order while there is room.                                *)
Gather(t) ==
  /\ At(t, "gather")
  /\ IF shuttingDown THEN Returns(t) /\ UNCHANGED <<pending, running>>
     ELSE \E eager \in {Impatient, {}} :
            LET jump  == Only(pending, eager)
                queue == Only(pending, Ops \ eager)
                room  == Room(running \o jump)
                taken == IF room < Len(queue) THEN room ELSE Len(queue)
                chosen == jump \o SubSeq(queue, 1, taken)
            IN  /\ pending' = SubSeq(queue, taken + 1, Len(queue))
                /\ running' = running \o chosen
                /\ Becomes(t, Call("start", NoOp, chosen, FALSE))
  /\ UNCHANGED <<concurrency, finalizing, inProgress, shuttingDown, snapshot, job, released, untold>>

(* The starting calls take their operations one by one under the start gate. *)
NextOne(t) == Becomes(t, [Top(t) EXCEPT !.step = "start", !.todo = Tail(@)])

EnterGate(t) ==
  /\ At(t, "start")
  /\ IF Top(t).todo = <<>> THEN Returns(t)
     ELSE /\ GateIsFree(t)
          /\ IF shuttingDown THEN NextOne(t) ELSE Goes(t, "begin")
  /\ UNCHANGED <<concurrency, lists, inProgress, shuttingDown, snapshot, job, released, untold>>

(* Operation::Start: an operation stopped by now does not run. *)
BeginStart(t) ==
  /\ At(t, "begin")
  /\ IF job[First(t)].wasStarted \/ job[First(t)].isStopped THEN NextOne(t) ELSE Goes(t, "record")
  /\ UNCHANGED <<concurrency, lists, inProgress, shuttingDown, snapshot, job, released, untold>>

RecordStart(t) ==
  /\ At(t, "record")
  /\ job' = [job EXCEPT ![First(t)].wasStarted = TRUE, ![First(t)].isRunning = TRUE]
  /\ Goes(t, "launch")
  /\ UNCHANGED <<concurrency, lists, inProgress, shuttingDown, snapshot, released, untold>>

Launch(t) ==
  /\ At(t, "launch")
  /\ stack' = [stack EXCEPT ![First(t)] = <<About("execute", First(t))>>,
                            ![t] = <<[Top(t) EXCEPT !.step = "start", !.todo = Tail(@)]>> \o Tail(@)]
  /\ UNCHANGED <<concurrency, lists, inProgress, shuttingDown, snapshot, job, released, untold>>

(* No thread could be created: the operation ends where it was started. *)
LaunchFails(t) ==
  /\ At(t, "launch") /\ TransitionIsFree(First(t))
  /\ job' = [job EXCEPT ![First(t)].isStopped = TRUE, ![First(t)].isPaused = FALSE,
                        ![First(t)].isRunning = FALSE]
  /\ Calls(t, [Top(t) EXCEPT !.step = "failed"], About("finish", First(t)))
  /\ UNCHANGED <<concurrency, lists, inProgress, shuttingDown, snapshot, released, untold>>

LaunchFailedSilently(t) == \* mutant: a failed launch does not finish the execution
  /\ At(t, "failed")
  /\ NextOne(t)
  /\ UNCHANGED <<concurrency, lists, inProgress, shuttingDown, snapshot, job, released, untold>>

LaunchFailed(t) ==
  /\ At(t, "failed")
  /\ job' = [job EXCEPT ![First(t)].executionFinished = TRUE]
  /\ NextOne(t)
  /\ UNCHANGED <<concurrency, lists, inProgress, shuttingDown, snapshot, released, untold>>

-----------------------------------------------------------------------------
(* The worker of an operation performs it unless it was stopped by now, ends *)
(* and tells; Wait returns after that.                                       *)

Execute(o) ==
  /\ At(o, "execute") /\ ~job[o].isStopped
  /\ Goes(o, "working")
  /\ UNCHANGED <<concurrency, lists, inProgress, shuttingDown, snapshot, job, released, untold>>

(* The last time the work waits for the pause to end. *)
BlockIfPaused(o) ==
  /\ At(o, "working")
  /\ ~job[o].isPaused \/ job[o].isStopped \/ job[o].isCompleted
  /\ \A t \in Threads : ~Inside(t, o, "clear") \* m_StateMutex
  /\ Goes(o, "last")
  /\ UNCHANGED <<concurrency, lists, inProgress, shuttingDown, snapshot, job, released, untold>>

(* FinishExecution: a job nobody has stopped is completed, whether or not it  *)
(* is paused; one that a stop is still about stays as it is.                  *)
WorkEnds(o) ==
  /\ At(o, "last") \/ (At(o, "execute") /\ job[o].isStopped)
  /\ job' = [job EXCEPT ![o].isRunning = FALSE,
                        ![o].isCompleted = ~job[o].isStopped,
                        ![o].isPaused = @ /\ job[o].isStopped]
  /\ Goes(o, "ending")
  /\ UNCHANGED <<concurrency, lists, inProgress, shuttingDown, snapshot, released, untold>>

(* A job that throws stops itself, and so does a worker that cannot be set up. *)
WorkThrows(o) ==
  /\ At(o, "execute") \/ At(o, "working") \/ At(o, "last")
  /\ TransitionIsFree(o)
  /\ job' = [job EXCEPT ![o].isRunning = FALSE, ![o].isStopped = TRUE, ![o].isPaused = FALSE]
  /\ Goes(o, "ending")
  /\ UNCHANGED <<concurrency, lists, inProgress, shuttingDown, snapshot, released, untold>>

(* A job that a stop has not resumed yet is neither completed nor stopped.    *)
JobFinished(o) ==
  /\ At(o, "ending")
  /\ IF State(o) \in {"Completed", "Stopped"}
     THEN Calls(o, About("finished", o), About("finish", o)) /\ UNCHANGED untold
     ELSE Goes(o, "finished") /\ untold' = untold \cup {o}
  /\ UNCHANGED <<concurrency, lists, inProgress, shuttingDown, snapshot, job, released>>

WorkerEnds(o) ==
  /\ At(o, "finished")
  /\ job' = [job EXCEPT ![o].executionFinished = TRUE]
  /\ Returns(o)
  /\ UNCHANGED <<concurrency, lists, inProgress, shuttingDown, snapshot, released, untold>>

-----------------------------------------------------------------------------
(* Operation::Stop: whoever stops an operation that did not run when the     *)
(* call began tells that it finished, if it has.                             *)

Stopping(o) == Call("stop", o, <<>>, job[o].isRunning)

BeginStop(s, o) ==
  /\ Listed(o) \/ released[o] > 0
  /\ Enters(s, Stopping(o))
  /\ UNCHANGED <<concurrency, lists, inProgress, shuttingDown, snapshot, job, released, untold>>

(* Work that is past its last pause may refuse. *)
Stop(t) ==
  LET o == Top(t).op
  IN  /\ At(t, "stop") /\ TransitionIsFree(o)
      /\ \/ /\ ~job[o].isStopped /\ ~job[o].isCompleted
            /\ job' = [job EXCEPT ![o].isStopped = TRUE]
            /\ Goes(t, "clear")
         \/ /\ job[o].isStopped \/ job[o].isCompleted \/ Inside(o, o, "last")
            /\ Returns(t) /\ UNCHANGED job
      /\ UNCHANGED <<concurrency, lists, inProgress, shuttingDown, snapshot, released, untold>>

(* The second store of the stop. *)
ClearPaused(t) ==
  /\ At(t, "clear")
  /\ job' = [job EXCEPT ![Top(t).op].isPaused = FALSE]
  /\ IF Top(t).flag THEN Returns(t) ELSE Goes(t, "tell")
  /\ UNCHANGED <<concurrency, lists, inProgress, shuttingDown, snapshot, released, untold>>

TellAnyway(t) == \* mutant: a job that was started meanwhile is told to have finished
  /\ At(t, "tell")
  /\ Becomes(t, About("finish", Top(t).op))
  /\ UNCHANGED <<concurrency, lists, inProgress, shuttingDown, snapshot, job, released, untold>>

TellNobody(t) == \* mutant: stopping a cold operation notifies nobody
  /\ At(t, "tell") /\ Returns(t)
  /\ UNCHANGED <<concurrency, lists, inProgress, shuttingDown, snapshot, job, released, untold>>

Tell(t) ==
  /\ At(t, "tell")
  /\ IF State(Top(t).op) \in {"Completed", "Stopped"}
     THEN Becomes(t, About("finish", Top(t).op)) ELSE Returns(t)
  /\ UNCHANGED <<concurrency, lists, inProgress, shuttingDown, snapshot, job, released, untold>>

-----------------------------------------------------------------------------
(* OperationDidFinish and RetryFinalization.                                *)

(* Only the first notification of an operation takes it out of its list.  It *)
(* frees the slot, so the call starts others whatever the finalizer decides. *)
OperationDidFinish(t) ==
  LET o == Top(t).op
  IN  /\ At(t, "finish")
      /\ IF o \in ToSet(finalizing) \/ ~Listed(o) THEN Returns(t) /\ UNCHANGED lists
         ELSE /\ finalizing' = Append(finalizing, o)
              /\ running' = Without(running, o) /\ pending' = Without(pending, o)
              /\ Becomes(t, Call("finalize", o, <<>>, TRUE))
      /\ UNCHANGED <<concurrency, inProgress, shuttingDown, snapshot, job, released, untold>>

Retry(r, o) ==
  /\ o \in ToSet(finalizing)
  /\ Enters(r, About("finalize", o))
  /\ UNCHANGED <<concurrency, lists, inProgress, shuttingDown, snapshot, job, released, untold>>

StartOthers(t) == IF Top(t).flag THEN Becomes(t, StartPending) ELSE Returns(t)

FinalizeTwice(t) == \* mutant: in_progress is not looked at
  LET o == Top(t).op
  IN  /\ At(t, "finalize")
      /\ IF o \notin ToSet(finalizing) THEN Returns(t) /\ UNCHANGED inProgress
         ELSE inProgress' = inProgress \cup {o} /\ Goes(t, "finalizing")
      /\ UNCHANGED <<concurrency, lists, shuttingDown, snapshot, job, released, untold>>

RetryFinalization(t) ==
  LET o == Top(t).op
  IN  /\ At(t, "finalize")
      /\ IF o \notin ToSet(finalizing) THEN Returns(t) /\ UNCHANGED inProgress
         ELSE IF o \in inProgress THEN StartOthers(t) /\ UNCHANGED inProgress
         ELSE inProgress' = inProgress \cup {o} /\ Goes(t, "finalizing")
      /\ UNCHANGED <<concurrency, lists, shuttingDown, snapshot, job, released, untold>>

RetainAndReturn(t) == \* mutant: a retained operation starts no other
  /\ At(t, "finalizing")
  /\ inProgress' = inProgress \ {Top(t).op}
  /\ Returns(t)
  /\ UNCHANGED <<concurrency, lists, shuttingDown, snapshot, job, released, untold>>

Retain(t) ==
  /\ At(t, "finalizing")
  /\ inProgress' = inProgress \ {Top(t).op}
  /\ StartOthers(t)
  /\ UNCHANGED <<concurrency, lists, shuttingDown, snapshot, job, released, untold>>

Release(t) ==
  LET o == Top(t).op
  IN  /\ At(t, "finalizing")
      /\ inProgress' = inProgress \ {o}
      /\ finalizing' = Without(finalizing, o)
      /\ released' = [released EXCEPT ![o] = @ + 1]
      /\ Becomes(t, StartPending)
      /\ UNCHANGED <<concurrency, pending, running, shuttingDown, snapshot, job, untold>>

-----------------------------------------------------------------------------
(* StopAndWaitForShutdown.                                                  *)

BeginShutdownOfTheRunning(c) == \* mutant: what waits in the queue is forgotten
  /\ shuttingDown' = TRUE
  /\ snapshot' = running \o finalizing
  /\ Enters(c, Call("gate", NoOp, snapshot', FALSE))
  /\ UNCHANGED <<concurrency, lists, inProgress, job, released, untold>>

BeginShutdown(c) ==
  /\ shuttingDown' = TRUE
  /\ snapshot' = running \o pending \o finalizing
  /\ Enters(c, Call("gate", NoOp, snapshot', FALSE))
  /\ UNCHANGED <<concurrency, lists, inProgress, job, released, untold>>

PassGateAtOnce(c) == \* mutant: a start that was already admitted is not waited for
  /\ At(c, "gate")
  /\ Goes(c, "close")
  /\ UNCHANGED <<concurrency, lists, inProgress, shuttingDown, snapshot, job, released, untold>>

(* Starts admitted before the flag was set are over. *)
PassGate(c) ==
  /\ At(c, "gate") /\ GateIsFree(c)
  /\ Goes(c, "close")
  /\ UNCHANGED <<concurrency, lists, inProgress, shuttingDown, snapshot, job, released, untold>>

StopNext(c) ==
  /\ At(c, "close") /\ Top(c).todo # <<>>
  /\ Calls(c, [Top(c) EXCEPT !.todo = Tail(@)], Stopping(First(c)))
  /\ UNCHANGED <<concurrency, lists, inProgress, shuttingDown, snapshot, job, released, untold>>

(* Operation::Wait on each: a start being recorded keeps its mutex. *)
WaitReturns(o) ==
  /\ ~job[o].wasStarted \/ job[o].executionFinished
  /\ \A t \in Threads : ~(At(t, "record") /\ First(t) = o)

WaitForAll(c) ==
  /\ At(c, "close") /\ Top(c).todo = <<>>
  /\ \A o \in ToSet(snapshot) : WaitReturns(o)
  /\ Goes(c, "down")
  /\ UNCHANGED <<concurrency, lists, inProgress, shuttingDown, snapshot, job, released, untold>>

-----------------------------------------------------------------------------
(* What a thread goes on with once it is in the pool. *)
Step(t) ==
  /\ ~Idle(t)
  /\ \/ Gather(t) \/ EnterGate(t) \/ BeginStart(t) \/ RecordStart(t)
     \/ Launch(t) \/ LaunchFails(t) \/ LaunchFailed(t)
     \/ Stop(t) \/ ClearPaused(t) \/ Tell(t)
     \/ OperationDidFinish(t) \/ RetryFinalization(t) \/ Retain(t) \/ Release(t)

Work(o)     == Execute(o) \/ BlockIfPaused(o) \/ WorkEnds(o) \/ WorkThrows(o) \/ JobFinished(o) \/ WorkerEnds(o)
Shutdown(c) == PassGate(c) \/ StopNext(c) \/ WaitForAll(c)

Next ==
  \/ \E n \in Limits : SetConcurrency(n)
  \/ \E t \in Threads : Step(t)
  \/ \E o \in Ops : Work(o) \/ Pause(o) \/ Resume(o)
  \/ \E c \in Closers : BeginShutdown(c) \/ Shutdown(c)
  \/ \E o \in Ops : \/ \E t \in Enqueuers : TryEnqueue(t, o)
                    \/ \E s \in Stoppers : BeginStop(s, o)
                    \/ \E r \in Retriers : Retry(r, o)

(* Threads are scheduled, operations that run end and finalizers return.     *)
(* Nobody has to enqueue, pause, resume, stop, retry or shut down.           *)
Fairness ==
  /\ \A t \in Threads : WF_vars(Step(t))
  /\ \A o \in Ops     : WF_vars(Work(o))
  /\ \A c \in Closers : WF_vars(Shutdown(c))

Spec     == Init /\ [][Next]_vars
FairSpec == Spec /\ Fairness

-----------------------------------------------------------------------------
Steps == {"gather", "start", "finish", "finalize", "finalizing", "stop", "clear", "tell",
          "execute", "working", "last", "ending", "finished",
          "gate", "close", "down"} \cup GateSteps

(* The ranges of the state. *)
TypeOK ==
  /\ concurrency \in Concurrencies
  /\ {pending, running, finalizing, snapshot} \subseteq Seq(Ops)
  /\ inProgress \subseteq Ops
  /\ shuttingDown \in BOOLEAN
  /\ job \in [Ops -> [wasStarted : BOOLEAN, isRunning : BOOLEAN, isPaused : BOOLEAN,
                      isStopped : BOOLEAN, isCompleted : BOOLEAN, executionFinished : BOOLEAN]]
  /\ stack \in [Threads -> Seq([step : Steps, op : Ops \cup {NoOp}, todo : Seq(Ops), flag : BOOLEAN])]
  /\ released \in [Ops -> Nat]
  /\ untold \subseteq Ops

Occurs(o, list) == Cardinality({i \in DOMAIN list : list[i] = o})

(* An operation is in the pool once: it is pending, running or finalizing,    *)
(* however many threads enqueue it and report its end.                        *)
InOneListOnly == \A o \in Ops : Occurs(o, pending \o running \o finalizing) <= 1

(* The terminal finalizer, which journals the outcome, never runs twice at    *)
(* the same time for one operation, nor again once it has released it.        *)
FinalizersRunAlone ==
  \A o \in Ops :
    LET inside == {t \in Threads : Inside(t, o, "finalizing")}
    IN  Cardinality(inside) + released[o] <= 1

(* However often the concurrency is changed and whoever jumps the queue, an   *)
(* operation that queues joins the running ones only if all of them together  *)
(* stay within the concurrency in force.                                      *)
ConcurrencyIsKept ==
  [][\A o \in ToSet(running') \ (ToSet(running) \cup Impatient) : Len(running') <= concurrency]_vars

OnItsWay(t) == \E i \in DOMAIN stack[t] :
                 \/ stack[t][i].step = "gather"
                 \/ stack[t][i].step \in {"finalize", "finalizing"} /\ stack[t][i].flag

(* No wake-up is lost: an operation waits although a slot is free at every    *)
(* concurrency that may be set only while some thread is on its way to start  *)
(* it.  (A raised concurrency makes room that nobody looks for until the next *)
(* operation is enqueued or ends; some operation runs meanwhile.)             *)
NobodyWaitsForAFreeSlot ==
  pending # <<>> /\ ~shuttingDown /\ (\A n \in Concurrencies : Len(running) < n)
    => \E t \in Threads : OnItsWay(t)

WillStart(t, o) == \E i \in DOMAIN stack[t] :
                     stack[t][i].step \notin {"gate", "close"} /\ o \in ToSet(stack[t][i].todo)

(* Someone is about to report that an operation that is over has ended. *)
WillTell(t, o) == \E i \in DOMAIN stack[t] :
                    /\ stack[t][i].op = o
                    /\ \/ stack[t][i].step \in {"tell", "ending", "finish"}
                       \/ stack[t][i].step = "clear" /\ ~stack[t][i].flag

Performing(o) == Inside(o, o, "working") \/ Inside(o, o, "last")

(* No slot is leaked: an operation listed as running runs, or someone is      *)
(* about to start it, or someone is about to report its end; except for one   *)
(* that was stopped and whose worker told nobody.                             *)
SlotsAreLive ==
  /\ \A o \in ToSet(running) \ untold :
       IF job[o].isRunning
       THEN Performing(o) \/ \E t \in Threads : Inside(t, o, "execute") \/ (At(t, "launch") /\ First(t) = o)
       ELSE IF job[o].isStopped \/ job[o].isCompleted
       THEN \E t \in Threads : WillTell(t, o)
       ELSE shuttingDown \/ \E t \in Threads : WillStart(t, o)
  /\ \A o \in untold : job[o].isStopped /\ ~job[o].isCompleted

(* The outcome is settled before the finalizer journals it: an operation the  *)
(* pool finalizes or has released is not performing and never will, even if   *)
(* it was stopped in the middle of its start.                                 *)
FinalizedMeansOver ==
  \A o \in Ops : released[o] > 0 \/ o \in ToSet(finalizing) =>
    (job[o].isStopped \/ job[o].isCompleted) /\ ~Performing(o)

(* Once a shutdown returns, no operation performs and none that was accepted  *)
(* ever will, those the pool still holds have left their workers, and no      *)
(* thread is starting one.                                                    *)
ShutdownIsQuiet ==
  (\E c \in Closers : At(c, "down")) =>
    /\ \A o \in Ops : /\ ~Performing(o)
                      /\ Listed(o) => (job[o].isStopped \/ job[o].isCompleted) /\ WaitReturns(o)
    /\ \A t \in Threads : ~HoldsGate(t)

(* Every accepted operation reaches its finalizer unless it stays paused for  *)
(* ever or some worker told nobody.                                           *)
EveryOperationIsFinalized ==
  <>[](\A o \in Ops : ~job[o].isPaused) =>
    \A o \in Ops : o \in ToSet(pending) \cup ToSet(running)
                    ~> o \notin ToSet(pending) \cup ToSet(running) \/ untold # {}

(* A shutdown returns, whatever the threads of the pool are doing. *)
ShutdownReturns == \A c \in Closers : At(c, "gate") ~> At(c, "down")
=============================================================================
