------------------------------ MODULE PoolProofs ------------------------------
(***************************************************************************)
(* Theorems about Pool, for any operations, policy, concurrencies and      *)
(* threads: an operation is in the pool once, its finalizer never overlaps *)
(* itself nor runs after the release, no slot is leaked and no wake-up     *)
(* lost, what is finalized is over, and a shutdown leaves nothing at work. *)
(*                                                                         *)
(* A stack is seen as the set of its calls: only "finished", "failed" and  *)
(* "close" call another call, and only the top of a stack goes on.         *)
(***************************************************************************)
EXTENDS Pool, FiniteSetTheorems, SequenceTheorems, TLAPS

CallRecords == [step : Steps, op : Ops \cup {NoOp}, todo : Seq(Ops), flag : BOOLEAN]

CallsOf(t)  == ToSet(stack[t])

-----------------------------------------------------------------------------
(* The inductive invariant.                                                   *)

Types ==
  /\ concurrency \in Concurrencies
  /\ pending \in Seq(Ops) /\ running \in Seq(Ops) /\ finalizing \in Seq(Ops) /\ snapshot \in Seq(Ops)
  /\ inProgress \subseteq Ops
  /\ shuttingDown \in BOOLEAN
  /\ job \in [Ops -> [wasStarted : BOOLEAN, isRunning : BOOLEAN, isPaused : BOOLEAN,
                      isStopped : BOOLEAN, isCompleted : BOOLEAN, executionFinished : BOOLEAN]]
  /\ stack \in [Threads -> Seq(CallRecords)]
  /\ released \in [Ops -> Nat]
  /\ untold \subseteq Ops

(* The lists hold an operation once, all together. *)
Apart(l, m) == ToSet(l) \cap ToSet(m) = {}

Lists ==
  /\ IsInjective(pending) /\ IsInjective(running) /\ IsInjective(finalizing)
  /\ Apart(pending, running) /\ Apart(pending, finalizing) /\ Apart(running, finalizing)

(* What calls another call, and what a thread begins with. *)
Callers  == {"finished", "failed", "close"}
Bottoms  == {"execute", "working", "last", "ending", "finished", "gate", "close", "down"}
Workings == {"execute", "working", "last", "ending", "finished"}
Launches == {"start"} \cup GateSteps

Shaped(s) == \A i \in DOMAIN s : /\ s[i].step \in Bottoms => i = Len(s)
                                 /\ i # 1 => s[i].step \in Callers

Stacks == \A t \in Threads : Shaped(stack[t])

Gate == \A t, u \in Threads : HoldsGate(t) /\ HoldsGate(u) => t = u

Cold(o)     == ~job[o].isRunning /\ ~job[o].isStopped /\ ~job[o].isCompleted
Over(o)     == job[o].isStopped \/ job[o].isCompleted
Started(o)  == job[o].isRunning \/ Over(o)
Ended(o)    == job[o].wasStarted /\ ~job[o].isRunning /\ Over(o)
Stopped(o)  == job[o].isStopped
Resumed(o)  == job[o].isStopped /\ ~job[o].isPaused
Working(o)  == \E c \in CallsOf(o) : c.step \in {"working", "last"}
Settled(o)  == Over(o) /\ (job[o].isRunning => job[o].isStopped /\ ~Working(o))
Active(o)   == o \in ToSet(pending) \cup ToSet(running)
Gone(o)     == o \in ToSet(finalizing) \/ released[o] > 0
Admitted(o) == o \in ToSet(running) \/ Gone(o)

(* What holds of a job. *)
JobOK(o) ==
  /\ job[o].isRunning \/ job[o].isCompleted => job[o].wasStarted
  /\ job[o].wasStarted => Started(o) /\ Admitted(o)
  /\ ~job[o].wasStarted \/ job[o].executionFinished => Idle(o)
  /\ job[o].executionFinished => job[o].wasStarted /\ ~job[o].isRunning
  /\ Gone(o) => Settled(o)
  /\ job[o].isCompleted => ~job[o].isRunning /\ ~job[o].isPaused /\ ~job[o].isStopped
  /\ o \in untold => Stopped(o)

Jobs == \A o \in Ops : JobOK(o)

(* What holds of a call from the moment a thread is in it on: no step takes it *)
(* away.                                                                      *)
Tellings == {"finish", "finalize", "finalizing"}

Lasting(t, c) ==
  /\ c.step \in Tellings => c.op \in Ops /\ Settled(c.op)
  /\ c.step \in {"clear", "tell"} => c.op \in Ops /\ Stopped(c.op)
  /\ c.step = "tell" => Resumed(c.op)
  /\ c.step = "stop" => c.op \in Ops /\ (c.flag => Started(c.op))
  /\ c.step \in Launches => \A o \in ToSet(c.todo) : Admitted(o)
  /\ c.step \in GateSteps => c.todo # <<>>
  /\ c.step = "failed" => Ended(Head(c.todo)) /\ Idle(Head(c.todo))
  /\ c.step \in {"gate", "close", "down"} => shuttingDown
  /\ c.step \in Workings => t \in Ops /\ c.op = t
  /\ c.step \in {"ending", "finished"} => Ended(t)

(* What holds until the call goes on: it is what keeps the others off.        *)
Passing(t, c) ==
  /\ c.step = "finalizing" => c.op \in inProgress
  /\ c.step = "record" => ~job[Head(c.todo)].wasStarted
  /\ c.step = "launch" => job[Head(c.todo)].isRunning /\ Idle(Head(c.todo))
  /\ c.step \in {"execute", "working", "last"} => job[t].isRunning

Calling == \A t \in Threads : \A c \in CallsOf(t) : Lasting(t, c) /\ Passing(t, c)

(* One thread finalizes an operation, and it is released once.                *)
Alone ==
  \A t, u \in Threads : \A c \in CallsOf(t), d \in CallsOf(u) :
    c.step = "finalizing" /\ d.step = "finalizing" /\ c.op = d.op => t = u

Releases ==
  /\ inProgress \subseteq ToSet(finalizing)
  /\ \A o \in Ops : released[o] <= 1 /\ (released[o] = 1 => ~Listed(o))

(* Somebody has what is listed in hand: runs it or is about to, is telling    *)
(* that it ended, is starting it.                                             *)
PerformedBy(t, calls, o) == \E c \in calls : \/ o = t /\ c.step \in {"execute", "working", "last"}
                                             \/ c.step = "launch" /\ Head(c.todo) = o
Tells(c)             == c.step \in {"tell", "ending", "finish"} \/ (c.step = "clear" /\ ~c.flag)
ToldBy(calls, o)     == \E c \in calls : Tells(c) /\ c.op = o
StartedBy(calls, o)  == \E c \in calls : c.step \in Launches /\ o \in ToSet(c.todo)

Performed(o) == \E t \in Threads : PerformedBy(t, CallsOf(t), o)
Told(o)      == \E t \in Threads : ToldBy(CallsOf(t), o)
Starting(o)  == \E t \in Threads : StartedBy(CallsOf(t), o)

Finished(o)  == Active(o) /\ o \notin untold /\ Over(o) /\ ~job[o].isRunning
Awaited(o)   == o \in ToSet(running) /\ Cold(o) /\ ~shuttingDown

InHand(o) ==
  /\ job[o].isRunning => Performed(o)
  /\ Finished(o) => Told(o)
  /\ Awaited(o) => Starting(o)

Live == \A o \in Ops : InHand(o)

(* Nobody is on the way to start what could run.                              *)
Starved == pending # <<>> /\ ~shuttingDown /\ \A n \in Concurrencies : Len(running) < n
Looks(c)       == \/ c.step = "gather"
                  \/ c.step \in {"finalize", "finalizing"} /\ c.flag /\ c.op \in ToSet(finalizing)
LooksBy(calls) == \E c \in calls : Looks(c)
Wakeful == Starved => \E t \in Threads : LooksBy(CallsOf(t))

(* What a shutdown has behind it. *)
StoppedBy(calls, o) == \E d \in calls : d.step = "stop" /\ d.op = o

ShutdownOK(t, c) ==
  /\ c.step \in {"close", "down"} => \A u \in Threads : ~HoldsGate(u)
  /\ c.step \in {"gate", "close"} =>
       \A o \in Ops : Listed(o) /\ Cold(o) => o \in ToSet(c.todo) \/ StoppedBy(CallsOf(t), o)
  /\ c.step = "down" => /\ \A o \in Ops : ~(Listed(o) /\ Cold(o))
                        /\ \A o \in ToSet(snapshot) : job[o].wasStarted => job[o].executionFinished

Shutdowns ==
  /\ shuttingDown => \A o \in Ops : Listed(o) => o \in ToSet(snapshot)
  /\ \A t \in Threads : \A c \in CallsOf(t) : ShutdownOK(t, c)

IInv ==
  /\ Types /\ Lists /\ Stacks /\ Gate /\ Jobs /\ Calling
  /\ Alone /\ Releases /\ Live /\ Wakeful /\ Shutdowns

-----------------------------------------------------------------------------
(* Lists of operations.                                                       *)

(* The numbers of a finite set can be counted in their order: a smallest set  *)
(* that could not be, without its smallest number, could not be either.       *)
Countable(S) == \E f \in [1 .. Cardinality(S) -> S] : \A i, j \in DOMAIN f : i < j => f[i] < f[j]

LEMMA SmallestNumber ==
  ASSUME NEW S \in SUBSET Nat, S # {}
  PROVE  \E m \in S : \A n \in S : m <= n
<1>1. \E m \in S : \A n \in S : <<n, m>> \notin OpToRel(<, Nat)
  BY WFMin, NatLessThanWellFounded
<1>2. PICK m \in S : \A n \in S : <<n, m>> \notin OpToRel(<, Nat)
  BY <1>1
<1>3. \A n \in S : ~(n < m)
  BY <1>2 DEF OpToRel
<1>4. QED
  BY <1>3

LEMMA FiniteSetsAreCountable ==
  ASSUME NEW S \in SUBSET Nat, IsFiniteSet(S)
  PROVE  Countable(S)
<1> DEFINE Bad == {n \in Nat : \E T \in SUBSET Nat : IsFiniteSet(T) /\ Cardinality(T) = n /\ ~Countable(T)}
<1>1. SUFFICES ASSUME Bad # {} PROVE FALSE
  <2>1. Cardinality(S) \in Nat
    BY FS_CardinalityType
  <2>2. Cardinality(S) \notin Bad
    BY <1>1
  <2>3. QED
    BY <2>1, <2>2
<1>2. PICK n \in Bad : \A k \in Bad : n <= k
  BY <1>1, SmallestNumber
<1>3. PICK T \in SUBSET Nat : IsFiniteSet(T) /\ Cardinality(T) = n /\ ~Countable(T)
  BY <1>2
<1>4. n \in Nat
  BY <1>2
<1>5. CASE n = 0
  <2> DEFINE f == [i \in 1 .. n |-> 0]
  <2>1. f \in [1 .. n -> T] /\ \A i, j \in DOMAIN f : i < j => f[i] < f[j]
    <3>1. 1 .. n = {}
      BY <1>5
    <3>2. QED
      BY <3>1
  <2>2. QED
    BY <1>3, <2>1 DEF Countable
<1>6. CASE n # 0
  <2>1. T # {}
    BY <1>3, <1>6, FS_EmptySet
  <2>2. PICK m \in T : \A k \in T : m <= k
    BY <2>1, SmallestNumber
  <2> DEFINE U == T \ {m}
  <2>3. IsFiniteSet(U) /\ Cardinality(U) = n - 1 /\ U \in SUBSET Nat
    BY <1>3, FS_RemoveElement
  <2>4. Countable(U)
    <3>1. n - 1 \in Nat /\ n - 1 \notin Bad
      BY <1>2, <1>4, <1>6
    <3>2. QED
      BY <2>3, <3>1
  <2>5. PICK g \in [1 .. n - 1 -> U] : \A i, j \in DOMAIN g : i < j => g[i] < g[j]
    BY <2>3, <2>4 DEF Countable
  <2> DEFINE f == [i \in 1 .. n |-> IF i = 1 THEN m ELSE g[i - 1]]
  <2>6. ASSUME NEW i \in 1 .. n, i # 1 PROVE i - 1 \in 1 .. n - 1 /\ f[i] = g[i - 1] /\ f[i] \in U
    BY <2>5, <2>6, <1>4
  <2>7. f \in [1 .. n -> T]
    BY <2>6
  <2>8. ASSUME NEW i \in 1 .. n, NEW j \in 1 .. n, i < j PROVE f[i] < f[j]
    <3>1. j # 1 /\ f[j] = g[j - 1] /\ f[j] \in U /\ j - 1 \in 1 .. n - 1
      BY <2>6, <2>8
    <3>2. CASE i = 1
      <4>1. f[i] = m /\ m \in Nat /\ f[j] \in Nat /\ m <= f[j] /\ f[j] # m
        BY <3>1, <3>2, <2>2, <2>3
      <4>2. QED
        BY <4>1
    <3>3. CASE i # 1
      <4>1. f[i] = g[i - 1] /\ i - 1 \in 1 .. n - 1 /\ i - 1 < j - 1
        BY <2>6, <2>8, <3>3
      <4>2. QED
        BY <3>1, <4>1, <2>5
    <3>4. QED
      BY <3>2, <3>3
  <2>9. QED
    BY <1>3, <2>7, <2>8 DEF Countable
<1>7. QED
  BY <1>5, <1>6

(* What Only selects, however long the list: what the list has of the set,   *)
(* none of it twice if the list has nothing twice.                            *)
LEMMA OnlyThat ==
  ASSUME NEW S, NEW l \in Seq(S), NEW X
  PROVE  /\ Only(l, X) \in Seq(S)
         /\ ToSet(Only(l, X)) = ToSet(l) \cap X
         /\ IsInjective(l) => IsInjective(Only(l, X))
<1> DEFINE at == {i \in DOMAIN l : l[i] \in X}
           n == Cardinality(at)
           nth == CHOOSE f \in [1 .. n -> at] : \A i, j \in DOMAIN f : i < j => f[i] < f[j]
<1>1. DOMAIN l = 1 .. Len(l) /\ Len(l) \in Nat /\ \A i \in DOMAIN l : l[i] \in S
  OBVIOUS
<1>2. at \in SUBSET Nat /\ IsFiniteSet(at)
  <2>1. IsFiniteSet(DOMAIN l)
    BY <1>1, FS_Interval
  <2>2. at \in SUBSET DOMAIN l
    OBVIOUS
  <2>3. IsFiniteSet(at)
    BY <2>1, <2>2, FS_Subset
  <2>4. QED
    BY <1>1, <2>2, <2>3
<1>3. n \in Nat
  BY <1>2, FS_CardinalityType
<1>4. nth \in [1 .. n -> at] /\ \A i, j \in DOMAIN nth : i < j => nth[i] < nth[j]
  BY <1>2, FiniteSetsAreCountable DEF Countable
<1>5. Only(l, X) = [i \in 1 .. n |-> l[nth[i]]]
  BY DEF Only
<1> HIDE DEF nth
<1>6. \A i, j \in 1 .. n : nth[i] = nth[j] => i = j
  <2> SUFFICES ASSUME NEW i \in 1 .. n, NEW j \in 1 .. n, nth[i] = nth[j] PROVE i = j
    OBVIOUS
  <2>1. nth[i] \in Nat /\ nth[j] \in Nat /\ DOMAIN nth = 1 .. n
    BY <1>2, <1>4
  <2>2. ~(nth[i] < nth[j]) /\ ~(nth[j] < nth[i])
    BY <2>1
  <2>3. ~(i < j) /\ ~(j < i)
    BY <1>4, <2>1, <2>2
  <2>4. QED
    BY <2>3, <1>3
<1>7. \A k \in at : \E i \in 1 .. n : nth[i] = k
  <2>1. nth \in Injection(1 .. n, at)
    BY <1>4, <1>6 DEF Injection, IsInjective
  <2>2. IsFiniteSet(1 .. n) /\ Cardinality(1 .. n) = n
    BY <1>3, FS_Interval
  <2>3. nth \in Surjection(1 .. n, at)
    BY <1>2, <2>1, <2>2, FS_Injection
  <2>4. QED
    BY <2>3 DEF Surjection
<1> DEFINE r == Only(l, X)
<1>8. DOMAIN r = 1 .. n /\ \A i \in 1 .. n : r[i] = l[nth[i]] /\ nth[i] \in at
  BY <1>4, <1>5
<1> HIDE DEF at, n, r
<1>9. r \in Seq(S)
  <2>1. \A i \in 1 .. n : l[nth[i]] \in S
    BY <1>1, <1>8 DEF at
  <2>2. QED
    BY <2>1, <1>3, <1>5 DEF r
<1>10. ToSet(r) = ToSet(l) \cap X
  <2>1. ASSUME NEW x \in ToSet(r) PROVE x \in ToSet(l) \cap X
    BY <1>8, <2>1 DEF ToSet, at
  <2>2. ASSUME NEW x \in ToSet(l) \cap X PROVE x \in ToSet(r)
    <3>1. PICK k \in DOMAIN l : l[k] = x
      BY DEF ToSet
    <3>2. k \in at
      BY <3>1 DEF at
    <3>3. PICK i \in 1 .. n : nth[i] = k
      BY <3>2, <1>7
    <3>4. QED
      BY <3>1, <3>3, <1>8 DEF ToSet
  <2>3. QED
    BY <2>1, <2>2
<1>11. IsInjective(l) => IsInjective(r)
  BY <1>6, <1>8 DEF IsInjective, at
<1>12. QED
  BY <1>9, <1>10, <1>11 DEF r

LEMMA Appended ==
  ASSUME NEW S, NEW l \in Seq(S), NEW x \in S
  PROVE  /\ Append(l, x) \in Seq(S) /\ Append(l, x) # <<>>
         /\ ToSet(Append(l, x)) = ToSet(l) \cup {x}
         /\ IsInjective(l) /\ x \notin ToSet(l) => IsInjective(Append(l, x))
<1> DEFINE m == Append(l, x)
<1>1. /\ m \in Seq(S) /\ m # <<>> /\ Len(l) \in Nat
      /\ DOMAIN l = 1 .. Len(l) /\ DOMAIN m = 1 .. Len(l) + 1
      /\ \A i \in 1 .. Len(l) : m[i] = l[i]
      /\ m[Len(l) + 1] = x
  OBVIOUS
<1> HIDE DEF m
<1>2. ToSet(m) = ToSet(l) \cup {x}
  <2>1. \A i \in DOMAIN m : i \in DOMAIN l \/ i = Len(l) + 1
    BY <1>1
  <2>2. \A i \in DOMAIN l : i \in DOMAIN m /\ l[i] = m[i]
    BY <1>1
  <2>3. Len(l) + 1 \in DOMAIN m
    BY <1>1
  <2>4. QED
    BY <1>1, <2>1, <2>2, <2>3 DEF ToSet
<1>3. ASSUME IsInjective(l), x \notin ToSet(l) PROVE IsInjective(m)
  <2> SUFFICES ASSUME NEW i \in DOMAIN m, NEW j \in DOMAIN m, m[i] = m[j] PROVE i = j
    BY DEF IsInjective
  <2>1. \A k \in 1 .. Len(l) : m[k] # x
    BY <1>1, <1>3 DEF ToSet
  <2>2. QED
    BY <1>1, <1>3, <2>1 DEF IsInjective
<1>4. QED
  BY <1>1, <1>2, <1>3 DEF m

LEMMA Joined ==
  ASSUME NEW S, NEW l \in Seq(S), NEW m \in Seq(S)
  PROVE  /\ l \o m \in Seq(S) /\ Len(l \o m) = Len(l) + Len(m)
         /\ ToSet(l \o m) = ToSet(l) \cup ToSet(m)
         /\ IsInjective(l) /\ IsInjective(m) /\ Apart(l, m) => IsInjective(l \o m)
<1> DEFINE k == l \o m
<1>1. /\ k \in Seq(S) /\ Len(k) = Len(l) + Len(m) /\ Len(l) \in Nat /\ Len(m) \in Nat
      /\ DOMAIN l = 1 .. Len(l) /\ DOMAIN m = 1 .. Len(m) /\ DOMAIN k = 1 .. Len(l) + Len(m)
      /\ \A i \in 1 .. Len(l) : k[i] = l[i]
      /\ \A i \in 1 .. Len(l) + Len(m) : i > Len(l) => k[i] = m[i - Len(l)]
  OBVIOUS
<1> HIDE DEF k
<1>2. \A i \in DOMAIN k : (i \in DOMAIN l /\ k[i] = l[i]) \/ (i - Len(l) \in DOMAIN m /\ k[i] = m[i - Len(l)])
  BY <1>1
<1>3. ToSet(k) = ToSet(l) \cup ToSet(m)
  <2>1. \A i \in DOMAIN l : i \in DOMAIN k /\ k[i] = l[i]
    BY <1>1
  <2>2. \A i \in DOMAIN m : i + Len(l) \in DOMAIN k /\ k[i + Len(l)] = m[i]
    BY <1>1
  <2>3. QED
    BY <1>2, <2>1, <2>2 DEF ToSet
<1>4. ASSUME IsInjective(l), IsInjective(m), Apart(l, m) PROVE IsInjective(k)
  <2> SUFFICES ASSUME NEW i \in DOMAIN k, NEW j \in DOMAIN k, k[i] = k[j] PROVE i = j
    BY DEF IsInjective
  <2>1. CASE i \in DOMAIN l /\ j \in DOMAIN l
    BY <1>1, <1>4, <2>1 DEF IsInjective
  <2>2. CASE i \notin DOMAIN l /\ j \notin DOMAIN l
    <3>1. i - Len(l) \in DOMAIN m /\ j - Len(l) \in DOMAIN m /\ m[i - Len(l)] = m[j - Len(l)]
      BY <1>2, <2>2
    <3>2. i - Len(l) = j - Len(l)
      BY <3>1, <1>4 DEF IsInjective
    <3>3. QED
      BY <3>2, <1>1
  <2>3. ASSUME NEW a \in DOMAIN l, NEW b \in DOMAIN m PROVE l[a] # m[b]
    BY <1>4 DEF Apart, ToSet
  <2>4. QED
    BY <1>2, <2>1, <2>2, <2>3
<1>5. QED
  BY <1>1, <1>3, <1>4 DEF k

LEMMA Parted ==
  ASSUME NEW S, NEW l \in Seq(S), NEW n \in 0 .. Len(l)
  PROVE  LET first == SubSeq(l, 1, n)
             rest  == SubSeq(l, n + 1, Len(l))
         IN  /\ first \in Seq(S) /\ rest \in Seq(S)
             /\ Len(first) = n /\ Len(rest) = Len(l) - n
             /\ ToSet(first) \cup ToSet(rest) = ToSet(l)
             /\ IsInjective(l) => IsInjective(first) /\ IsInjective(rest) /\ Apart(first, rest)
<1> DEFINE first == SubSeq(l, 1, n)
           rest  == SubSeq(l, n + 1, Len(l))
<1>1. /\ first \in Seq(S) /\ Len(first) = n /\ DOMAIN first = 1 .. n
      /\ \A i \in 1 .. n : first[i] = l[i]
  OBVIOUS
<1>2. /\ rest \in Seq(S) /\ Len(rest) = Len(l) - n /\ DOMAIN rest = 1 .. Len(l) - n
      /\ \A i \in 1 .. Len(l) - n : rest[i] = l[i + n]
  OBVIOUS
<1>3. DOMAIN l = 1 .. Len(l) /\ Len(l) \in Nat
  OBVIOUS
<1> HIDE DEF first, rest
<1>4. ToSet(first) \cup ToSet(rest) = ToSet(l)
  <2>1. \A i \in DOMAIN first : i \in DOMAIN l /\ first[i] = l[i]
    BY <1>1, <1>3
  <2>2. \A i \in DOMAIN rest : i + n \in DOMAIN l /\ rest[i] = l[i + n]
    BY <1>2, <1>3
  <2>3. \A i \in DOMAIN l : (i \in DOMAIN first) \/ (i - n \in DOMAIN rest /\ rest[i - n] = l[i])
    BY <1>1, <1>2, <1>3
  <2>4. QED
    BY <2>1, <2>2, <2>3 DEF ToSet
<1>5. ASSUME IsInjective(l) PROVE IsInjective(first) /\ IsInjective(rest) /\ Apart(first, rest)
  <2>1. IsInjective(first)
    <3>1. \A i \in DOMAIN first : i \in DOMAIN l /\ first[i] = l[i]
      BY <1>1, <1>3
    <3>2. QED
      BY <3>1, <1>5 DEF IsInjective
  <2>2. IsInjective(rest)
    <3> SUFFICES ASSUME NEW i \in DOMAIN rest, NEW j \in DOMAIN rest, rest[i] = rest[j] PROVE i = j
      BY DEF IsInjective
    <3>1. i + n \in DOMAIN l /\ j + n \in DOMAIN l /\ l[i + n] = l[j + n]
      BY <1>2, <1>3
    <3>2. i + n = j + n
      BY <3>1, <1>5 DEF IsInjective
    <3>3. QED
      BY <3>2, <1>2
  <2>3. ASSUME NEW i \in DOMAIN first, NEW j \in DOMAIN rest PROVE first[i] # rest[j]
    <3>1. i \in DOMAIN l /\ j + n \in DOMAIN l /\ i # j + n /\ first[i] = l[i] /\ rest[j] = l[j + n]
      BY <1>1, <1>2, <1>3
    <3>2. QED
      BY <3>1, <1>5 DEF IsInjective
  <2>4. QED
    BY <2>1, <2>2, <2>3 DEF Apart, ToSet
<1>6. QED
  BY <1>1, <1>2, <1>4, <1>5 DEF first, rest

LEMMA HeadAndTail ==
  ASSUME NEW S, NEW l \in Seq(S), l # <<>>
  PROVE  /\ Head(l) \in S /\ Tail(l) \in Seq(S)
         /\ ToSet(l) = {Head(l)} \cup ToSet(Tail(l))
<1>1. /\ Tail(l) \in Seq(S) /\ Len(l) \in Nat \ {0}
      /\ \A i \in 1 .. Len(l) - 1 : Tail(l)[i] = l[i + 1]
      /\ DOMAIN l = 1 .. Len(l) /\ DOMAIN Tail(l) = 1 .. Len(l) - 1
      /\ Head(l) = l[1] /\ Head(l) \in S
  OBVIOUS
<1>2. \A i \in DOMAIN l : i = 1 \/ (i - 1 \in DOMAIN Tail(l) /\ l[i] = Tail(l)[i - 1])
  BY <1>1
<1>3. 1 \in DOMAIN l /\ \A i \in DOMAIN Tail(l) : i + 1 \in DOMAIN l /\ l[i + 1] = Tail(l)[i]
  BY <1>1
<1>4. ToSet(Tail(l)) \subseteq ToSet(l) /\ Head(l) \in ToSet(l)
  BY <1>1, <1>3 DEF ToSet
<1>5. ASSUME NEW x \in ToSet(l), x # Head(l) PROVE x \in ToSet(Tail(l))
  <2>1. PICK i \in DOMAIN l : l[i] = x
    BY DEF ToSet
  <2>2. i - 1 \in DOMAIN Tail(l) /\ l[i] = Tail(l)[i - 1]
    BY <1>1, <1>2, <1>5, <2>1
  <2>3. QED
    BY <2>1, <2>2 DEF ToSet
<1>6. QED
  BY <1>1, <1>4, <1>5

LEMMA NothingListed ==
  ToSet(<<>>) = {}
BY DEF ToSet

(* A list with one more in front. *)
Onto(c, q) == <<c>> \o q

LEMMA Pushed ==
  ASSUME NEW S, NEW q \in Seq(S), NEW c \in S
  PROVE  /\ Onto(c, q) \in Seq(S) /\ Onto(c, q) # <<>> /\ Head(Onto(c, q)) = c /\ Tail(Onto(c, q)) = q
         /\ Len(Onto(c, q)) = Len(q) + 1 /\ Onto(c, q)[1] = c
         /\ \A i \in 1 .. Len(q) : Onto(c, q)[i + 1] = q[i]
         /\ ToSet(Onto(c, q)) = {c} \cup ToSet(q)
<1>1. <<c>> \in Seq(S) /\ Len(<<c>>) = 1 /\ <<c>>[1] = c
  OBVIOUS
<1>2. /\ <<c>> \o q \in Seq(S) /\ Len(<<c>> \o q) = Len(<<c>>) + Len(q)
      /\ ToSet(<<c>> \o q) = ToSet(<<c>>) \cup ToSet(q)
  <2>1. PICK one \in Seq(S) : one = <<c>>
    BY <1>1
  <2>2. /\ one \o q \in Seq(S) /\ Len(one \o q) = Len(one) + Len(q)
        /\ ToSet(one \o q) = ToSet(one) \cup ToSet(q)
    BY Joined
  <2>3. QED
    BY <2>1, <2>2
<1>3. ToSet(<<c>>) = {c}
  BY DEF ToSet
<1>4. Len(q) \in Nat /\ Len(<<c>> \o q) = Len(q) + 1
  BY <1>1, <1>2
<1>5. \A i \in 1 .. Len(<<c>>) + Len(q) : (<<c>> \o q)[i] = IF i <= Len(<<c>>) THEN <<c>>[i] ELSE q[i - Len(<<c>>)]
  BY <1>1, ConcatProperties
<1>6. (<<c>> \o q)[1] = c /\ \A i \in 1 .. Len(q) : (<<c>> \o q)[i + 1] = q[i]
  BY <1>1, <1>4, <1>5
<1>7. <<c>> \o q # <<>> /\ Head(<<c>> \o q) = c
  BY <1>2, <1>4, <1>6
<1>8. Tail(<<c>> \o q) = q
  OBVIOUS
<1>9. QED
  BY <1>2, <1>3, <1>4, <1>6, <1>7, <1>8 DEF Onto

-----------------------------------------------------------------------------
(* Stacks.  What a step does to them is said in two halves: where a call     *)
(* comes from, and where one goes.                                            *)

Moves(t, old, new) ==
  /\ \A u \in Threads : \A c \in CallsOf(u)' : c \in CallsOf(u) \/ (u = t /\ c \in new)
  /\ \A u \in Threads : \A c \in CallsOf(u) : c \in CallsOf(u)' \/ (u = t /\ c \in old)
  /\ old \subseteq CallsOf(t) /\ new \subseteq CallsOf(t)'
  /\ \A u \in Threads : u # t => stack'[u] = stack[u]

Stacked == stack \in [Threads -> Seq(CallRecords)] /\ Stacks

(* What a thread can be in, read from the top of its stack. *)
LEMMA TopOfStack ==
  ASSUME Stacked, NEW t \in Threads, ~Idle(t)
  PROVE  /\ Top(t) \in CallRecords /\ Tail(stack[t]) \in Seq(CallRecords)
         /\ CallsOf(t) = {Top(t)} \cup ToSet(Tail(stack[t])) /\ CallsOf(t) \subseteq CallRecords
         /\ \A c \in CallsOf(t) : c.step \notin Callers => c = Top(t)
         /\ \A c \in ToSet(Tail(stack[t])) : c.step \in Callers
         /\ Top(t).step \in Bottoms => CallsOf(t) = {Top(t)} /\ Tail(stack[t]) = <<>>
         /\ Shaped(Tail(stack[t]))
<1> DEFINE s == stack[t]
           r == Tail(s)
<1>1. s \in Seq(CallRecords) /\ s # <<>> /\ Shaped(s)
  BY DEF Stacked, Stacks, Idle
<1>2. /\ r \in Seq(CallRecords) /\ Len(s) \in Nat \ {0} /\ Len(r) = Len(s) - 1
      /\ \A i \in 1 .. Len(s) - 1 : r[i] = s[i + 1]
      /\ DOMAIN s = 1 .. Len(s) /\ DOMAIN r = 1 .. Len(s) - 1
      /\ Head(s) = s[1] /\ Head(s) \in CallRecords
      /\ \A i \in DOMAIN s : s[i] \in CallRecords
  BY <1>1
<1>3. CallsOf(t) = {Head(s)} \cup ToSet(r) /\ Top(t) = Head(s)
  BY <1>1, HeadAndTail DEF CallsOf, Top
<1> HIDE DEF s, r
<1>4. \A i \in DOMAIN r : i + 1 \in DOMAIN s /\ i + 1 # 1 /\ r[i] = s[i + 1]
  BY <1>2
<1>5. \A c \in ToSet(r) : c.step \in Callers /\ c \in CallRecords
  BY <1>1, <1>2, <1>4 DEF Shaped, ToSet
<1>6. Shaped(r)
  <2> SUFFICES ASSUME NEW i \in DOMAIN r
               PROVE  (r[i].step \in Bottoms => i = Len(r)) /\ r[i].step \in Callers
    BY DEF Shaped
  <2>1. r[i].step \in Callers
    BY <1>5 DEF ToSet
  <2>2. r[i].step \in Bottoms => i + 1 = Len(s)
    BY <1>1, <1>4 DEF Shaped
  <2>3. QED
    BY <1>2, <2>1, <2>2
<1>7. ASSUME Head(s).step \in Bottoms PROVE r = <<>>
  <2>1. Len(s) = 1
    BY <1>1, <1>2, <1>7 DEF Shaped
  <2>2. QED
    BY <1>2, <2>1
<1>8. r = <<>> => ToSet(r) = {}
  BY NothingListed
<1>9. QED
  BY <1>2, <1>3, <1>5, <1>6, <1>7, <1>8 DEF s, r

(* A thread that goes on with one call, the one it is in. *)
LEMMA ReplacedTop ==
  ASSUME NEW s \in Seq(CallRecords), s # <<>>, NEW c \in CallRecords, Shaped(Tail(s)),
         \A d \in ToSet(Tail(s)) : d.step \in Callers,
         c.step \in Bottoms => Tail(s) = <<>>
  PROVE  LET r == Onto(c, Tail(s))
         IN  /\ r \in Seq(CallRecords) /\ Shaped(r) /\ r # <<>> /\ Head(r) = c
             /\ ToSet(r) = {c} \cup ToSet(Tail(s))
<1> DEFINE q == Tail(s)
           r == Onto(c, q)
<1>1. q \in Seq(CallRecords)
  OBVIOUS
<1> HIDE DEF q
<1>2. /\ r \in Seq(CallRecords) /\ r # <<>> /\ Head(r) = c /\ ToSet(r) = {c} \cup ToSet(q)
      /\ Len(r) = Len(q) + 1 /\ r[1] = c /\ \A i \in 1 .. Len(q) : r[i + 1] = q[i]
  <2>1. r \in Seq(CallRecords) /\ r # <<>> /\ Head(r) = c /\ ToSet(r) = {c} \cup ToSet(q)
    BY <1>1, Pushed
  <2>2. Len(r) = Len(q) + 1 /\ r[1] = c
    BY <1>1, Pushed
  <2>3. \A i \in 1 .. Len(q) : r[i + 1] = q[i]
    BY <1>1, Pushed
  <2>4. QED
    BY <2>1, <2>2, <2>3
<1> HIDE DEF r
<1>3. /\ Len(q) \in Nat /\ DOMAIN q = 1 .. Len(q) /\ DOMAIN r = 1 .. Len(q) + 1
      /\ q = <<>> => Len(q) = 0
  BY <1>1, <1>2
<1>4. Shaped(r)
  <2> SUFFICES ASSUME NEW i \in DOMAIN r
               PROVE  (r[i].step \in Bottoms => i = Len(r)) /\ (i # 1 => r[i].step \in Callers)
    BY DEF Shaped
  <2>1. CASE i = 1
    BY <2>1, <1>2, <1>3 DEF q
  <2>2. CASE i # 1
    <3> DEFINE j == i - 1
    <3>1. j \in DOMAIN q /\ i = j + 1 /\ r[i] = q[j]
      BY <1>2, <1>3, <2>2
    <3>2. q[j].step \in Callers
      BY <3>1 DEF q, ToSet
    <3>3. q[j].step \in Bottoms => j = Len(q)
      BY <3>1 DEF q, Shaped
    <3>4. QED
      BY <3>1, <3>2, <3>3, <1>2
  <2>3. QED
    BY <2>1, <2>2
<1>5. QED
  BY <1>2, <1>4 DEF q, r

(* The steps of a thread that is in a call: it goes on with another, calls,   *)
(* or returns.                                                                *)
LEMMA BecomesMoves ==
  ASSUME Stacked, NEW t \in Threads, ~Idle(t), NEW c \in CallRecords, Becomes(t, c),
         c.step \in Bottoms => Top(t).step \in Bottoms
  PROVE  Stacked' /\ Moves(t, {Top(t)}, {c}) /\ ~Idle(t)' /\ Top(t)' = c /\ Tail(stack[t])' = Tail(stack[t])
<1> DEFINE s == stack[t]
           r == Onto(c, Tail(s))
<1>1. s \in Seq(CallRecords) /\ s # <<>> /\ stack \in [Threads -> Seq(CallRecords)]
  BY DEF Stacked, Idle
<1>2. /\ CallsOf(t) = {Top(t)} \cup ToSet(Tail(s))
      /\ \A d \in ToSet(Tail(s)) : d.step \in Callers
      /\ Top(t).step \in Bottoms => Tail(s) = <<>>
      /\ Shaped(Tail(s))
  BY TopOfStack
<1>3. r \in Seq(CallRecords) /\ Shaped(r) /\ r # <<>> /\ Head(r) = c /\ ToSet(r) = {c} \cup ToSet(Tail(s))
  BY <1>1, <1>2, ReplacedTop
<1>4. stack' = [stack EXCEPT ![t] = r]
  BY DEF Becomes, Onto
<1>t. Tail(r) = Tail(s)
  <2> DEFINE q == Tail(s)
  <2>1. q \in Seq(CallRecords)
    BY <1>1
  <2> HIDE DEF q
  <2>2. Tail(Onto(c, q)) = q
    BY <2>1, Pushed
  <2>3. QED
    BY <2>2 DEF q
<1> HIDE DEF r
<1>5. stack' \in [Threads -> Seq(CallRecords)] /\ stack'[t] = r /\ \A u \in Threads : u # t => stack'[u] = stack[u]
  BY <1>1, <1>3, <1>4
<1>6. Stacked'
  BY <1>3, <1>5 DEF Stacked, Stacks
<1>7. CallsOf(t)' = {c} \cup ToSet(Tail(s)) /\ \A u \in Threads : u # t => CallsOf(u)' = CallsOf(u)
  BY <1>3, <1>5 DEF CallsOf
<1>8. Moves(t, {Top(t)}, {c})
  BY <1>2, <1>5, <1>7 DEF Moves
<1>9. QED
  BY <1>3, <1>5, <1>6, <1>8, <1>t DEF Idle, Top

LEMMA CallsMoves ==
  ASSUME Stacked, NEW t \in Threads, ~Idle(t), NEW c \in CallRecords, NEW d \in CallRecords,
         Calls(t, c, d), c.step \in Callers, d.step \notin Bottoms,
         c.step \in Bottoms => Top(t).step \in Bottoms
  PROVE  Stacked' /\ Moves(t, {Top(t)}, {c, d}) /\ ~Idle(t)'
<1> DEFINE s == stack[t]
           r == Onto(c, Tail(s))
           q == Onto(d, r)
<1>1. s \in Seq(CallRecords) /\ s # <<>> /\ stack \in [Threads -> Seq(CallRecords)] /\ Tail(s) \in Seq(CallRecords)
  BY DEF Stacked, Idle
<1>2. /\ CallsOf(t) = {Top(t)} \cup ToSet(Tail(s))
      /\ \A b \in ToSet(Tail(s)) : b.step \in Callers
      /\ Top(t).step \in Bottoms => Tail(s) = <<>>
      /\ Shaped(Tail(s))
  BY TopOfStack
<1>3. r \in Seq(CallRecords) /\ Shaped(r) /\ r # <<>> /\ Head(r) = c /\ ToSet(r) = {c} \cup ToSet(Tail(s))
  BY <1>1, <1>2, ReplacedTop
<1> HIDE DEF r
<1>4. /\ q \in Seq(CallRecords) /\ ToSet(q) = {d} \cup ToSet(r) /\ q # <<>>
      /\ Len(q) = Len(r) + 1 /\ q[1] = d /\ \A i \in 1 .. Len(r) : q[i + 1] = r[i]
  <2>1. q \in Seq(CallRecords) /\ q # <<>>
    BY <1>3, Pushed
  <2>4. ToSet(q) = {d} \cup ToSet(r)
    <3>1. r \in Seq(CallRecords)
      BY <1>3
    <3>2. QED
      BY <3>1, Pushed
  <2>2. Len(q) = Len(r) + 1 /\ q[1] = d
    BY <1>3, Pushed
  <2>3. \A i \in 1 .. Len(r) : q[i + 1] = r[i]
    BY <1>3, Pushed
  <2>5. QED
    BY <2>1, <2>2, <2>3, <2>4
<1>5. stack' = [stack EXCEPT ![t] = q]
  <2>1. <<d, c>> \o Tail(s) = q
    BY <1>1 DEF Onto, r
  <2>2. QED
    BY <2>1 DEF Calls
<1> HIDE DEF q
<1>6. Shaped(q)
  <2>1. Len(r) \in Nat /\ DOMAIN r = 1 .. Len(r) /\ DOMAIN q = 1 .. Len(r) + 1
    BY <1>3, <1>4 DEF q
  <2> SUFFICES ASSUME NEW i \in DOMAIN q
               PROVE  (q[i].step \in Bottoms => i = Len(q)) /\ (i # 1 => q[i].step \in Callers)
    BY DEF Shaped
  <2>2. CASE i = 1
    BY <2>2, <1>4
  <2>3. CASE i # 1
    <3> DEFINE j == i - 1
    <3>1. j \in DOMAIN r /\ i = j + 1 /\ q[i] = r[j]
      BY <1>4, <2>1, <2>3
    <3>2. r[j] \in ToSet(r)
      BY <3>1 DEF ToSet
    <3>3. r[j].step \in Callers
      BY <3>2, <1>2, <1>3
    <3>4. r[j].step \in Bottoms => j = Len(r)
      BY <3>1, <1>3 DEF Shaped
    <3>5. QED
      BY <3>1, <3>3, <3>4, <1>4
  <2>4. QED
    BY <2>2, <2>3
<1>7. stack' \in [Threads -> Seq(CallRecords)] /\ stack'[t] = q /\ \A u \in Threads : u # t => stack'[u] = stack[u]
  BY <1>1, <1>4, <1>5 DEF q
<1>8. Stacked'
  BY <1>6, <1>7 DEF Stacked, Stacks
<1>9. CallsOf(t)' = {c, d} \cup ToSet(Tail(s)) /\ \A u \in Threads : u # t => CallsOf(u)' = CallsOf(u)
  BY <1>3, <1>4, <1>7 DEF CallsOf
<1>10. Moves(t, {Top(t)}, {c, d})
  BY <1>2, <1>7, <1>9 DEF Moves
<1>11. QED
  BY <1>4, <1>7, <1>8, <1>10 DEF Idle

LEMMA ReturnsMoves ==
  ASSUME Stacked, NEW t \in Threads, ~Idle(t), Returns(t)
  PROVE  /\ Stacked' /\ Moves(t, {Top(t)}, {})
         /\ Top(t).step \in Bottoms => Idle(t)'
<1>1. stack[t] \in Seq(CallRecords) /\ stack[t] # <<>> /\ stack \in [Threads -> Seq(CallRecords)]
  BY DEF Stacked, Idle
<1>2. /\ CallsOf(t) = {Top(t)} \cup ToSet(Tail(stack[t])) /\ Shaped(Tail(stack[t]))
      /\ Tail(stack[t]) \in Seq(CallRecords)
      /\ Top(t).step \in Bottoms => Tail(stack[t]) = <<>>
  BY TopOfStack
<1>3. stack' = [stack EXCEPT ![t] = Tail(stack[t])]
  BY DEF Returns
<1>4. /\ stack' \in [Threads -> Seq(CallRecords)] /\ stack'[t] = Tail(stack[t])
      /\ \A u \in Threads : u # t => stack'[u] = stack[u]
  BY <1>1, <1>2, <1>3
<1>5. Stacked'
  BY <1>2, <1>4 DEF Stacked, Stacks
<1>6. Moves(t, {Top(t)}, {})
  BY <1>2, <1>4 DEF Moves, CallsOf
<1>7. QED
  BY <1>2, <1>4, <1>5, <1>6 DEF Idle

(* A thread that had nothing to do with the pool enters it.                   *)
LEMMA EntersMoves ==
  ASSUME Stacked, NEW t \in Threads, NEW c \in CallRecords, Enters(t, c)
  PROVE  Stacked' /\ Moves(t, {}, {c}) /\ Idle(t) /\ CallsOf(t)' = {c}
<1>1. stack[t] = <<>> /\ stack' = [stack EXCEPT ![t] = <<c>>] /\ stack \in [Threads -> Seq(CallRecords)]
  BY DEF Stacked, Enters, Idle
<1>2. /\ stack' \in [Threads -> Seq(CallRecords)] /\ stack'[t] = <<c>>
      /\ \A u \in Threads : u # t => stack'[u] = stack[u]
  BY <1>1
<1>3. Shaped(<<c>>) /\ ToSet(<<c>>) = {c}
  BY DEF Shaped, ToSet
<1>4. CallsOf(t) = {} /\ CallsOf(t)' = {c} /\ \A u \in Threads : u # t => CallsOf(u)' = CallsOf(u)
  BY <1>1, <1>2, <1>3, NothingListed DEF CallsOf
<1>5. Stacked'
  BY <1>2, <1>3 DEF Stacked, Stacks
<1>6. QED
  BY <1>1, <1>2, <1>4, <1>5 DEF Moves, Idle

-----------------------------------------------------------------------------
(* What a step has to do for each part of the invariant.                      *)

LEMMA CallsAreRecords ==
  ASSUME Stacked
  PROVE  \A t \in Threads : CallsOf(t) \subseteq CallRecords /\ (Idle(t) <=> CallsOf(t) = {})
<1> SUFFICES ASSUME NEW t \in Threads
             PROVE  CallsOf(t) \subseteq CallRecords /\ (Idle(t) <=> CallsOf(t) = {})
  OBVIOUS
<1>1. CASE Idle(t)
  BY <1>1, NothingListed DEF Idle, CallsOf
<1>2. CASE ~Idle(t)
  BY <1>2, TopOfStack
<1>3. QED
  BY <1>1, <1>2

LEMMA NewCallsAreRecords ==
  ASSUME Stacked', NEW t \in Threads
  PROVE  CallsOf(t)' \subseteq CallRecords
<1>1. stack'[t] \in Seq(CallRecords)
  BY DEF Stacked
<1>2. \A i \in DOMAIN stack'[t] : stack'[t][i] \in CallRecords
  BY <1>1
<1>3. QED
  BY <1>2 DEF CallsOf, ToSet

LEMMA GateHeld ==
  /\ \A t \in Threads : HoldsGate(t) <=> \E c \in CallsOf(t) : c.step \in GateSteps
  /\ \A t \in Threads : HoldsGate(t)' <=> \E c \in CallsOf(t)' : c.step \in GateSteps
<1>1. \A t \in Threads : HoldsGate(t) <=> \E c \in CallsOf(t) : c.step \in GateSteps
  BY DEF HoldsGate, CallsOf, ToSet
<1>2. \A t \in Threads : HoldsGate(t)' <=> \E c \in CallsOf(t)' : c.step \in GateSteps
  BY DEF HoldsGate, CallsOf, ToSet
<1>3. QED
  BY <1>1, <1>2

InGate(calls) == \E c \in calls : c.step \in GateSteps

LEMMA GateKept ==
  ASSUME Gate, NEW t \in Threads, NEW old, NEW new, Moves(t, old, new),
         InGate(new) => InGate(old) \/ GateIsFree(t)
  PROVE  Gate'
<1>1. ASSUME NEW u \in Threads, HoldsGate(u)' PROVE HoldsGate(u) \/ (u = t /\ GateIsFree(t))
  <2>1. PICK c \in CallsOf(u)' : c.step \in GateSteps
    BY <1>1, GateHeld
  <2>2. CASE c \in CallsOf(u)
    BY <2>1, <2>2, GateHeld
  <2>3. CASE u = t /\ c \in new
    <3>1. InGate(old) => HoldsGate(t)
      BY GateHeld DEF InGate, Moves
    <3>2. InGate(new)
      BY <2>1, <2>3 DEF InGate
    <3>3. QED
      BY <2>3, <3>1, <3>2
  <2>4. QED
    BY <2>1, <2>2, <2>3 DEF Moves
<1>2. QED
  BY <1>1 DEF Gate, GateIsFree

LEMMA NoGateKept ==
  ASSUME \A u \in Threads : ~HoldsGate(u), NEW t \in Threads, NEW old, NEW new, Moves(t, old, new),
         InGate(new) => InGate(old)
  PROVE  \A u \in Threads : ~HoldsGate(u)'
<1> SUFFICES ASSUME NEW u \in Threads, HoldsGate(u)' PROVE FALSE
  OBVIOUS
<1>1. PICK c \in CallsOf(u)' : c.step \in GateSteps
  BY GateHeld
<1>2. c \in CallsOf(u) \/ (u = t /\ c \in new)
  BY <1>1 DEF Moves
<1>3. InGate(old) => HoldsGate(t)
  BY GateHeld DEF InGate, Moves
<1>4. QED
  BY <1>1, <1>2, <1>3, GateHeld DEF InGate

(* What was so stays so. *)
Grows ==
  /\ \A o \in Ops :
       /\ Over(o) => Over(o)'
       /\ Settled(o) => Settled(o)'
       /\ Started(o) => Started(o)'
       /\ Ended(o) => Ended(o)'
       /\ Admitted(o) => Admitted(o)'
       /\ Idle(o) => Idle(o)'
       /\ Stopped(o) => Stopped(o)'
       /\ Resumed(o) => Resumed(o)'
  /\ shuttingDown => shuttingDown'

LEMMA LastingKept ==
  ASSUME Grows, NEW t \in Threads, NEW c \in CallRecords, Lasting(t, c)
  PROVE  Lasting(t, c)'
<1>1. c.todo \in Seq(Ops)
  BY DEF CallRecords
<1>2. /\ c.step \in Launches => \A o \in ToSet(c.todo) : Admitted(o)'
      /\ c.step \in GateSteps => c.todo # <<>>
      /\ c.step \in {"gate", "close", "down"} => shuttingDown'
      /\ c.step \in Workings => t \in Ops /\ c.op = t
  <2>1. ToSet(c.todo) \subseteq Ops
    BY <1>1 DEF ToSet
  <2>2. QED
    BY <2>1 DEF Lasting, Grows
<1>3. c.step = "failed" => Ended(Head(c.todo))' /\ Idle(Head(c.todo))'
  <2>1. c.step = "failed" => c.todo # <<>> /\ Ended(Head(c.todo)) /\ Idle(Head(c.todo))
    BY DEF Lasting, GateSteps
  <2>2. c.todo # <<>> => Head(c.todo) \in Ops
    BY <1>1
  <2>3. QED
    BY <2>1, <2>2 DEF Grows
<1>4. /\ c.step \in Tellings => c.op \in Ops /\ Settled(c.op)'
      /\ c.step \in {"clear", "tell"} => c.op \in Ops /\ Stopped(c.op)'
      /\ c.step = "tell" => Resumed(c.op)'
      /\ c.step = "stop" => c.op \in Ops /\ (c.flag => Started(c.op)')
  BY DEF Lasting, Grows
<1>5. c.step \in {"ending", "finished"} => Ended(t)'
  <2>1. c.step \in {"ending", "finished"} => t \in Ops /\ Ended(t)
    BY DEF Lasting, Workings
  <2>2. QED
    BY <2>1 DEF Grows
<1>6. QED
  BY <1>2, <1>3, <1>4, <1>5 DEF Lasting

LEMMA CallingKept ==
  ASSUME Calling, Stacked, NEW t \in Threads, NEW old, NEW new, Moves(t, old, new), Grows,
         \A c \in new : Lasting(t, c)' /\ Passing(t, c)',
         \A u \in Threads : \A c \in CallsOf(u) :
           Passing(u, c) => Passing(u, c)' \/ (u = t /\ c \in old /\ c \notin CallsOf(u)')
  PROVE  Calling'
<1> SUFFICES ASSUME NEW u \in Threads, NEW c \in CallsOf(u)' PROVE Lasting(u, c)' /\ Passing(u, c)'
  BY DEF Calling
<1>1. CASE c \in CallsOf(u)
  <2>1. c \in CallRecords /\ Lasting(u, c) /\ Passing(u, c)
    BY <1>1, CallsAreRecords DEF Calling
  <2>2. QED
    BY <1>1, <2>1, LastingKept
<1>2. CASE u = t /\ c \in new
  BY <1>2
<1>3. QED
  BY <1>1, <1>2 DEF Moves

LEMMA AloneKept ==
  ASSUME Alone, NEW t \in Threads, NEW old, NEW new, Moves(t, old, new),
         \A c \in new : c.step = "finalizing" =>
           \A u \in Threads : \A d \in CallsOf(u) : d.step = "finalizing" => d.op # c.op
  PROVE  Alone'
<1> SUFFICES ASSUME NEW u \in Threads, NEW v \in Threads, NEW c \in CallsOf(u)', NEW d \in CallsOf(v)',
                    c.step = "finalizing", d.step = "finalizing", c.op = d.op
             PROVE  u = v
  BY DEF Alone
<1>1. (c \in CallsOf(u) \/ (u = t /\ c \in new)) /\ (d \in CallsOf(v) \/ (v = t /\ d \in new))
  BY DEF Moves
<1>2. CASE c \in CallsOf(u) /\ d \in CallsOf(v)
  BY <1>2 DEF Alone
<1>3. QED
  BY <1>1, <1>2

LEMMA LiveKept ==
  ASSUME Live, NEW t \in Threads, NEW old, NEW new, Moves(t, old, new),
         \A o \in Ops : job'[o].isRunning =>
           PerformedBy(t, new, o) \/ (job[o].isRunning /\ ~PerformedBy(t, old, o)),
         \A o \in Ops : Finished(o)' => ToldBy(new, o) \/ (Finished(o) /\ ~ToldBy(old, o)),
         \A o \in Ops : Awaited(o)' => StartedBy(new, o) \/ (Awaited(o) /\ ~StartedBy(old, o))
  PROVE  Live'
<1> SUFFICES ASSUME NEW o \in Ops PROVE InHand(o)'
  BY DEF Live
<1>0. InHand(o)
  BY DEF Live
<1>1. /\ new \subseteq CallsOf(t)'
      /\ \A u \in Threads : \A c \in CallsOf(u) : c \in CallsOf(u)' \/ (u = t /\ c \in old)
  BY DEF Moves
<1>2. job'[o].isRunning => Performed(o)'
  <2>1. CASE PerformedBy(t, new, o)
    BY <1>1, <2>1 DEF Performed, PerformedBy
  <2>2. CASE Performed(o) /\ ~PerformedBy(t, old, o)
    <3>1. PICK u \in Threads : PerformedBy(u, CallsOf(u), o)
      BY <2>2 DEF Performed
    <3>2. PerformedBy(u, CallsOf(u)', o)
      BY <1>1, <2>2, <3>1 DEF PerformedBy
    <3>3. QED
      BY <3>2 DEF Performed, PerformedBy
  <2>3. QED
    BY <1>0, <2>1, <2>2 DEF InHand
<1>3. Finished(o)' => Told(o)'
  <2>1. CASE ToldBy(new, o)
    BY <1>1, <2>1 DEF Told, ToldBy, Tells
  <2>2. CASE Told(o) /\ ~ToldBy(old, o)
    BY <1>1, <2>2 DEF Told, ToldBy, Tells
  <2>3. QED
    BY <1>0, <2>1, <2>2 DEF InHand
<1>4. Awaited(o)' => Starting(o)'
  <2>1. CASE StartedBy(new, o)
    BY <1>1, <2>1 DEF Starting, StartedBy
  <2>2. CASE Starting(o) /\ ~StartedBy(old, o)
    BY <1>1, <2>2 DEF Starting, StartedBy
  <2>3. QED
    BY <1>0, <2>1, <2>2 DEF InHand
<1>5. QED
  BY <1>2, <1>3, <1>4 DEF InHand

LEMMA WakefulKept ==
  ASSUME Wakeful, NEW t \in Threads, NEW old, NEW new, Moves(t, old, new),
         Starved' => \/ \E c \in new : Looks(c)'
                     \/ /\ Starved /\ ~LooksBy(old)
                        /\ ToSet(finalizing) \subseteq ToSet(finalizing')
  PROVE  Wakeful'
<1>1. ASSUME Starved', NEW c \in new, Looks(c)' PROVE LooksBy(CallsOf(t))'
  BY <1>1 DEF LooksBy, Moves
<1>2. ASSUME Starved, ~LooksBy(old), ToSet(finalizing) \subseteq ToSet(finalizing')
      PROVE  \E u \in Threads : LooksBy(CallsOf(u))'
  <2>1. PICK u \in Threads : LooksBy(CallsOf(u))
    BY <1>2 DEF Wakeful
  <2>2. PICK c \in CallsOf(u) : Looks(c)
    BY <2>1 DEF LooksBy
  <2>3. c \in CallsOf(u)'
    BY <1>2, <2>2 DEF Moves, LooksBy
  <2>4. Looks(c)'
    BY <1>2, <2>2 DEF Looks
  <2>5. QED
    BY <2>3, <2>4 DEF LooksBy
<1>3. QED
  BY <1>1, <1>2 DEF Wakeful

(* Nobody comes to need a stop after a shutdown began, and no start is         *)
(* recorded after it passed the gate.                                          *)
Unstopped(o) == Listed(o) /\ Cold(o)

Closing ==
  /\ shuttingDown'
  /\ \A o \in Ops : Unstopped(o)' => Unstopped(o)
  /\ ToSet(snapshot') \subseteq ToSet(snapshot)
  /\ (\A u \in Threads : ~HoldsGate(u)) =>
       \A o \in Ops : /\ job'[o].wasStarted => job[o].wasStarted
                      /\ job[o].executionFinished => job'[o].executionFinished

LEMMA ShutdownsKept ==
  ASSUME Shutdowns, Calling, snapshot \in Seq(Ops), snapshot' \in Seq(Ops),
         NEW t \in Threads, NEW old, NEW new, Moves(t, old, new),
         shuttingDown => Closing,
         shuttingDown' => \A o \in Ops : Listed(o)' => o \in ToSet(snapshot'),
         InGate(new) => InGate(old) \/ ~shuttingDown,
         shuttingDown => \A o \in Ops : StoppedBy(old, o) => StoppedBy(new, o) \/ ~Unstopped(o)',
         \A c \in new : ShutdownOK(t, c)'
  PROVE  Shutdowns'
<1> SUFFICES ASSUME NEW u \in Threads, NEW c \in CallsOf(u)' PROVE ShutdownOK(u, c)'
  BY DEF Shutdowns
<1>1. CASE u = t /\ c \in new
  BY <1>1
<1>2. CASE c \in CallsOf(u)
  <2>1. ShutdownOK(u, c) /\ Lasting(u, c)
    BY <1>2 DEF Shutdowns, Calling
  <2>2. c.step \in {"gate", "close", "down"} => shuttingDown /\ Closing
    BY <2>1 DEF Lasting
  <2>3. c.step \in {"close", "down"} => (\A v \in Threads : ~HoldsGate(v)) /\ \A v \in Threads : ~HoldsGate(v)'
    BY <2>1, <2>2, NoGateKept DEF ShutdownOK
  <2>4. c.step \in {"gate", "close"} =>
          \A o \in Ops : Unstopped(o)' => o \in ToSet(c.todo) \/ StoppedBy(CallsOf(u)', o)
    <3> SUFFICES ASSUME c.step \in {"gate", "close"}, NEW o \in Ops, Unstopped(o)', o \notin ToSet(c.todo)
                 PROVE  StoppedBy(CallsOf(u)', o)
      OBVIOUS
    <3>1. Unstopped(o) /\ StoppedBy(CallsOf(u), o)
      BY <2>1, <2>2 DEF Closing, ShutdownOK, Unstopped
    <3>2. CASE u = t /\ StoppedBy(old, o)
      <4>1. StoppedBy(new, o)
        BY <2>2, <3>2
      <4>2. QED
        BY <4>1, <3>2 DEF StoppedBy, Moves
    <3>3. CASE ~(u = t /\ StoppedBy(old, o))
      BY <3>1, <3>3 DEF StoppedBy, Moves
    <3>4. QED
      BY <3>2, <3>3
  <2>5. c.step = "down" => \A o \in Ops : ~Unstopped(o)'
    BY <2>1, <2>2 DEF Closing, ShutdownOK, Unstopped
  <2>6. c.step = "down" => \A o \in ToSet(snapshot') : job'[o].wasStarted => job'[o].executionFinished
    <3> SUFFICES ASSUME c.step = "down", NEW o \in ToSet(snapshot'), job'[o].wasStarted
                 PROVE  job'[o].executionFinished
      OBVIOUS
    <3>0. o \in ToSet(snapshot)
      BY <2>2 DEF Closing
    <3>1. o \in ToSet(snapshot) /\ o \in Ops
      BY <3>0 DEF ToSet
    <3>2. job[o].wasStarted
      BY <2>2, <2>3, <3>1 DEF Closing
    <3>3. job[o].executionFinished
      BY <2>1, <3>1, <3>2 DEF ShutdownOK
    <3>4. QED
      BY <2>2, <2>3, <3>1, <3>3 DEF Closing
  <2>7. QED
    BY <2>3, <2>4, <2>5, <2>6 DEF ShutdownOK, Unstopped, StoppedBy
<1>3. QED
  BY <1>1, <1>2 DEF Moves

(* What reads neither the stacks nor the concurrency.                         *)
SameData == UNCHANGED <<pending, running, finalizing, inProgress, shuttingDown, snapshot, job, released, untold>>

LEMMA JobsKept ==
  ASSUME Jobs, Grows, job' = job, untold' = untold, \A o \in Ops : Gone(o)' => Gone(o) \/ Settled(o)
  PROVE  Jobs'
<1> SUFFICES ASSUME NEW o \in Ops PROVE JobOK(o)'
  BY DEF Jobs
<1>1. JobOK(o)
  BY DEF Jobs
<1>2. /\ Admitted(o) => Admitted(o)'
      /\ Idle(o) => Idle(o)'
      /\ Settled(o) => Settled(o)'
      /\ Stopped(o) => Stopped(o)'
  BY DEF Grows
<1>3. (Started(o)' <=> Started(o)) /\ job'[o] = job[o]
  BY DEF Started, Over
<1>4. QED
  BY <1>1, <1>2, <1>3 DEF JobOK

LEMMA IdleKept ==
  ASSUME NEW t \in Threads, NEW old, NEW new, Moves(t, old, new), t \in Ops => ~Idle(t)
  PROVE  \A o \in Ops : Idle(o) => Idle(o)'
<1>1. Ops \subseteq Threads
  BY DEF Threads
<1>2. QED
  BY <1>1 DEF Moves, Idle

(* Nobody starts to work on what is settled. *)
LEMMA SettledKept ==
  ASSUME NEW t \in Threads, NEW old, NEW new, Moves(t, old, new), NEW o \in Ops, Settled(o),
         Over(o)', job'[o].isRunning => job[o].isRunning, job[o].isStopped => job'[o].isStopped,
         \A c \in new : c.step \in {"working", "last"} => ~job[t].isStopped \/ Working(t)
  PROVE  Settled(o)'
<1> SUFFICES ASSUME job'[o].isRunning PROVE job'[o].isStopped /\ ~Working(o)'
  BY DEF Settled
<1>1. job[o].isStopped /\ ~Working(o)
  BY DEF Settled
<1>2. ASSUME Working(o)' PROVE FALSE
  <2>1. PICK c \in CallsOf(o)' : c.step \in {"working", "last"}
    BY <1>2 DEF Working
  <2>2. o \in Threads
    BY DEF Threads
  <2>3. c \notin CallsOf(o)
    BY <1>1, <2>1 DEF Working
  <2>4. o = t /\ c \in new
    BY <2>1, <2>2, <2>3 DEF Moves
  <2>5. QED
    BY <1>1, <2>1, <2>4
<1>3. QED
  BY <1>1, <1>2

(* A step that touches only the stack of its thread.                          *)
LEMMA QuietKeeps ==
  ASSUME IInv, Stacked', SameData, concurrency' \in Concurrencies,
         NEW t \in Threads, NEW old, NEW new, Moves(t, old, new), t \in Ops => ~Idle(t),
         InGate(new) => InGate(old) \/ (GateIsFree(t) /\ ~shuttingDown),
         \A c \in new : Lasting(t, c) /\ Passing(t, c) /\ c.step # "finalizing",
         \A c \in new : c.step \in {"working", "last"} => ~job[t].isStopped \/ Working(t),
         \A o \in Ops : PerformedBy(t, old, o) => PerformedBy(t, new, o) \/ ~job[o].isRunning,
         \A o \in Ops : ToldBy(old, o) => ToldBy(new, o) \/ ~Finished(o),
         \A o \in Ops : StartedBy(old, o) => StartedBy(new, o) \/ ~Awaited(o),
         LooksBy(old) => LooksBy(new) \/ ~Starved,
         \A o \in Ops : StoppedBy(old, o) => StoppedBy(new, o) \/ ~Unstopped(o),
         \A c \in new : c.step \in {"close", "down"} => \A u \in Threads : ~HoldsGate(u)',
         \A c \in new : c.step \in {"gate", "close"} =>
           \A o \in Ops : Unstopped(o) => o \in ToSet(c.todo) \/ StoppedBy(new, o),
         \A c \in new : c.step = "down" =>
           /\ \A o \in Ops : ~Unstopped(o)
           /\ \A o \in ToSet(snapshot) : job[o].wasStarted => job[o].executionFinished
  PROVE  IInv'
<1>1. /\ pending' = pending /\ running' = running /\ finalizing' = finalizing /\ inProgress' = inProgress
      /\ shuttingDown' = shuttingDown /\ snapshot' = snapshot /\ job' = job /\ released' = released /\ untold' = untold
  BY DEF SameData
<1>2. Types /\ Lists /\ Stacks /\ Gate /\ Jobs /\ Calling /\ Alone /\ Releases /\ Live /\ Wakeful /\ Shutdowns
  BY DEF IInv
<1>3. Stacked
  BY <1>2 DEF Stacked, Types
<1>4. Types'
  BY <1>1, <1>2 DEF Types, Stacked
<1>5. Lists'
  BY <1>1, <1>2 DEF Lists, Apart
<1>6. \A o \in Ops : Idle(o) => Idle(o)'
  BY IdleKept
<1>7. \A o \in Ops : /\ Over(o)' <=> Over(o)
                     /\ Started(o)' <=> Started(o)
                     /\ Cold(o)' <=> Cold(o)
                     /\ Listed(o)' <=> Listed(o)
                     /\ Finished(o)' <=> Finished(o)
                     /\ Awaited(o)' <=> Awaited(o)
                     /\ Unstopped(o)' <=> Unstopped(o)
                     /\ Admitted(o)' <=> Admitted(o)
                     /\ Ended(o)' <=> Ended(o)
                     /\ Stopped(o)' <=> Stopped(o)
                     /\ Resumed(o)' <=> Resumed(o)
                     /\ Gone(o)' <=> Gone(o)
  BY <1>1 DEF Over, Started, Cold, Listed, Finished, Active, Awaited, Unstopped, Admitted, Ended,
              Gone, Stopped, Resumed
<1>8. Grows
  <2>1. \A o \in Ops : Settled(o) => Settled(o)'
    <3> SUFFICES ASSUME NEW o \in Ops, Settled(o) PROVE Settled(o)'
      OBVIOUS
    <3>1. Over(o)'
      BY <1>7 DEF Settled
    <3>2. QED
      BY <1>1, <3>1, SettledKept
  <2>2. QED
    BY <1>1, <1>6, <1>7, <2>1 DEF Grows
<1>9. Gate'
  BY <1>2, GateKept
<1>10. Jobs'
  BY <1>1, <1>2, <1>7, <1>8, JobsKept
<1>11. Calling'
  <2>1. ASSUME NEW u \in Threads, NEW c \in CallRecords, Lasting(u, c), Passing(u, c) PROVE Passing(u, c)'
    <3>1. c.step = "launch" => Head(c.todo) \in Ops
      <4>1. c.step = "launch" => c.todo # <<>>
        BY <2>1 DEF Lasting, GateSteps
      <4>2. c.todo \in Seq(Ops)
        BY DEF CallRecords
      <4>3. QED
        BY <4>1, <4>2
    <3>2. QED
      BY <1>1, <1>6, <2>1, <3>1 DEF Passing
  <2>2. \A c \in new : Lasting(t, c)' /\ Passing(t, c)'
    <3>1. new \subseteq CallRecords
      BY NewCallsAreRecords DEF Moves
    <3>2. QED
      BY <2>1, <3>1, <1>8, LastingKept
  <2>3. \A u \in Threads : \A c \in CallsOf(u) : Passing(u, c) => Passing(u, c)'
    BY <1>2, <1>3, <2>1, CallsAreRecords DEF Calling
  <2>4. QED
    BY <1>2, <1>3, <1>8, <2>2, <2>3, CallingKept
<1>12. Alone'
  BY <1>2, AloneKept
<1>13. Releases'
  BY <1>1, <1>2, <1>7 DEF Releases
<1>14. Live'
  BY <1>1, <1>2, <1>7, LiveKept
<1>15. Wakeful'
  <2>1. Starved' <=> Starved
    BY <1>1 DEF Starved
  <2>2. \A c \in new : Looks(c)' <=> Looks(c)
    BY <1>1 DEF Looks
  <2>3. Starved' => (\E c \in new : Looks(c)') \/ (Starved /\ ~LooksBy(old))
    BY <2>1, <2>2 DEF LooksBy
  <2>4. QED
    BY <1>1, <1>2, <2>3, WakefulKept
<1>16. Shutdowns'
  <2>1. shuttingDown => Closing
    BY <1>1, <1>7 DEF Closing
  <2>2. shuttingDown' => \A o \in Ops : Listed(o)' => o \in ToSet(snapshot')
    BY <1>1, <1>2, <1>7 DEF Shutdowns
  <2>3. \A c \in new : ShutdownOK(t, c)'
    <3> SUFFICES ASSUME NEW c \in new PROVE ShutdownOK(t, c)'
      OBVIOUS
    <3>1. \A o \in Ops : StoppedBy(new, o) => StoppedBy(CallsOf(t)', o)
      BY DEF StoppedBy, Moves
    <3>2. c.step \in {"gate", "close"} =>
            \A o \in Ops : Unstopped(o)' => o \in ToSet(c.todo) \/ StoppedBy(CallsOf(t)', o)
      BY <1>7, <3>1
    <3>3. c.step = "down" =>
            /\ \A o \in Ops : ~Unstopped(o)'
            /\ \A o \in ToSet(snapshot') : job'[o].wasStarted => job'[o].executionFinished
      BY <1>1, <1>7
    <3>4. QED
      BY <3>2, <3>3 DEF ShutdownOK, Unstopped, StoppedBy
  <2>4. snapshot \in Seq(Ops) /\ snapshot' \in Seq(Ops)
    BY <1>1, <1>2 DEF Types
  <2>5. \A o \in Ops : StoppedBy(old, o) => StoppedBy(new, o) \/ ~Unstopped(o)'
    BY <1>7
  <2>6. QED
    BY <1>2, <2>1, <2>2, <2>3, <2>4, <2>5, ShutdownsKept
<1>17. QED
  BY <1>4, <1>5, <1>9, <1>10, <1>11, <1>12, <1>13, <1>14, <1>15, <1>16 DEF IInv, Stacked

(* The same, when the call it goes on with is no part of a shutdown. *)
LEMMA PlainKeeps ==
  ASSUME IInv, Stacked', SameData, concurrency' \in Concurrencies,
         NEW t \in Threads, NEW old, NEW c, Moves(t, old, {c}), t \in Ops => ~Idle(t),
         c.step \notin {"gate", "close", "down", "working", "last", "finalizing"},
         c.step \in GateSteps => InGate(old) \/ (GateIsFree(t) /\ ~shuttingDown),
         Lasting(t, c), Passing(t, c),
         \A o \in Ops : PerformedBy(t, old, o) => PerformedBy(t, {c}, o) \/ ~job[o].isRunning,
         \A o \in Ops : ToldBy(old, o) => ToldBy({c}, o) \/ ~Finished(o),
         \A o \in Ops : StartedBy(old, o) => StartedBy({c}, o) \/ ~Awaited(o),
         LooksBy(old) => LooksBy({c}) \/ ~Starved,
         \A o \in Ops : ~StoppedBy(old, o)
  PROVE  IInv'
<1> DEFINE new == {c}
<1>1. \A d \in new : d = c
  OBVIOUS
<1>2. InGate(new) => c.step \in GateSteps
  BY DEF InGate
<1> HIDE DEF new
<1>3. /\ \A d \in new : Lasting(t, d) /\ Passing(t, d) /\ d.step # "finalizing"
      /\ \A d \in new : d.step \notin {"working", "last"}
      /\ \A d \in new : d.step \notin {"close", "down"} /\ d.step \notin {"gate", "close"} /\ d.step # "down"
  BY <1>1
<1>4. Moves(t, old, new)
  BY DEF new
<1>5. /\ \A o \in Ops : PerformedBy(t, old, o) => PerformedBy(t, new, o) \/ ~job[o].isRunning
      /\ \A o \in Ops : ToldBy(old, o) => ToldBy(new, o) \/ ~Finished(o)
      /\ \A o \in Ops : StartedBy(old, o) => StartedBy(new, o) \/ ~Awaited(o)
      /\ LooksBy(old) => LooksBy(new) \/ ~Starved
  BY DEF new
<1>6. QED
  BY <1>2, <1>3, <1>4, <1>5, QuietKeeps

-----------------------------------------------------------------------------
(* Calls, and what a thread knows of the one it is in.                        *)

LEMMA NewCall ==
  ASSUME NEW step \in Steps, NEW o \in Ops \cup {NoOp}, NEW todo \in Seq(Ops), NEW flag \in BOOLEAN
  PROVE  LET c == Call(step, o, todo, flag)
         IN  /\ c \in CallRecords
             /\ c.step = step /\ c.op = o /\ c.todo = todo /\ c.flag = flag
BY DEF Call, CallRecords

LEMMA AboutCall ==
  ASSUME NEW step \in Steps, NEW o \in Ops \cup {NoOp}
  PROVE  /\ About(step, o) \in CallRecords
         /\ About(step, o).step = step /\ About(step, o).op = o
         /\ About(step, o).todo = <<>> /\ About(step, o).flag = FALSE
<1>1. <<>> \in Seq(Ops) /\ FALSE \in BOOLEAN
  OBVIOUS
<1>2. QED
  BY <1>1 DEF About, Call, CallRecords

LEMMA RecordOfCall ==
  ASSUME NEW k \in CallRecords
  PROVE  /\ k.step \in Steps /\ k.op \in Ops \cup {NoOp} /\ k.todo \in Seq(Ops) /\ k.flag \in BOOLEAN
         /\ ToSet(k.todo) \subseteq Ops
         /\ k.todo # <<>> => /\ Head(k.todo) \in Ops /\ Tail(k.todo) \in Seq(Ops)
                             /\ ToSet(k.todo) = {Head(k.todo)} \cup ToSet(Tail(k.todo))
         /\ k.todo = <<>> => ToSet(k.todo) = {}
<1>1. k.step \in Steps /\ k.op \in Ops \cup {NoOp} /\ k.todo \in Seq(Ops) /\ k.flag \in BOOLEAN
  BY DEF CallRecords
<1>2. ToSet(k.todo) \subseteq Ops
  BY <1>1 DEF ToSet
<1>3. QED
  BY <1>1, <1>2, HeadAndTail, NothingListed

LEMMA Renamed ==
  ASSUME NEW k \in CallRecords, NEW step \in Steps
  PROVE  LET c == [k EXCEPT !.step = step]
         IN  c \in CallRecords /\ c.step = step /\ c.op = k.op /\ c.todo = k.todo /\ c.flag = k.flag
BY DEF CallRecords

LEMMA GoesMoves ==
  ASSUME Stacked, NEW t \in Threads, ~Idle(t), NEW step \in Steps, Goes(t, step),
         step \in Bottoms => Top(t).step \in Bottoms
  PROVE  \E c \in CallRecords :
           /\ c.step = step /\ c.op = Top(t).op /\ c.todo = Top(t).todo /\ c.flag = Top(t).flag
           /\ Stacked' /\ Moves(t, {Top(t)}, {c}) /\ ~Idle(t)'
<1> DEFINE c == [Top(t) EXCEPT !.step = step]
<1>1. Top(t) \in CallRecords
  BY TopOfStack
<1>2. c \in CallRecords /\ c.step = step /\ c.op = Top(t).op /\ c.todo = Top(t).todo /\ c.flag = Top(t).flag
  BY <1>1, Renamed
<1>3. Becomes(t, c)
  BY DEF Goes
<1> HIDE DEF c
<1>4. Stacked' /\ Moves(t, {Top(t)}, {c}) /\ ~Idle(t)'
  BY <1>2, <1>3, BecomesMoves
<1>5. QED
  BY <1>2, <1>4

LEMMA NextOneMoves ==
  ASSUME Stacked, NEW t \in Threads, ~Idle(t), Top(t).todo # <<>>, NextOne(t)
  PROVE  \E c \in CallRecords :
           /\ c.step = "start" /\ c.todo = Tail(Top(t).todo)
           /\ Stacked' /\ Moves(t, {Top(t)}, {c}) /\ ~Idle(t)'
<1> DEFINE todo == Tail(Top(t).todo)
           c == [Top(t) EXCEPT !.step = "start", !.todo = todo]
<1>1. Top(t) \in CallRecords /\ todo \in Seq(Ops)
  BY TopOfStack, RecordOfCall
<1>2. "start" \in Steps /\ "start" \notin Bottoms
  BY DEF Steps, Bottoms
<1>3. Becomes(t, c)
  BY DEF NextOne
<1> HIDE DEF todo, c
<1>4. c \in CallRecords /\ c.step = "start" /\ c.todo = todo
  BY <1>1, <1>2 DEF CallRecords, c
<1>5. Stacked' /\ Moves(t, {Top(t)}, {c}) /\ ~Idle(t)'
  BY <1>2, <1>3, <1>4, BecomesMoves
<1>6. QED
  BY <1>4, <1>5 DEF todo

LEMMA TopCall ==
  ASSUME IInv, NEW t \in Threads, NEW step, At(t, step)
  PROVE  /\ Stacked /\ ~Idle(t) /\ Top(t) \in CallRecords /\ Top(t) \in CallsOf(t) /\ Top(t).step = step
         /\ Lasting(t, Top(t)) /\ Passing(t, Top(t)) /\ ShutdownOK(t, Top(t))
<1>1. Stacked /\ ~Idle(t) /\ Top(t).step = step
  BY DEF IInv, Types, Stacked, At
<1>2. Top(t) \in CallRecords /\ Top(t) \in CallsOf(t)
  BY <1>1, TopOfStack
<1>3. QED
  BY <1>1, <1>2 DEF IInv, Calling, Shutdowns

LEMMA EnterGateKeeps ==
  ASSUME IInv, NEW t \in Threads, EnterGate(t)
  PROVE  IInv'
<1> DEFINE k == Top(t)
<1>1. /\ Stacked /\ ~Idle(t) /\ k \in CallRecords /\ k.step = "start" /\ Lasting(t, k)
  BY TopCall DEF EnterGate
<1>2. SameData /\ concurrency' \in Concurrencies
  BY DEF EnterGate, SameData, lists, IInv, Types
<1>3. /\ \A o \in Ops : ~PerformedBy(t, {k}, o) /\ ~ToldBy({k}, o) /\ ~StoppedBy({k}, o)
      /\ \A o \in Ops : StartedBy({k}, o) => o \in ToSet(k.todo)
      /\ ~LooksBy({k})
      /\ \A o \in ToSet(k.todo) : Admitted(o)
  BY <1>1 DEF PerformedBy, ToldBy, Tells, StoppedBy, StartedBy, LooksBy, Looks, Lasting, Launches
<1>4. CASE k.todo = <<>>
  <2>1. Stacked' /\ Moves(t, {k}, {})
    BY <1>1, <1>4, ReturnsMoves DEF EnterGate
  <2>2. \A o \in Ops : ~StartedBy({k}, o)
    BY <1>3, <1>4, NothingListed
  <2>3. QED
    BY <1>1, <1>2, <1>3, <2>1, <2>2, QuietKeeps DEF InGate
<1>5. CASE k.todo # <<>> /\ shuttingDown
  <2>1. PICK c \in CallRecords : /\ c.step = "start" /\ c.todo = Tail(k.todo)
                                 /\ Stacked' /\ Moves(t, {k}, {c})
    BY <1>1, <1>5, NextOneMoves DEF EnterGate
  <2>2. ToSet(c.todo) \subseteq ToSet(k.todo)
    BY <1>1, <1>5, <2>1, RecordOfCall
  <2>3. Lasting(t, c) /\ Passing(t, c)
    BY <1>3, <2>1, <2>2 DEF Lasting, Passing, Launches, GateSteps, Tellings, Workings
  <2>4. \A o \in Ops : ~Awaited(o)
    BY <1>5 DEF Awaited
  <2>5. c.step \notin GateSteps
    BY <2>1 DEF GateSteps
  <2>6. QED
    BY <1>1, <1>2, <1>3, <2>1, <2>3, <2>4, <2>5, PlainKeeps
<1>6. CASE k.todo # <<>> /\ ~shuttingDown
  <2>1. GateIsFree(t) /\ Goes(t, "begin")
    BY <1>6 DEF EnterGate
  <2>2. "begin" \in Steps /\ "begin" \notin Bottoms
    BY DEF Steps, GateSteps, Bottoms
  <2>3. PICK c \in CallRecords : /\ c.step = "begin" /\ c.todo = k.todo
                                 /\ Stacked' /\ Moves(t, {k}, {c})
    BY <1>1, <2>1, <2>2, GoesMoves
  <2>4. Lasting(t, c) /\ Passing(t, c)
    BY <1>3, <1>6, <2>3 DEF Lasting, Passing, Launches, GateSteps, Tellings, Workings
  <2>5. \A o \in Ops : StartedBy({k}, o) => StartedBy({c}, o)
    BY <1>3, <2>3 DEF StartedBy, Launches, GateSteps
  <2>6. QED
    BY <1>1, <1>2, <1>3, <1>6, <2>1, <2>3, <2>4, <2>5, PlainKeeps
<1>7. QED
  BY <1>4, <1>5, <1>6

LEMMA StoppingCall ==
  ASSUME job \in [Ops -> [wasStarted : BOOLEAN, isRunning : BOOLEAN, isPaused : BOOLEAN,
                         isStopped : BOOLEAN, isCompleted : BOOLEAN, executionFinished : BOOLEAN]], NEW o \in Ops
  PROVE  /\ Stopping(o) \in CallRecords
         /\ Stopping(o).step = "stop" /\ Stopping(o).op = o /\ Stopping(o).flag = job[o].isRunning
<1>1. \A flag \in BOOLEAN : LET c == Call("stop", o, <<>>, flag)
                            IN  c \in CallRecords /\ c.step = "stop" /\ c.op = o /\ c.flag = flag
  <2>1. "stop" \in Steps /\ <<>> \in Seq(Ops)
    BY DEF Steps
  <2>2. QED
    BY <2>1 DEF Call, CallRecords
<1>2. job[o].isRunning \in BOOLEAN
  OBVIOUS
<1>3. QED
  BY <1>1, <1>2 DEF Stopping

LEMMA States ==
  ASSUME NEW o \in Ops
  PROVE  /\ State(o) = "Cold" => Cold(o)
         /\ ~job[o].isPaused /\ Over(o) => (State(o) \in {"Completed", "Stopped"} <=> ~job[o].isRunning)
         /\ State(o) \in {"Completed", "Stopped"} => ~job[o].isRunning /\ Over(o)
<1>1. CASE job[o].isPaused
  BY <1>1 DEF State
<1>2. CASE ~job[o].isPaused /\ job[o].isRunning
  BY <1>2 DEF State
<1>3. CASE ~job[o].isPaused /\ ~job[o].isRunning
  BY <1>3 DEF State, Cold, Over
<1>4. QED
  BY <1>1, <1>2, <1>3

LEMMA BeginStartKeeps ==
  ASSUME IInv, NEW t \in Threads, BeginStart(t)
  PROVE  IInv'
<1> DEFINE k == Top(t)
           o == Head(k.todo)
<1>1. /\ Stacked /\ ~Idle(t) /\ k \in CallRecords /\ k.step = "begin" /\ Lasting(t, k)
  BY TopCall DEF BeginStart
<1>2. SameData /\ concurrency' \in Concurrencies
  BY DEF BeginStart, SameData, lists, IInv, Types
<1>3. k.todo # <<>> /\ o \in Ops /\ ToSet(k.todo) = {o} \cup ToSet(Tail(k.todo)) /\ o = First(t)
  <2>1. k.todo # <<>>
    BY <1>1 DEF Lasting, GateSteps
  <2>2. QED
    BY <1>1, <2>1, RecordOfCall DEF First
<1>4. /\ \A x \in Ops : ~PerformedBy(t, {k}, x) /\ ~ToldBy({k}, x) /\ ~StoppedBy({k}, x)
      /\ \A x \in Ops : StartedBy({k}, x) => x \in ToSet(k.todo)
      /\ ~LooksBy({k}) /\ InGate({k})
      /\ \A x \in ToSet(k.todo) : Admitted(x)
  BY <1>1 DEF PerformedBy, ToldBy, Tells, StoppedBy, StartedBy, LooksBy, Looks, Lasting, Launches,
              GateSteps, InGate
<1> HIDE DEF k, o
<1>5. CASE job[o].wasStarted \/ job[o].isStopped
  <2>1. PICK c \in CallRecords : /\ c.step = "start" /\ c.todo = Tail(k.todo)
                                 /\ Stacked' /\ Moves(t, {k}, {c})
    BY <1>1, <1>3, <1>5, NextOneMoves DEF BeginStart, k
  <2>2. ToSet(c.todo) \subseteq ToSet(k.todo)
    BY <1>3, <2>1
  <2>3. Lasting(t, c) /\ Passing(t, c)
    BY <1>4, <2>1, <2>2 DEF Lasting, Passing, Launches, GateSteps, Tellings, Workings
  <2>4. ~Awaited(o)
    <3>1. JobOK(o)
      BY <1>3 DEF IInv, Jobs
    <3>2. QED
      BY <1>5, <3>1 DEF JobOK, Started, Over, Awaited, Cold
  <2>5. \A x \in Ops : StartedBy({k}, x) => StartedBy({c}, x) \/ ~Awaited(x)
    <3>1. c.step \in Launches
      BY <2>1 DEF Launches
    <3>2. QED
      BY <1>3, <1>4, <2>1, <2>4, <3>1 DEF StartedBy
  <2>6. c.step \notin GateSteps
    BY <2>1 DEF GateSteps
  <2>7. QED
    BY <1>1, <1>2, <1>4, <2>1, <2>3, <2>5, <2>6, PlainKeeps
<1>6. CASE ~(job[o].wasStarted \/ job[o].isStopped)
  <2>1. Goes(t, "record")
    BY <1>3, <1>6 DEF BeginStart
  <2>2. "record" \in Steps /\ "record" \notin Bottoms
    BY DEF Steps, GateSteps, Bottoms
  <2>3. PICK c \in CallRecords : /\ c.step = "record" /\ c.todo = k.todo
                                 /\ Stacked' /\ Moves(t, {k}, {c})
    BY <1>1, <2>1, <2>2, GoesMoves DEF k
  <2>4. Lasting(t, c) /\ Passing(t, c)
    BY <1>3, <1>4, <1>6, <2>3 DEF Lasting, Passing, Launches, GateSteps, Tellings, Workings, o
  <2>5. \A x \in Ops : StartedBy({k}, x) => StartedBy({c}, x)
    BY <1>4, <2>3 DEF StartedBy, Launches, GateSteps
  <2>6. QED
    BY <1>1, <1>2, <1>4, <2>3, <2>4, <2>5, PlainKeeps
<1>7. QED
  BY <1>5, <1>6

LEMMA ExecuteKeeps ==
  ASSUME IInv, NEW t \in Ops, Execute(t)
  PROVE  IInv'
<1> DEFINE k == Top(t)
<1>1. t \in Threads
  BY DEF Threads
<1>2. /\ Stacked /\ ~Idle(t) /\ k \in CallRecords /\ k.step = "execute" /\ Lasting(t, k) /\ Passing(t, k)
  BY <1>1, TopCall DEF Execute
<1>3. SameData /\ concurrency' \in Concurrencies
  BY DEF Execute, SameData, lists, IInv, Types
<1>4. "working" \in Steps /\ k.step \in Bottoms
  BY <1>2 DEF Steps, Bottoms
<1>5. PICK c \in CallRecords : c.step = "working" /\ c.op = k.op /\ Stacked' /\ Moves(t, {k}, {c})
  BY <1>1, <1>2, <1>4, GoesMoves DEF Execute
<1>6. Lasting(t, c) /\ Passing(t, c)
  BY <1>2, <1>5 DEF Lasting, Passing, Launches, GateSteps, Tellings, Workings
<1>7. /\ \A x \in Ops : PerformedBy(t, {k}, x) => PerformedBy(t, {c}, x)
      /\ \A x \in Ops : ~ToldBy({k}, x) /\ ~StartedBy({k}, x) /\ ~StoppedBy({k}, x)
      /\ ~LooksBy({k}) /\ ~InGate({c})
  BY <1>2, <1>5 DEF PerformedBy, ToldBy, Tells, StartedBy, StoppedBy, LooksBy, Looks, Launches,
                    GateSteps, InGate
<1>8. ~job[t].isStopped
  BY DEF Execute
<1> HIDE DEF k
<1> DEFINE new == {c}
<1>9. \A d \in new : Lasting(t, d) /\ Passing(t, d) /\ d.step = "working"
  BY <1>5, <1>6
<1>10. /\ \A d \in new : d.step # "finalizing" /\ d.step \notin {"close", "down"}
       /\ \A d \in new : d.step \notin {"gate", "close"} /\ d.step # "down"
  BY <1>9
<1>11. /\ Stacked' /\ Moves(t, {k}, new) /\ ~InGate(new)
       /\ \A x \in Ops : PerformedBy(t, {k}, x) => PerformedBy(t, new, x)
  BY <1>5, <1>7
<1> HIDE DEF new
<1>12. QED
  BY <1>1, <1>2, <1>3, <1>7, <1>8, <1>9, <1>10, <1>11, QuietKeeps

LEMMA BlockIfPausedKeeps ==
  ASSUME IInv, NEW t \in Ops, BlockIfPaused(t)
  PROVE  IInv'
<1> DEFINE k == Top(t)
<1>1. t \in Threads
  BY DEF Threads
<1>2. /\ Stacked /\ ~Idle(t) /\ k \in CallRecords /\ k.step = "working" /\ Lasting(t, k) /\ Passing(t, k)
      /\ k \in CallsOf(t)
  BY <1>1, TopCall DEF BlockIfPaused
<1>3. SameData /\ concurrency' \in Concurrencies
  BY DEF BlockIfPaused, SameData, lists, IInv, Types
<1>4. "last" \in Steps /\ k.step \in Bottoms
  BY <1>2 DEF Steps, Bottoms
<1>5. PICK c \in CallRecords : c.step = "last" /\ c.op = k.op /\ Stacked' /\ Moves(t, {k}, {c})
  BY <1>1, <1>2, <1>4, GoesMoves DEF BlockIfPaused
<1>6. Lasting(t, c) /\ Passing(t, c)
  BY <1>2, <1>5 DEF Lasting, Passing, Launches, GateSteps, Tellings, Workings
<1>7. /\ \A x \in Ops : PerformedBy(t, {k}, x) => PerformedBy(t, {c}, x)
      /\ \A x \in Ops : ~ToldBy({k}, x) /\ ~StartedBy({k}, x) /\ ~StoppedBy({k}, x)
      /\ ~LooksBy({k}) /\ ~InGate({c})
  BY <1>2, <1>5 DEF PerformedBy, ToldBy, Tells, StartedBy, StoppedBy, LooksBy, Looks, Launches,
                    GateSteps, InGate
<1>8. Working(t)
  BY <1>2 DEF Working
<1> HIDE DEF k
<1> DEFINE new == {c}
<1>9. \A d \in new : Lasting(t, d) /\ Passing(t, d) /\ d.step = "last"
  BY <1>5, <1>6
<1>10. /\ \A d \in new : d.step # "finalizing" /\ d.step \notin {"close", "down"}
       /\ \A d \in new : d.step \notin {"gate", "close"} /\ d.step # "down"
  BY <1>9
<1>11. /\ Stacked' /\ Moves(t, {k}, new) /\ ~InGate(new)
       /\ \A x \in Ops : PerformedBy(t, {k}, x) => PerformedBy(t, new, x)
  BY <1>5, <1>7
<1> HIDE DEF new
<1>12. QED
  BY <1>1, <1>2, <1>3, <1>7, <1>8, <1>9, <1>10, <1>11, QuietKeeps

LEMMA BeginStopKeeps ==
  ASSUME IInv, NEW t \in Stoppers, NEW o \in Ops, BeginStop(t, o)
  PROVE  IInv'
<1> DEFINE c == Stopping(o)
<1>1. t \in Threads /\ t \notin Ops /\ Stacked
  BY PoolAssumption DEF Threads, IInv, Types, Stacked
<1>2. SameData /\ concurrency' \in Concurrencies
  BY DEF BeginStop, SameData, lists, IInv, Types
<1>3. c \in CallRecords /\ c.step = "stop" /\ c.op = o /\ c.flag = job[o].isRunning
  BY StoppingCall DEF IInv, Types
<1>4. Enters(t, c)
  BY DEF BeginStop
<1> HIDE DEF c
<1>5. Stacked' /\ Moves(t, {}, {c})
  BY <1>1, <1>3, <1>4, EntersMoves
<1>6. Lasting(t, c) /\ Passing(t, c)
  BY <1>3 DEF Lasting, Passing, Launches, GateSteps, Tellings, Workings, Started
<1>7. /\ \A x \in Ops : ~PerformedBy(t, {}, x) /\ ~ToldBy({}, x) /\ ~StartedBy({}, x) /\ ~StoppedBy({}, x)
      /\ ~LooksBy({})
  BY DEF PerformedBy, ToldBy, Tells, StartedBy, StoppedBy, LooksBy
<1>8. c.step \notin GateSteps
  BY <1>3 DEF GateSteps
<1>9. QED
  BY <1>1, <1>2, <1>3, <1>5, <1>6, <1>7, <1>8, PlainKeeps

LEMMA RetryKeeps ==
  ASSUME IInv, NEW t \in Retriers, NEW o \in Ops, Retry(t, o)
  PROVE  IInv'
<1> DEFINE c == About("finalize", o)
<1>1. t \in Threads /\ t \notin Ops /\ Stacked
  BY PoolAssumption DEF Threads, IInv, Types, Stacked
<1>2. SameData /\ concurrency' \in Concurrencies
  BY DEF Retry, SameData, lists, IInv, Types
<1>3. c \in CallRecords /\ c.step = "finalize" /\ c.op = o
  <2>1. "finalize" \in Steps
    BY DEF Steps
  <2>2. QED
    BY <2>1, AboutCall
<1>4. Enters(t, c)
  BY DEF Retry
<1> HIDE DEF c
<1>5. Stacked' /\ Moves(t, {}, {c})
  BY <1>1, <1>3, <1>4, EntersMoves
<1>6. Settled(o)
  BY DEF Retry, Gone, IInv, Jobs, JobOK
<1>7. Lasting(t, c) /\ Passing(t, c)
  BY <1>3, <1>6 DEF Lasting, Passing, Launches, GateSteps, Tellings, Workings
<1>8. /\ \A x \in Ops : ~PerformedBy(t, {}, x) /\ ~ToldBy({}, x) /\ ~StartedBy({}, x) /\ ~StoppedBy({}, x)
      /\ ~LooksBy({})
  BY DEF PerformedBy, ToldBy, Tells, StartedBy, StoppedBy, LooksBy
<1>9. c.step \notin GateSteps
  BY <1>3 DEF GateSteps
<1>10. QED
  BY <1>1, <1>2, <1>3, <1>5, <1>7, <1>8, <1>9, PlainKeeps

LEMMA TellKeeps ==
  ASSUME IInv, NEW t \in Threads, Tell(t)
  PROVE  IInv'
<1> DEFINE k == Top(t)
           o == k.op
<1>1. /\ Stacked /\ ~Idle(t) /\ k \in CallRecords /\ k.step = "tell" /\ Lasting(t, k)
  BY TopCall DEF Tell
<1>2. SameData /\ concurrency' \in Concurrencies
  BY DEF Tell, SameData, lists, IInv, Types
<1>3. o \in Ops /\ Over(o) /\ ~job[o].isPaused
  BY <1>1 DEF Lasting, Stopped, Resumed, Over
<1>4. /\ \A x \in Ops : ~PerformedBy(t, {k}, x) /\ ~StartedBy({k}, x) /\ ~StoppedBy({k}, x)
      /\ \A x \in Ops : ToldBy({k}, x) => x = o
      /\ ~LooksBy({k})
  BY <1>1 DEF PerformedBy, ToldBy, Tells, StoppedBy, StartedBy, LooksBy, Looks, Launches, GateSteps
<1>5. State(o) \in {"Completed", "Stopped"} <=> ~job[o].isRunning
  BY <1>3, States
<1>6. CASE job[o].isRunning
  <2>1. Returns(t)
    BY <1>5, <1>6 DEF Tell
  <2>2. Stacked' /\ Moves(t, {k}, {})
    BY <1>1, <2>1, ReturnsMoves
  <2>3. \A x \in Ops : ToldBy({k}, x) => ~Finished(x)
    BY <1>4, <1>6 DEF Finished
  <2> HIDE DEF k
  <2>4. QED
    BY <1>1, <1>2, <1>4, <2>2, <2>3, QuietKeeps DEF InGate
<1>7. CASE ~job[o].isRunning
  <2> DEFINE c == About("finish", o)
  <2>1. Becomes(t, c)
    BY <1>5, <1>7 DEF Tell
  <2>2. "finish" \in Steps /\ "finish" \notin Bottoms
    BY DEF Steps, Bottoms
  <2> HIDE DEF o
  <2>3. c \in CallRecords /\ c.step = "finish" /\ c.op = o
    BY <1>3, <2>2, AboutCall
  <2> HIDE DEF c
  <2>4. Stacked' /\ Moves(t, {k}, {c})
    BY <1>1, <2>1, <2>2, <2>3, BecomesMoves
  <2>5. Settled(o)
    BY <1>3, <1>7 DEF Settled
  <2>6. Lasting(t, c) /\ Passing(t, c)
    BY <1>3, <2>3, <2>5 DEF Lasting, Passing, Launches, GateSteps, Tellings, Workings
  <2>7. \A x \in Ops : ToldBy({k}, x) => ToldBy({c}, x)
    BY <1>4, <2>3 DEF ToldBy, Tells
  <2>8. c.step \notin GateSteps
    BY <2>3 DEF GateSteps
  <2> HIDE DEF k
  <2>9. QED
    BY <1>1, <1>2, <1>4, <2>3, <2>4, <2>6, <2>7, <2>8, PlainKeeps
<1>8. QED
  BY <1>6, <1>7


(* What a call that shuts down is, and that it is not in anybody's way. *)
LEMMA ClosingCall ==
  ASSUME NEW t, NEW k, k.step \in {"gate", "close"}
  PROVE  /\ \A x \in Ops : ~PerformedBy(t, {k}, x) /\ ~ToldBy({k}, x) /\ ~StartedBy({k}, x) /\ ~StoppedBy({k}, x)
         /\ ~LooksBy({k}) /\ ~InGate({k}) /\ k.step \in Bottoms
BY DEF PerformedBy, ToldBy, Tells, StartedBy, StoppedBy, LooksBy, Looks, Launches, GateSteps, InGate, Bottoms

LEMMA ClosingKeeps ==
  ASSUME IInv, SameData, concurrency' \in Concurrencies, Stacked',
         NEW t \in Threads, ~Idle(t), NEW k, k.step \in {"gate", "close"}, NEW new, Moves(t, {k}, new),
         shuttingDown, \A u \in Threads : ~HoldsGate(u),
         \A c \in new : \/ c.step = "close" /\ \A o \in Ops : Unstopped(o) => o \in ToSet(c.todo) \/ StoppedBy(new, o)
                        \/ c.step = "stop" /\ Lasting(t, c)
                        \/ /\ c.step = "down"
                           /\ \A o \in Ops : ~Unstopped(o)
                           /\ \A o \in ToSet(snapshot) : job[o].wasStarted => job[o].executionFinished
  PROVE  IInv'
<1>1. ~InGate(new)
  BY DEF InGate, GateSteps
<1>2. \A u \in Threads : ~HoldsGate(u)'
  BY <1>1, NoGateKept
<1>3. \A c \in new : Lasting(t, c) /\ Passing(t, c) /\ c.step # "finalizing" /\ c.step \notin {"working", "last"}
  BY DEF Lasting, Passing, Launches, GateSteps, Tellings, Workings
<1>4. \A c \in new : c.step \in {"gate", "close"} =>
        \A o \in Ops : Unstopped(o) => o \in ToSet(c.todo) \/ StoppedBy(new, o)
  OBVIOUS
<1>5. \A c \in new : c.step = "down" =>
           /\ \A o \in Ops : ~Unstopped(o)
           /\ \A o \in ToSet(snapshot) : job[o].wasStarted => job[o].executionFinished
  OBVIOUS
<1>6. \A c \in new : c.step \in {"close", "down"} => \A u \in Threads : ~HoldsGate(u)'
  BY <1>2
<1>7. \A c \in new : c.step \in {"working", "last"} => ~job[t].isStopped \/ Working(t)
  BY <1>3
<1> DEFINE old == {k}
<1>8. /\ \A x \in Ops : ~PerformedBy(t, old, x) /\ ~ToldBy(old, x) /\ ~StartedBy(old, x) /\ ~StoppedBy(old, x)
      /\ ~LooksBy(old)
  <2>1. /\ \A x \in Ops : ~PerformedBy(t, {k}, x) /\ ~ToldBy({k}, x) /\ ~StartedBy({k}, x) /\ ~StoppedBy({k}, x)
        /\ ~LooksBy({k})
    <3>1. k.step \in {"gate", "close"}
      OBVIOUS
    <3>2. ~LooksBy({k})
      BY <3>1 DEF LooksBy, Looks
    <3>3. \A x \in Ops : ~PerformedBy(t, {k}, x) /\ ~ToldBy({k}, x)
      BY <3>1 DEF PerformedBy, ToldBy, Tells
    <3>4. \A x \in Ops : ~StartedBy({k}, x) /\ ~StoppedBy({k}, x)
      BY <3>1 DEF StartedBy, StoppedBy, Launches, GateSteps
    <3>5. QED
      BY <3>2, <3>3, <3>4
  <2>2. QED
    BY <2>1
<1>9. Moves(t, old, new)
  OBVIOUS
<1> HIDE DEF old
<1>10. QED
  BY <1>1, <1>3, <1>4, <1>5, <1>6, <1>7, <1>8, <1>9, QuietKeeps

LEMMA AlreadyStopped ==
  ASSUME IInv, NEW t \in Threads, NEW step \in {"gate", "close"}, At(t, step)
  PROVE  /\ \A o \in Ops : Unstopped(o) => o \in ToSet(Top(t).todo)
         /\ step = "close" => \A u \in Threads : ~HoldsGate(u)
         /\ ~HoldsGate(t) /\ shuttingDown
<1> DEFINE k == Top(t)
<1>1. /\ Stacked /\ ~Idle(t) /\ k \in CallRecords /\ k.step = step /\ Lasting(t, k) /\ ShutdownOK(t, k)
  BY TopCall
<1>2. CallsOf(t) = {k}
  <2>1. k.step \in Bottoms
    BY <1>1 DEF Bottoms
  <2>2. QED
    BY <1>1, <2>1, TopOfStack
<1>3. ~HoldsGate(t)
  BY <1>1, <1>2, GateHeld DEF GateSteps
<1>4. \A o \in Ops : Unstopped(o) => o \in ToSet(k.todo) \/ StoppedBy({k}, o)
  BY <1>1, <1>2 DEF ShutdownOK, Unstopped
<1>5. \A o \in Ops : ~StoppedBy({k}, o)
  BY <1>1, ClosingCall
<1>6. shuttingDown /\ (step = "close" => \A u \in Threads : ~HoldsGate(u))
  BY <1>1 DEF Lasting, ShutdownOK
<1>7. QED
  BY <1>3, <1>4, <1>5, <1>6

LEMMA PassGateKeeps ==
  ASSUME IInv, NEW t \in Threads, PassGate(t)
  PROVE  IInv'
<1> DEFINE k == Top(t)
<1>1. At(t, "gate") /\ GateIsFree(t) /\ Goes(t, "close")
  BY DEF PassGate
<1>2. SameData /\ concurrency' \in Concurrencies
  BY DEF PassGate, SameData, lists, IInv, Types
<1>3. /\ Stacked /\ ~Idle(t) /\ k \in CallRecords /\ k.step = "gate"
  BY <1>1, TopCall
<1>4. /\ \A o \in Ops : Unstopped(o) => o \in ToSet(k.todo)
      /\ ~HoldsGate(t) /\ shuttingDown
  BY <1>1, AlreadyStopped
<1>5. "close" \in Steps /\ k.step \in Bottoms
  BY <1>3 DEF Steps, Bottoms
<1>6. PICK c \in CallRecords : c.step = "close" /\ c.todo = k.todo /\ Stacked' /\ Moves(t, {k}, {c})
  BY <1>1, <1>3, <1>5, GoesMoves
<1>7. \A u \in Threads : ~HoldsGate(u)
  BY <1>1, <1>4 DEF GateIsFree
<1> HIDE DEF k
<1>8. QED
  BY <1>2, <1>3, <1>4, <1>6, <1>7, ClosingKeeps

LEMMA StopNextKeeps ==
  ASSUME IInv, NEW t \in Threads, StopNext(t)
  PROVE  IInv'
<1> DEFINE k == Top(t)
           o == Head(k.todo)
           rest == Tail(k.todo)
           a == [k EXCEPT !.todo = rest]
           d == Stopping(o)
<1>1. At(t, "close") /\ k.todo # <<>> /\ Calls(t, a, d)
  BY DEF StopNext, First
<1>2. SameData /\ concurrency' \in Concurrencies
  BY DEF StopNext, SameData, lists, IInv, Types
<1>3. /\ Stacked /\ ~Idle(t) /\ k \in CallRecords /\ k.step = "close"
  BY <1>1, TopCall
<1>4. /\ \A x \in Ops : Unstopped(x) => x \in ToSet(k.todo)
      /\ shuttingDown /\ \A u \in Threads : ~HoldsGate(u)
  BY <1>1, AlreadyStopped
<1> HIDE DEF k, a, d, o, rest
<1>5. o \in Ops /\ rest \in Seq(Ops) /\ ToSet(k.todo) = {o} \cup ToSet(rest)
  BY <1>1, <1>3, RecordOfCall DEF o, rest
<1>6. a \in CallRecords /\ a.step = "close" /\ a.todo = rest
  BY <1>3, <1>5 DEF CallRecords, a
<1>7. d \in CallRecords /\ d.step = "stop" /\ d.op = o /\ d.flag = job[o].isRunning
  BY <1>5, StoppingCall DEF d, IInv, Types
<1>8. Stacked' /\ Moves(t, {k}, {a, d})
  <2>1. a.step \in Callers /\ d.step \notin Bottoms
    BY <1>6, <1>7 DEF Callers, Bottoms
  <2>2. k.step \in Bottoms
    BY <1>3 DEF Bottoms
  <2>3. QED
    BY <1>1, <1>3, <1>6, <1>7, <2>1, <2>2, CallsMoves DEF k
<1>9. Lasting(t, d)
  BY <1>5, <1>7 DEF Lasting, Launches, GateSteps, Tellings, Workings, Started
<1> DEFINE new == {a, d}
<1>10. \A x \in Ops : Unstopped(x) => x \in ToSet(a.todo) \/ StoppedBy(new, x)
  BY <1>4, <1>5, <1>6, <1>7 DEF StoppedBy
<1>11. \A c \in new : c = a \/ c = d
  OBVIOUS
<1>12. Moves(t, {k}, new)
  BY <1>8
<1> HIDE DEF new
<1>13. QED
  BY <1>2, <1>3, <1>4, <1>6, <1>7, <1>8, <1>9, <1>10, <1>11, <1>12, ClosingKeeps

LEMMA WaitForAllKeeps ==
  ASSUME IInv, NEW t \in Threads, WaitForAll(t)
  PROVE  IInv'
<1> DEFINE k == Top(t)
<1>1. At(t, "close") /\ k.todo = <<>> /\ Goes(t, "down") /\ \A o \in ToSet(snapshot) : WaitReturns(o)
  BY DEF WaitForAll
<1>2. SameData /\ concurrency' \in Concurrencies
  BY DEF WaitForAll, SameData, lists, IInv, Types
<1>3. /\ Stacked /\ ~Idle(t) /\ k \in CallRecords /\ k.step = "close"
  BY <1>1, TopCall
<1>4. /\ \A o \in Ops : Unstopped(o) => o \in ToSet(k.todo)
      /\ shuttingDown /\ \A u \in Threads : ~HoldsGate(u)
  BY <1>1, AlreadyStopped
<1>5. "down" \in Steps /\ k.step \in Bottoms
  BY <1>3 DEF Steps, Bottoms
<1>6. PICK c \in CallRecords : c.step = "down" /\ Stacked' /\ Moves(t, {k}, {c})
  BY <1>1, <1>3, <1>5, GoesMoves
<1>7. \A o \in Ops : ~Unstopped(o)
  BY <1>1, <1>4, NothingListed
<1>8. \A o \in ToSet(snapshot) : job[o].wasStarted => job[o].executionFinished
  BY <1>1 DEF WaitReturns
<1> HIDE DEF k
<1>9. QED
  BY <1>2, <1>3, <1>4, <1>6, <1>7, <1>8, ClosingKeeps

(* A call about finalizing returns, or goes on to start others. *)
LEMMA FinalizeCall ==
  ASSUME NEW t, NEW k, k.step \in {"finalize", "finalizing", "gather"}
  PROVE  /\ \A x \in Ops : ~PerformedBy(t, {k}, x) /\ ~ToldBy({k}, x) /\ ~StartedBy({k}, x) /\ ~StoppedBy({k}, x)
         /\ ~InGate({k}) /\ k.step \notin Bottoms
         /\ LooksBy({k}) => k.step = "gather" \/ (k.flag /\ k.op \in ToSet(finalizing))
BY DEF PerformedBy, ToldBy, Tells, StartedBy, StoppedBy, LooksBy, Looks, Launches, GateSteps, InGate, Bottoms

(* A call that is left for another one is not on the stack any more. *)
LEMMA LeftBehind ==
  ASSUME Stacked', NEW t \in Threads, NEW c \in CallsOf(t)', NEW k, k # c, c.step \notin Callers, k.step \notin Callers
  PROVE  k \notin CallsOf(t)'
<1> SUFFICES ASSUME k \in CallsOf(t)' PROVE FALSE
  OBVIOUS
<1> DEFINE s == stack'[t]
<1>1. Shaped(s)
  BY DEF Stacked, Stacks
<1>2. PICK i \in DOMAIN s : s[i] = c
  BY DEF CallsOf, ToSet
<1>3. PICK j \in DOMAIN s : s[j] = k
  BY DEF CallsOf, ToSet
<1>4. i = 1 /\ j = 1
  BY <1>1, <1>2, <1>3 DEF Shaped
<1>5. QED
  BY <1>2, <1>3, <1>4

(* Where StartOthers leads. *)
LEMMA StartOthersMoves ==
  ASSUME Stacked, NEW t \in Threads, ~Idle(t), StartOthers(t), Top(t).step \in {"finalize", "finalizing"}
  PROVE  \E new \in SUBSET CallRecords :
           /\ Stacked' /\ Moves(t, {Top(t)}, new)
           /\ \A c \in new : c.step = "gather" /\ Lasting(t, c) /\ Passing(t, c)
           /\ \A c \in new : Lasting(t, c)' /\ Passing(t, c)'
           /\ \A x \in Ops : ~StoppedBy(new, x)
           /\ Top(t).flag => \E c \in new : c.step = "gather"
           /\ Top(t) \notin CallsOf(t)'
<1> DEFINE g == StartPending
<1>1. g \in CallRecords /\ g.step = "gather"
  BY AboutCall DEF StartPending, Steps
<1> HIDE DEF g
<1>2. Lasting(t, g) /\ Passing(t, g) /\ Lasting(t, g)' /\ Passing(t, g)'
  BY <1>1 DEF Lasting, Passing, Launches, GateSteps, Tellings, Workings
<1>3. CASE Top(t).flag
  <2>1. Becomes(t, g)
    BY <1>3 DEF StartOthers, g
  <2>2. Stacked' /\ Moves(t, {Top(t)}, {g})
    <3>1. g.step \notin Bottoms
      BY <1>1 DEF Bottoms
    <3>2. QED
      BY <1>1, <2>1, <3>1, BecomesMoves
  <2>3. \A x \in Ops : ~StoppedBy({g}, x)
    BY <1>1 DEF StoppedBy
  <2>4. Top(t) \notin CallsOf(t)'
    BY <1>1, <2>2, LeftBehind DEF Moves, Callers
  <2>5. QED
    BY <1>1, <1>2, <2>2, <2>3, <2>4
<1>4. CASE ~Top(t).flag
  <2>1. Stacked' /\ Moves(t, {Top(t)}, {})
    BY <1>4, ReturnsMoves DEF StartOthers
  <2>4. Top(t) \notin CallsOf(t)'
    <3>1. CallsOf(t)' = ToSet(Tail(stack[t]))
      BY <1>4 DEF StartOthers, Returns, CallsOf, Stacked
    <3>2. QED
      BY <3>1, TopOfStack DEF Callers
  <2>2. \A x \in Ops : ~StoppedBy({}, x)
    BY DEF StoppedBy
  <2>3. QED
    BY <1>4, <2>1, <2>2, <2>4
<1>5. QED
  BY <1>3, <1>4

LEMMA RetryReturnsKeeps ==
  ASSUME IInv, NEW t \in Threads, RetryFinalization(t), UNCHANGED inProgress,
         Top(t).op \notin ToSet(finalizing) \/ Top(t).op \in inProgress
  PROVE  IInv'
<1> DEFINE k == Top(t)
<1>1. /\ Stacked /\ ~Idle(t) /\ k \in CallRecords /\ k.step = "finalize"
  BY TopCall DEF RetryFinalization
<1>2. SameData /\ concurrency' \in Concurrencies
  BY DEF RetryFinalization, SameData, lists, IInv, Types
<1>3. PICK new \in SUBSET CallRecords :
        /\ Stacked' /\ Moves(t, {k}, new)
        /\ \A c \in new : c.step = "gather" /\ Lasting(t, c) /\ Passing(t, c)
        /\ LooksBy({k}) => \E c \in new : c.step = "gather"
  <2>1. CASE k.op \notin ToSet(finalizing)
    <3>1. Returns(t)
      BY <2>1 DEF RetryFinalization
    <3>2. Stacked' /\ Moves(t, {k}, {})
      BY <1>1, <3>1, ReturnsMoves
    <3>3. ~LooksBy({k})
      BY <1>1, <2>1 DEF LooksBy, Looks
    <3>4. QED
      BY <3>2, <3>3
  <2>2. CASE k.op \in ToSet(finalizing)
    <3>1. StartOthers(t)
      BY <2>2 DEF RetryFinalization
    <3>2. LooksBy({k}) => k.flag
      BY <1>1 DEF LooksBy, Looks
    <3>3. QED
      BY <1>1, <3>1, <3>2, StartOthersMoves
  <2>3. QED
    BY <2>1, <2>2
<1> HIDE DEF k
<1>4. ~InGate(new)
  BY <1>3 DEF InGate, GateSteps
<1>5. LooksBy({k}) => LooksBy(new)
  BY <1>3 DEF LooksBy, Looks
<1>6. /\ \A c \in new : Lasting(t, c) /\ Passing(t, c) /\ c.step # "finalizing"
      /\ \A c \in new : c.step \notin {"working", "last"} /\ c.step \notin {"gate", "close"}
      /\ \A c \in new : c.step \notin {"close", "down"} /\ c.step # "down"
  BY <1>3
<1> DEFINE old == {k}
<1>7. /\ \A x \in Ops : ~PerformedBy(t, old, x) /\ ~ToldBy(old, x) /\ ~StartedBy(old, x) /\ ~StoppedBy(old, x)
      /\ LooksBy(old) => LooksBy(new)
  BY <1>1, <1>5, FinalizeCall
<1>8. Moves(t, old, new)
  BY <1>3
<1> HIDE DEF old
<1>9. QED
  BY <1>1, <1>2, <1>3, <1>4, <1>6, <1>7, <1>8, QuietKeeps

-----------------------------------------------------------------------------
(* Steps that change no call.                                                 *)

Flags == [wasStarted : BOOLEAN, isRunning : BOOLEAN, isPaused : BOOLEAN,
          isStopped : BOOLEAN, isCompleted : BOOLEAN, executionFinished : BOOLEAN]

(* Whether a job is paused matters once it is over only.                      *)
LEMMA StillKeeps ==
  ASSUME IInv, concurrency' \in Concurrencies, stack' = stack,
         UNCHANGED <<pending, running, finalizing, inProgress, shuttingDown, snapshot, released, untold>>,
         job' \in [Ops -> Flags],
         \A o \in Ops : /\ job'[o].wasStarted = job[o].wasStarted
                        /\ job'[o].isRunning = job[o].isRunning
                        /\ job'[o].isStopped = job[o].isStopped
                        /\ job'[o].isCompleted = job[o].isCompleted
                        /\ job'[o].executionFinished = job[o].executionFinished
                        /\ job'[o].isPaused => job[o].isPaused \/ ~Over(o)
  PROVE  IInv'
<1>1. /\ pending' = pending /\ running' = running /\ finalizing' = finalizing /\ inProgress' = inProgress
      /\ shuttingDown' = shuttingDown /\ snapshot' = snapshot /\ released' = released /\ untold' = untold
      /\ stack' = stack /\ concurrency' \in Concurrencies
  OBVIOUS
<1>2. Types /\ Lists /\ Stacks /\ Gate /\ Jobs /\ Calling /\ Alone /\ Releases /\ Live /\ Wakeful /\ Shutdowns
  BY DEF IInv
<1>3. /\ \A t \in Threads : CallsOf(t)' = CallsOf(t) /\ (HoldsGate(t)' <=> HoldsGate(t)) /\ (Idle(t)' <=> Idle(t))
      /\ \A o \in Ops : o \in Threads
  BY <1>1 DEF CallsOf, HoldsGate, Idle, Threads
<1>4. \A o \in Ops : /\ Over(o)' <=> Over(o)
                     /\ Started(o)' <=> Started(o)
                     /\ Cold(o)' <=> Cold(o)
                     /\ Listed(o)' <=> Listed(o)
                     /\ Finished(o)' <=> Finished(o)
                     /\ Awaited(o)' <=> Awaited(o)
                     /\ Admitted(o)' <=> Admitted(o)
                     /\ Ended(o)' <=> Ended(o)
                     /\ Stopped(o)' <=> Stopped(o)
                     /\ Gone(o)' <=> Gone(o)
  BY <1>1 DEF Over, Started, Cold, Listed, Finished, Active, Awaited, Unstopped, Admitted, Ended,
              Gone, Stopped
<1>5. \A o \in Ops : /\ Idle(o)' <=> Idle(o)
                     /\ Settled(o)' <=> Settled(o)
                     /\ Resumed(o) => Resumed(o)'
  <2>1. \A o \in Ops : Working(o)' <=> Working(o)
    BY <1>3 DEF Working
  <2>2. \A o \in Ops : Settled(o)' <=> Settled(o)
    BY <1>4, <2>1 DEF Settled
  <2>3. \A o \in Ops : Resumed(o) => Resumed(o)'
    BY DEF Resumed, Over
  <2>4. QED
    BY <1>3, <2>2, <2>3
<1>6. Grows
  BY <1>1, <1>4, <1>5 DEF Grows
<1>7. Types' /\ Lists' /\ Stacks' /\ Releases'
  <2>1. Types'
    BY <1>1, <1>2 DEF Types, Flags
  <2>2. Lists' /\ Stacks'
    BY <1>1, <1>2 DEF Lists, Apart, Stacks
  <2>3. Releases'
    BY <1>1, <1>2, <1>4 DEF Releases
  <2>4. QED
    BY <2>1, <2>2, <2>3
<1>8. Gate' /\ Alone'
  BY <1>2, <1>3 DEF Gate, Alone
<1>9. Jobs'
  <2> SUFFICES ASSUME NEW o \in Ops PROVE JobOK(o)'
    BY DEF Jobs
  <2>1. JobOK(o)
    BY <1>2 DEF Jobs
  <2>2. job'[o].isCompleted => ~job'[o].isPaused
    BY <2>1 DEF JobOK, Over
  <2>3. QED
    BY <1>1, <1>4, <1>5, <2>1, <2>2 DEF JobOK
<1>10. Calling'
  <2> SUFFICES ASSUME NEW t \in Threads, NEW c \in CallsOf(t) PROVE Lasting(t, c)' /\ Passing(t, c)'
    BY <1>3 DEF Calling
  <2>1. Lasting(t, c) /\ Passing(t, c) /\ c \in CallRecords
    BY <1>2, CallsAreRecords DEF Calling, Stacked, Types
  <2>2. c.step \in {"record", "launch"} => Head(c.todo) \in Ops
    BY <2>1, RecordOfCall DEF Lasting, GateSteps
  <2>3. c.step \in {"execute", "working", "last"} => t \in Ops
    BY <2>1 DEF Lasting, Workings
  <2>4. Passing(t, c)'
    BY <1>1, <1>5, <2>1, <2>2, <2>3 DEF Passing
  <2>5. QED
    BY <1>6, <2>1, <2>4, LastingKept
<1>11. Live'
  <2> SUFFICES ASSUME NEW o \in Ops PROVE InHand(o)'
    BY DEF Live
  <2>1. /\ Performed(o)' <=> Performed(o)
        /\ Told(o)' <=> Told(o)
        /\ Starting(o)' <=> Starting(o)
    BY <1>3 DEF Performed, Told, Starting
  <2>2. InHand(o)
    BY <1>2 DEF Live
  <2>3. QED
    BY <1>1, <1>4, <2>1, <2>2 DEF InHand
<1>12. Wakeful'
  <2>1. Starved' <=> Starved
    BY <1>1 DEF Starved
  <2>2. \A t \in Threads : LooksBy(CallsOf(t))' <=> LooksBy(CallsOf(t))
    BY <1>1, <1>3 DEF LooksBy, Looks
  <2>3. QED
    BY <1>2, <2>1, <2>2 DEF Wakeful
<1>13. Shutdowns'
  <2>1. shuttingDown' => \A o \in Ops : Listed(o)' => o \in ToSet(snapshot)'
    BY <1>1, <1>2, <1>4 DEF Shutdowns
  <2> SUFFICES ASSUME NEW t \in Threads, NEW c \in CallsOf(t) PROVE ShutdownOK(t, c)'
    BY <1>3, <2>1 DEF Shutdowns
  <2>2. ShutdownOK(t, c)
    BY <1>2 DEF Shutdowns
  <2>3. ToSet(snapshot) \subseteq Ops
    BY <1>2 DEF Types, ToSet
  <2>4. \A o \in ToSet(snapshot) : /\ job'[o].wasStarted = job[o].wasStarted
                                   /\ job'[o].executionFinished = job[o].executionFinished
    BY <2>3
  <2>5. QED
    BY <1>1, <1>3, <1>4, <2>2, <2>4 DEF ShutdownOK
<1>14. QED
  BY <1>7, <1>8, <1>9, <1>10, <1>11, <1>12, <1>13 DEF IInv

LEMMA SetConcurrencyKeeps ==
  ASSUME IInv, NEW n \in Limits, SetConcurrency(n)
  PROVE  IInv'
<1>1. UNCHANGED <<pending, running, finalizing, inProgress, shuttingDown, snapshot, job, stack, released, untold>>
  BY DEF SetConcurrency, lists
<1>2. concurrency' \in Concurrencies
  BY DEF SetConcurrency, Concurrencies
<1>3. job \in [Ops -> Flags]
  BY DEF IInv, Types, Flags
<1>4. QED
  BY <1>1, <1>2, <1>3, StillKeeps

LEMMA PauseKeeps ==
  ASSUME IInv, NEW o \in Ops, Pause(o) \/ Resume(o)
  PROVE  IInv'
<1>1. /\ UNCHANGED <<pending, running, finalizing, inProgress, shuttingDown, snapshot, released, untold>>
      /\ concurrency' \in Concurrencies /\ stack' = stack
  BY DEF Pause, Resume, lists, IInv, Types
<1>2. job \in [Ops -> Flags]
  BY DEF IInv, Types, Flags
<1>3. PICK p \in BOOLEAN : job' = [job EXCEPT ![o].isPaused = p] /\ (p => ~Over(o))
  BY DEF Pause, Resume, Over
<1> DEFINE j == [job[o] EXCEPT !.isPaused = p]
<1>4. job' = [job EXCEPT ![o] = j]
  BY <1>2, <1>3 DEF Flags
<1>5. /\ j \in Flags /\ j.wasStarted = job[o].wasStarted /\ j.isRunning = job[o].isRunning
      /\ j.isStopped = job[o].isStopped /\ j.isCompleted = job[o].isCompleted
      /\ j.executionFinished = job[o].executionFinished /\ (j.isPaused => ~Over(o))
  BY <1>2, <1>3 DEF Flags
<1> HIDE DEF j
<1>6. /\ job' \in [Ops -> Flags] /\ job'[o] = j
      /\ \A x \in Ops : x # o => job'[x] = job[x]
  BY <1>2, <1>4, <1>5
<1>7. \A x \in Ops : /\ job'[x].wasStarted = job[x].wasStarted
                     /\ job'[x].isRunning = job[x].isRunning
                     /\ job'[x].isStopped = job[x].isStopped
                     /\ job'[x].isCompleted = job[x].isCompleted
                     /\ job'[x].executionFinished = job[x].executionFinished
                     /\ job'[x].isPaused => job[x].isPaused \/ ~Over(x)
  <2> SUFFICES ASSUME NEW x \in Ops
               PROVE  /\ job'[x].wasStarted = job[x].wasStarted
                      /\ job'[x].isRunning = job[x].isRunning
                      /\ job'[x].isStopped = job[x].isStopped
                      /\ job'[x].isCompleted = job[x].isCompleted
                      /\ job'[x].executionFinished = job[x].executionFinished
                      /\ job'[x].isPaused => job[x].isPaused \/ ~Over(x)
    OBVIOUS
  <2>1. CASE x = o
    BY <1>5, <1>6, <2>1
  <2>2. CASE x # o
    BY <1>6, <2>2
  <2>3. QED
    BY <2>1, <2>2
<1>8. QED
  BY <1>1, <1>6, <1>7, StillKeeps

-----------------------------------------------------------------------------
(* Steps that change what a job is.                                           *)

SameLists == UNCHANGED <<pending, running, finalizing, inProgress, shuttingDown, snapshot, released>>

LEMMA JobStepKeeps ==
  ASSUME IInv, Stacked', SameLists, concurrency' \in Concurrencies,
         NEW o \in Ops, job' \in [Ops -> Flags], \A x \in Ops : x # o => job'[x] = job[x],
         untold' = untold \/ untold' = untold \cup {o},
         NEW t \in Threads, NEW old, NEW new, Moves(t, old, new), t \in Ops => ~Idle(t),
         InGate(new) => InGate(old),
         \A c \in new : /\ Lasting(t, c)' /\ Passing(t, c)'
                        /\ c.step \notin {"finalizing", "working", "last", "gate", "close", "down"},
         Over(o) => Over(o)', Settled(o) => Settled(o)', Started(o) => Started(o)', Ended(o) => Ended(o)',
         Stopped(o) => Stopped(o)', Resumed(o) => Resumed(o)',
         job'[o].wasStarted => job[o].wasStarted \/ InGate(old),
         job[o].executionFinished => job'[o].executionFinished,
         JobOK(o)',
         \A u \in Threads : \A c \in CallsOf(u) :
           \/ u = t /\ c \in old /\ c \notin CallsOf(u)'
           \/ /\ c.step = "record" /\ Head(c.todo) = o /\ ~job[o].wasStarted => ~job'[o].wasStarted
              /\ c.step = "launch" /\ Head(c.todo) = o => job'[o].isRunning
              /\ u = o /\ c.step \in {"execute", "working", "last"} => job'[o].isRunning,
         \A x \in Ops : job'[x].isRunning => PerformedBy(t, new, x) \/ (job[x].isRunning /\ ~PerformedBy(t, old, x)),
         \A x \in Ops : Finished(x)' => ToldBy(new, x) \/ (Finished(x) /\ ~ToldBy(old, x)),
         \A x \in Ops : StartedBy(old, x) => StartedBy(new, x) \/ ~Awaited(x)',
         ~LooksBy(old),
         \A x \in Ops : StoppedBy(old, x) => ~Unstopped(x)'
  PROVE  IInv'
<1>1. /\ pending' = pending /\ running' = running /\ finalizing' = finalizing /\ inProgress' = inProgress
      /\ shuttingDown' = shuttingDown /\ snapshot' = snapshot /\ released' = released
  BY DEF SameLists
<1>2. Types /\ Lists /\ Stacks /\ Gate /\ Jobs /\ Calling /\ Alone /\ Releases /\ Live /\ Wakeful /\ Shutdowns
  BY DEF IInv
<1>3. Stacked
  BY <1>2 DEF Stacked, Types
<1>4. job' \in [Ops -> Flags] /\ \A x \in Ops : x # o => job'[x] = job[x]
  OBVIOUS
<1>5. Types'
  <2>1. untold' \subseteq Ops
    BY <1>2 DEF Types
  <2>2. QED
    BY <1>1, <1>2, <1>4, <2>1 DEF Types, Stacked, Flags
<1>6. Lists'
  BY <1>1, <1>2 DEF Lists, Apart
<1>7. \A x \in Ops : Idle(x) => Idle(x)'
  BY IdleKept
<1>8. \A x \in Ops : (Listed(x)' <=> Listed(x)) /\ (Admitted(x)' <=> Admitted(x)) /\ (Gone(x)' <=> Gone(x))
  BY <1>1 DEF Listed, Admitted, Gone
<1>9. Grows
  <2> SUFFICES ASSUME NEW x \in Ops
               PROVE  /\ Over(x) => Over(x)'
                      /\ Settled(x) => Settled(x)'
                      /\ Started(x) => Started(x)'
                      /\ Ended(x) => Ended(x)'
                      /\ Stopped(x) => Stopped(x)'
                      /\ Resumed(x) => Resumed(x)'
    BY <1>1, <1>7, <1>8 DEF Grows
  <2>1. CASE x = o
    BY <2>1
  <2>2. CASE x # o
    <3>1. job'[x] = job[x]
      BY <1>4, <2>2
    <3>2. /\ Over(x)' <=> Over(x)
          /\ Started(x)' <=> Started(x)
          /\ Ended(x)' <=> Ended(x)
          /\ Stopped(x)' <=> Stopped(x)
          /\ Resumed(x)' <=> Resumed(x)
      BY <3>1 DEF Over, Started, Ended, Stopped, Resumed
    <3>3. Settled(x) => Settled(x)'
      <4> SUFFICES ASSUME Settled(x) PROVE Settled(x)'
        OBVIOUS
      <4>1. Over(x)'
        BY <3>2 DEF Settled
      <4>2. \A c \in new : c.step \in {"working", "last"} => ~job[t].isStopped \/ Working(t)
        OBVIOUS
      <4>3. QED
        BY <3>1, <4>1, <4>2, SettledKept
    <3>4. QED
      BY <3>2, <3>3
  <2>3. QED
    BY <2>1, <2>2
<1>10. Gate'
  BY <1>2, GateKept
<1>11. Jobs'
  <2> SUFFICES ASSUME NEW x \in Ops, x # o PROVE JobOK(x)'
    BY DEF Jobs
  <2>1. job'[x] = job[x] /\ JobOK(x) /\ (x \in untold' => x \in untold)
    BY <1>2, <1>4 DEF Jobs
  <2>2. /\ Started(x)' <=> Started(x)
        /\ Settled(x) => Settled(x)'
        /\ Idle(x) => Idle(x)'
        /\ Stopped(x) => Stopped(x)'
    BY <1>9, <2>1 DEF Started, Over, Grows
  <2>3. QED
    BY <1>8, <2>1, <2>2 DEF JobOK
<1>12. Calling'
  <2>1. \A u \in Threads : \A c \in CallsOf(u) :
          Passing(u, c) => Passing(u, c)' \/ (u = t /\ c \in old /\ c \notin CallsOf(u)')
    <3> SUFFICES ASSUME NEW u \in Threads, NEW c \in CallsOf(u), Passing(u, c),
                        ~(u = t /\ c \in old /\ c \notin CallsOf(u)')
                 PROVE  Passing(u, c)'
      OBVIOUS
    <3>1. /\ c.step = "record" /\ Head(c.todo) = o /\ ~job[o].wasStarted => ~job'[o].wasStarted
          /\ c.step = "launch" /\ Head(c.todo) = o => job'[o].isRunning
          /\ u = o /\ c.step \in {"execute", "working", "last"} => job'[o].isRunning
      OBVIOUS
    <3>2. c \in CallRecords /\ Lasting(u, c)
      BY <1>2, <1>3, CallsAreRecords DEF Calling
    <3>3. c.step \in {"record", "launch"} => Head(c.todo) \in Ops
      BY <3>2, RecordOfCall DEF Lasting, GateSteps
    <3>4. c.step \in {"execute", "working", "last"} => u \in Ops
      BY <3>2 DEF Lasting, Workings
    <3>5. c.step = "record" => ~job'[Head(c.todo)].wasStarted
      BY <1>4, <3>1, <3>3 DEF Passing
    <3>6. c.step = "launch" => job'[Head(c.todo)].isRunning /\ Idle(Head(c.todo))'
      BY <1>4, <1>7, <3>1, <3>3 DEF Passing
    <3>7. c.step \in {"execute", "working", "last"} => job'[u].isRunning
      BY <1>4, <3>1, <3>4 DEF Passing
    <3>8. c.step = "finalizing" => c.op \in inProgress'
      BY <1>1 DEF Passing
    <3>9. QED
      BY <3>5, <3>6, <3>7, <3>8 DEF Passing
  <2>2. QED
    BY <1>2, <1>3, <1>9, <2>1, CallingKept
<1>13. Alone'
  BY <1>2, AloneKept
<1>14. Releases'
  BY <1>1, <1>2, <1>8 DEF Releases
<1>15. Live'
  <2>1. \A x \in Ops : Awaited(x)' => Awaited(x)
    BY <1>1, <1>9 DEF Awaited, Cold, Started, Over, Grows
  <2>2. \A x \in Ops : Awaited(x)' => StartedBy(new, x) \/ (Awaited(x) /\ ~StartedBy(old, x))
    BY <2>1
  <2>3. QED
    BY <1>2, <2>2, LiveKept
<1>16. Wakeful'
  <2>1. Starved' <=> Starved
    BY <1>1 DEF Starved
  <2>2. QED
    BY <1>1, <1>2, <2>1, WakefulKept
<1>17. Shutdowns'
  <2>1. \A x \in Ops : Unstopped(x)' => Unstopped(x)
    BY <1>8, <1>9 DEF Unstopped, Cold, Started, Over, Grows
  <2>2. InGate(old) => \E u \in Threads : HoldsGate(u)
    BY GateHeld DEF InGate, Moves
  <2>3. \A x \in Ops : (job'[x].wasStarted => job[x].wasStarted \/ InGate(old))
                    /\ (job[x].executionFinished => job'[x].executionFinished)
    BY <1>4
  <2>4. shuttingDown => Closing
    BY <1>1, <2>1, <2>2, <2>3 DEF Closing
  <2>5. shuttingDown' => \A x \in Ops : Listed(x)' => x \in ToSet(snapshot')
    BY <1>1, <1>2, <1>8 DEF Shutdowns
  <2>6. \A c \in new : ShutdownOK(t, c)'
    BY DEF ShutdownOK
  <2>7. snapshot \in Seq(Ops) /\ snapshot' \in Seq(Ops)
    BY <1>1, <1>2 DEF Types
  <2>8. QED
    BY <1>2, <2>4, <2>5, <2>6, <2>7, ShutdownsKept
<1>18. QED
  BY <1>5, <1>6, <1>10, <1>11, <1>12, <1>13, <1>14, <1>15, <1>16, <1>17 DEF IInv, Stacked

(* What a step on the job of another operation leaves as it is. *)
LEMMA AnotherJob ==
  ASSUME SameLists, NEW o \in Ops, \A x \in Ops : x # o => job'[x] = job[x],
         untold' = untold \/ untold' = untold \cup {o}
  PROVE  /\ \A x \in Ops : x # o => (job'[x].isRunning <=> job[x].isRunning) /\ (Finished(x)' <=> Finished(x))
         /\ \A x \in Ops : (Admitted(x)' <=> Admitted(x)) /\ (Gone(x)' <=> Gone(x)) /\ (Listed(x)' <=> Listed(x))
BY DEF SameLists, Finished, Active, Over, Admitted, Gone, Listed

(* The gate keeps everybody else from starting what is being started.         *)
LEMMA OnlyOneStarts ==
  ASSUME Stacked, Gate, NEW t \in Threads, ~Idle(t), Top(t).step \in GateSteps, Top(t).step \notin Callers,
         NEW u \in Threads, NEW c \in CallsOf(u), c.step \in GateSteps, c.step \notin Callers
  PROVE  u = t /\ c = Top(t)
<1>1. Top(t) \in CallsOf(t)
  BY TopOfStack
<1>2. HoldsGate(t) /\ HoldsGate(u)
  BY <1>1, GateHeld
<1>3. u = t
  BY <1>2 DEF Gate
<1>4. QED
  BY <1>3, TopOfStack

LEMMA RecordStartKeeps ==
  ASSUME IInv, NEW t \in Threads, RecordStart(t)
  PROVE  IInv'
<1>1. PICK k \in CallRecords :
        /\ k = Top(t) /\ Stacked /\ ~Idle(t) /\ k.step = "record" /\ Lasting(t, k) /\ Passing(t, k)
  BY TopCall DEF RecordStart
<1>2. SameLists /\ untold' = untold /\ concurrency' \in Concurrencies
  BY DEF RecordStart, SameLists, lists, IInv, Types
<1>3. PICK o \in Ops : k.todo # <<>> /\ o = Head(k.todo) /\ o = First(t)
  BY <1>1, RecordOfCall DEF First, Lasting, GateSteps
<1>4. /\ job' \in [Ops -> Flags] /\ \A x \in Ops : x # o => job'[x] = job[x]
      /\ job'[o].wasStarted /\ job'[o].isRunning
      /\ job'[o].isStopped = job[o].isStopped /\ job'[o].isCompleted = job[o].isCompleted
      /\ job'[o].executionFinished = job[o].executionFinished /\ job'[o].isPaused = job[o].isPaused
  <2> DEFINE j == [job[o] EXCEPT !.wasStarted = TRUE, !.isRunning = TRUE]
  <2>1. job \in [Ops -> Flags]
    BY DEF IInv, Types, Flags
  <2>2. job' = [job EXCEPT ![o] = j]
    BY <1>3, <2>1 DEF RecordStart, Flags
  <2>3. /\ j \in Flags /\ j.wasStarted /\ j.isRunning /\ j.isStopped = job[o].isStopped
        /\ j.isCompleted = job[o].isCompleted /\ j.executionFinished = job[o].executionFinished
        /\ j.isPaused = job[o].isPaused
    BY <1>3, <2>1 DEF Flags
  <2> HIDE DEF j
  <2>4. QED
    BY <1>3, <2>1, <2>2, <2>3
<1>5. PICK c \in CallRecords : c.step = "launch" /\ c.todo = k.todo /\ Stacked' /\ Moves(t, {k}, {c})
  <2>1. "launch" \in Steps /\ "launch" \notin Bottoms
    BY DEF Steps, GateSteps, Bottoms
  <2>2. QED
    BY <1>1, <2>1, GoesMoves DEF RecordStart
<1>6. JobOK(o) /\ ~job[o].wasStarted
  BY <1>1, <1>3 DEF IInv, Jobs, Passing
<1>7. Idle(o) /\ ~job[o].isRunning /\ ~job[o].isCompleted /\ ~job[o].executionFinished
  BY <1>6 DEF JobOK
<1>8. \A x \in Ops : Idle(x) => Idle(x)'
  BY <1>1, <1>5, IdleKept
<1>9. /\ Over(o) => Over(o)'
      /\ Settled(o) => Settled(o)'
      /\ Started(o)' /\ ~Ended(o)
      /\ Stopped(o) => Stopped(o)'
      /\ Resumed(o) => Resumed(o)'
  <2>1. Over(o)' <=> Over(o)
    BY <1>4 DEF Over
  <2>2. ~Working(o)'
    BY <1>3, <1>7, <1>8, NothingListed DEF Working, CallsOf, Idle
  <2>3. Started(o)' /\ ~Ended(o)
    BY <1>4, <1>6 DEF Started, Ended
  <2>4. Over(o) => job'[o].isStopped
    BY <1>4, <1>7 DEF Over
  <2>5. (Stopped(o) => Stopped(o)') /\ (Resumed(o) => Resumed(o)')
    BY <1>4 DEF Stopped, Resumed
  <2>6. QED
    BY <2>1, <2>2, <2>3, <2>4, <2>5 DEF Settled
<1>10. /\ \A x \in Ops : x # o => (job'[x].isRunning <=> job[x].isRunning) /\ (Finished(x)' <=> Finished(x))
       /\ \A x \in Ops : (Admitted(x)' <=> Admitted(x)) /\ (Gone(x)' <=> Gone(x)) /\ (Listed(x)' <=> Listed(x))
  BY <1>2, <1>3, <1>4, AnotherJob
<1>11. \A x \in ToSet(k.todo) : x \in Ops /\ Admitted(x)
  BY <1>1, RecordOfCall DEF Lasting, Launches, GateSteps
<1>12. JobOK(o)'
  <2>1. o \in ToSet(k.todo)
    BY <1>1, <1>3, RecordOfCall
  <2>2. QED
    BY <1>2, <1>3, <1>4, <1>6, <1>7, <1>9, <1>10, <1>11, <2>1 DEF JobOK
<1>13. Lasting(t, c)' /\ Passing(t, c)'
  <2>1. Lasting(t, c)'
    BY <1>3, <1>5, <1>10, <1>11 DEF Lasting, Launches, GateSteps, Tellings, Workings
  <2>2. Passing(t, c)'
    BY <1>3, <1>4, <1>5, <1>7, <1>8 DEF Passing
  <2>3. QED
    BY <2>1, <2>2
<1>14. \A u \in Threads : \A d \in CallsOf(u) :
           \/ u = t /\ d \in {k} /\ d \notin CallsOf(u)'
           \/ /\ d.step = "record" /\ Head(d.todo) = o /\ ~job[o].wasStarted => ~job'[o].wasStarted
              /\ d.step = "launch" /\ Head(d.todo) = o => job'[o].isRunning
              /\ u = o /\ d.step \in {"execute", "working", "last"} => job'[o].isRunning
  <2> SUFFICES ASSUME NEW u \in Threads, NEW d \in CallsOf(u), d.step = "record"
               PROVE  u = t /\ d = k /\ d \notin CallsOf(u)'
    BY <1>4
  <2>1. u = t /\ d = k
    BY <1>1, OnlyOneStarts DEF GateSteps, Callers, IInv
  <2>2. k \notin CallsOf(t)'
    BY <1>1, <1>5, LeftBehind DEF Moves, Callers
  <2>3. QED
    BY <2>1, <2>2
<1> DEFINE old == {k}
           new == {c}
<1>15. /\ \A d \in new : d = c
       /\ InGate(old) /\ ~LooksBy(old)
       /\ \A x \in Ops : ~PerformedBy(t, old, x) /\ ~ToldBy(old, x) /\ ~StoppedBy(old, x)
       /\ \A x \in Ops : StartedBy(old, x) => StartedBy(new, x)
       /\ PerformedBy(t, new, o)
  BY <1>1, <1>3, <1>5 DEF InGate, GateSteps, LooksBy, Looks, PerformedBy, ToldBy, Tells, StoppedBy,
                          StartedBy, Launches
<1>16. Moves(t, old, new)
  BY <1>5
<1>17. \A d \in new : /\ Lasting(t, d)' /\ Passing(t, d)'
                      /\ d.step \notin {"finalizing", "working", "last", "gate", "close", "down"}
  BY <1>5, <1>13, <1>15
<1>18. ~Finished(o)'
  BY <1>4 DEF Finished
<1>19. \A u \in Threads : \A d \in CallsOf(u) :
           \/ u = t /\ d \in old /\ d \notin CallsOf(u)'
           \/ /\ d.step = "record" /\ Head(d.todo) = o /\ ~job[o].wasStarted => ~job'[o].wasStarted
              /\ d.step = "launch" /\ Head(d.todo) = o => job'[o].isRunning
              /\ u = o /\ d.step \in {"execute", "working", "last"} => job'[o].isRunning
  BY <1>14
<1> HIDE DEF old, new
<1>20. QED
  BY <1>1, <1>2, <1>3, <1>4, <1>5, <1>7, <1>9, <1>10, <1>12, <1>15, <1>16, <1>17, <1>18, <1>19, JobStepKeeps

LEMMA LaunchFailsKeeps ==
  ASSUME IInv, NEW t \in Threads, LaunchFails(t)
  PROVE  IInv'
<1>1. PICK k \in CallRecords :
        /\ k = Top(t) /\ Stacked /\ ~Idle(t) /\ k.step = "launch" /\ Lasting(t, k) /\ Passing(t, k)
  BY TopCall DEF LaunchFails
<1>2. SameLists /\ untold' = untold /\ concurrency' \in Concurrencies
  BY DEF LaunchFails, SameLists, lists, IInv, Types
<1>3. PICK o \in Ops : k.todo # <<>> /\ o = Head(k.todo) /\ o = First(t)
  BY <1>1, RecordOfCall DEF First, Lasting, GateSteps
<1>4. /\ job' \in [Ops -> Flags] /\ \A x \in Ops : x # o => job'[x] = job[x]
      /\ job'[o].isStopped /\ ~job'[o].isRunning
      /\ job'[o].wasStarted = job[o].wasStarted /\ job'[o].isCompleted = job[o].isCompleted
      /\ job'[o].executionFinished = job[o].executionFinished /\ ~job'[o].isPaused
  <2> DEFINE j == [job[o] EXCEPT !.isStopped = TRUE, !.isPaused = FALSE, !.isRunning = FALSE]
  <2>1. job \in [Ops -> Flags]
    BY DEF IInv, Types, Flags
  <2>2. job' = [job EXCEPT ![o] = j]
    BY <1>3, <2>1 DEF LaunchFails, Flags
  <2>3. /\ j \in Flags /\ j.isStopped /\ ~j.isPaused /\ ~j.isRunning /\ j.wasStarted = job[o].wasStarted
        /\ j.isCompleted = job[o].isCompleted /\ j.executionFinished = job[o].executionFinished
    BY <1>3, <2>1 DEF Flags
  <2> HIDE DEF j
  <2>4. QED
    BY <1>3, <2>1, <2>2, <2>3
<1>5. PICK a \in CallRecords, d \in CallRecords :
        /\ a.step = "failed" /\ a.todo = k.todo /\ d.step = "finish" /\ d.op = o
        /\ Stacked' /\ Moves(t, {k}, {a, d})
  <2> DEFINE a == [Top(t) EXCEPT !.step = "failed"]
             d == About("finish", First(t))
  <2>1. "failed" \in Steps /\ "finish" \in Steps
    BY DEF Steps, GateSteps
  <2>2. a \in CallRecords /\ a.step = "failed" /\ a.todo = k.todo
    BY <1>1, <2>1, Renamed
  <2>3. d \in CallRecords /\ d.step = "finish" /\ d.op = o
    <3>1. "finish" \in Steps /\ o \in Ops \cup {NoOp}
      BY <2>1
    <3>2. About("finish", o) \in CallRecords /\ About("finish", o).step = "finish" /\ About("finish", o).op = o
      BY <3>1, AboutCall
    <3>3. QED
      BY <1>3, <3>2
  <2>4. Calls(t, a, d)
    BY DEF LaunchFails
  <2> HIDE DEF a, d
  <2>5. a.step \in Callers /\ d.step \notin Bottoms /\ a.step \notin Bottoms
    BY <2>2, <2>3 DEF Callers, Bottoms
  <2>6. Stacked' /\ Moves(t, {k}, {a, d})
    BY <1>1, <2>2, <2>3, <2>4, <2>5, CallsMoves
  <2>7. QED
    BY <2>2, <2>3, <2>6
<1>6. JobOK(o) /\ job[o].isRunning /\ Idle(o)
  BY <1>1, <1>3 DEF IInv, Jobs, Passing
<1>7. job[o].wasStarted /\ ~job[o].executionFinished /\ ~job[o].isCompleted
  BY <1>6 DEF JobOK
<1>8. \A x \in Ops : Idle(x) => Idle(x)'
  BY <1>1, <1>5, IdleKept
<1>9. Over(o)' /\ Settled(o)' /\ Started(o)' /\ Ended(o)' /\ ~Ended(o) /\ Stopped(o)' /\ Resumed(o)'
  BY <1>4, <1>6, <1>7 DEF Settled, Started, Ended, Over, Stopped, Resumed
<1>10. /\ \A x \in Ops : x # o => (job'[x].isRunning <=> job[x].isRunning) /\ (Finished(x)' <=> Finished(x))
       /\ \A x \in Ops : (Admitted(x)' <=> Admitted(x)) /\ (Gone(x)' <=> Gone(x)) /\ (Listed(x)' <=> Listed(x))
  BY <1>2, <1>3, <1>4, AnotherJob
<1>11. \A x \in ToSet(k.todo) : x \in Ops /\ Admitted(x)
  BY <1>1, RecordOfCall DEF Lasting, Launches, GateSteps
<1>12. JobOK(o)'
  BY <1>4, <1>6, <1>7, <1>9, <1>10 DEF JobOK
<1>13. /\ Lasting(t, a)' /\ Passing(t, a)'
       /\ Lasting(t, d)' /\ Passing(t, d)'
  <2>1. Lasting(t, a)'
    BY <1>3, <1>5, <1>6, <1>8, <1>9, <1>10, <1>11 DEF Lasting, Launches, GateSteps, Tellings, Workings
  <2>2. Lasting(t, d)'
    BY <1>5, <1>9 DEF Lasting, Launches, GateSteps, Tellings, Workings
  <2>3. Passing(t, a)' /\ Passing(t, d)'
    BY <1>5 DEF Passing
  <2>4. QED
    BY <2>1, <2>2, <2>3
<1> DEFINE old == {k}
           new == {a, d}
<1>14. \A u \in Threads : \A e \in CallsOf(u) :
           \/ u = t /\ e \in old /\ e \notin CallsOf(u)'
           \/ /\ e.step = "record" /\ Head(e.todo) = o /\ ~job[o].wasStarted => ~job'[o].wasStarted
              /\ e.step = "launch" /\ Head(e.todo) = o => job'[o].isRunning
              /\ u = o /\ e.step \in {"execute", "working", "last"} => job'[o].isRunning
  <2> SUFFICES ASSUME NEW u \in Threads, NEW e \in CallsOf(u),
                      e.step = "launch" \/ (u = o /\ e.step \in {"execute", "working", "last"})
               PROVE  u = t /\ e = k /\ e \notin CallsOf(u)'
    BY <1>7
  <2>1. e.step = "launch"
    BY <1>6, NothingListed DEF Idle, CallsOf
  <2>2. u = t /\ e = k
    BY <1>1, <2>1, OnlyOneStarts DEF GateSteps, Callers, IInv
  <2>3. k \notin CallsOf(t)'
    BY <1>1, <1>5, LeftBehind DEF Moves, Callers
  <2>4. QED
    BY <2>2, <2>3
<1>15. /\ \A e \in new : e = a \/ e = d
       /\ InGate(old) /\ ~LooksBy(old)
       /\ \A x \in Ops : ~ToldBy(old, x) /\ ~StoppedBy(old, x)
       /\ \A x \in Ops : x # o => ~PerformedBy(t, old, x)
       /\ \A x \in Ops : StartedBy(old, x) => StartedBy(new, x)
       /\ ToldBy(new, o)
  BY <1>1, <1>3, <1>5 DEF InGate, GateSteps, LooksBy, Looks, PerformedBy, ToldBy, Tells, StoppedBy,
                          StartedBy, Launches
<1>16. Moves(t, old, new)
  BY <1>5
<1>17. \A e \in new : /\ Lasting(t, e)' /\ Passing(t, e)'
                      /\ e.step \notin {"finalizing", "working", "last", "gate", "close", "down"}
  BY <1>5, <1>13, <1>15
<1> HIDE DEF old, new
<1>18. QED
  BY <1>1, <1>2, <1>3, <1>4, <1>5, <1>7, <1>9, <1>10, <1>12, <1>14, <1>15, <1>16, <1>17, JobStepKeeps

(* What the ends of a worker's work have in common. *)
LEMMA EndingKeeps ==
  ASSUME IInv, NEW t \in Ops, SameLists, untold' = untold, concurrency' \in Concurrencies,
         NEW step \in {"execute", "working", "last"}, At(t, step), Goes(t, "ending"),
         job' \in [Ops -> Flags], \A x \in Ops : x # t => job'[x] = job[x],
         job'[t].isStopped \/ job'[t].isCompleted, ~job'[t].isRunning,
         job'[t].wasStarted = job[t].wasStarted, job'[t].executionFinished = job[t].executionFinished,
         job'[t].isCompleted => ~job'[t].isPaused /\ ~job'[t].isStopped,
         job[t].isStopped => job'[t].isStopped,
         job'[t].isPaused => job[t].isPaused
  PROVE  IInv'
<1>1. t \in Threads
  BY DEF Threads
<1>2. PICK k \in CallRecords :
        /\ k = Top(t) /\ Stacked /\ ~Idle(t) /\ k.step \in {"execute", "working", "last"}
        /\ Lasting(t, k) /\ Passing(t, k)
  BY <1>1, TopCall
<1>5. PICK c \in CallRecords : c.step = "ending" /\ c.op = t /\ Stacked' /\ Moves(t, {k}, {c})
  <2>1. "ending" \in Steps /\ k.step \in Bottoms /\ k.op = t
    BY <1>2 DEF Steps, Bottoms, Lasting, Workings
  <2>2. PICK c \in CallRecords : c.step = "ending" /\ c.op = k.op /\ Stacked' /\ Moves(t, {k}, {c})
    BY <1>1, <1>2, <2>1, GoesMoves
  <2>3. QED
    BY <2>1, <2>2
<1>6. JobOK(t) /\ job[t].isRunning
  BY <1>2 DEF IInv, Jobs, Passing
<1>7. job[t].wasStarted /\ ~job[t].executionFinished
  BY <1>6 DEF JobOK
<1>8. Over(t)' /\ Settled(t)' /\ Started(t)' /\ Ended(t)' /\ (Stopped(t) => Stopped(t)') /\ (Resumed(t) => Resumed(t)')
  BY <1>7 DEF Settled, Started, Ended, Over, Stopped, Resumed
<1>9. /\ \A x \in Ops : x # t => (job'[x].isRunning <=> job[x].isRunning) /\ (Finished(x)' <=> Finished(x))
      /\ \A x \in Ops : (Admitted(x)' <=> Admitted(x)) /\ (Gone(x)' <=> Gone(x)) /\ (Listed(x)' <=> Listed(x))
  BY AnotherJob
<1>10. JobOK(t)'
  BY <1>6, <1>7, <1>8, <1>9 DEF JobOK
<1>11. Lasting(t, c)' /\ Passing(t, c)'
  BY <1>5, <1>8 DEF Lasting, Passing, Launches, GateSteps, Tellings, Workings
<1> DEFINE old == {k}
           new == {c}
<1>12. \A u \in Threads : \A e \in CallsOf(u) :
           \/ u = t /\ e \in old /\ e \notin CallsOf(u)'
           \/ /\ e.step = "record" /\ Head(e.todo) = t /\ ~job[t].wasStarted => ~job'[t].wasStarted
              /\ e.step = "launch" /\ Head(e.todo) = t => job'[t].isRunning
              /\ u = t /\ e.step \in {"execute", "working", "last"} => job'[t].isRunning
  <2> SUFFICES ASSUME NEW u \in Threads, NEW e \in CallsOf(u),
                      (e.step = "launch" /\ Head(e.todo) = t) \/ (u = t /\ e.step \in {"execute", "working", "last"})
               PROVE  u = t /\ e = k /\ e \notin CallsOf(u)'
    BY <1>7
  <2>1. Passing(u, e)
    BY DEF IInv, Calling
  <2>2. u = t /\ e.step \in {"execute", "working", "last"}
    BY <1>2, <2>1 DEF Passing
  <2>3. e = k
    BY <1>1, <1>2, <2>2, TopOfStack DEF Callers
  <2>4. k \notin CallsOf(t)'
    <3>1. c \in CallsOf(t)' /\ c # k /\ c.step \notin Callers /\ k.step \notin Callers
      BY <1>2, <1>5 DEF Moves, Callers
    <3>2. QED
      BY <1>1, <1>5, <3>1, LeftBehind
  <2>5. QED
    BY <2>2, <2>3, <2>4
<1>13. /\ \A e \in new : e = c
       /\ ~InGate(new) /\ ~LooksBy(old)
       /\ \A x \in Ops : ~ToldBy(old, x) /\ ~StoppedBy(old, x) /\ ~StartedBy(old, x)
       /\ \A x \in Ops : x # t => ~PerformedBy(t, old, x)
       /\ ToldBy(new, t)
  BY <1>2, <1>5 DEF InGate, GateSteps, LooksBy, Looks, PerformedBy, ToldBy, Tells, StoppedBy,
                    StartedBy, Launches
<1>14. Moves(t, old, new)
  BY <1>5
<1>15. \A e \in new : /\ Lasting(t, e)' /\ Passing(t, e)'
                      /\ e.step \notin {"finalizing", "working", "last", "gate", "close", "down"}
  BY <1>5, <1>11, <1>13
<1> HIDE DEF old, new
<1>16. QED
  BY <1>1, <1>2, <1>5, <1>7, <1>8, <1>9, <1>10, <1>12, <1>13, <1>14, <1>15, JobStepKeeps

LEMMA WorkEndsKeeps ==
  ASSUME IInv, NEW t \in Ops, WorkEnds(t)
  PROVE  IInv'
<1>1. PICK step \in {"execute", "working", "last"} : At(t, step)
  BY DEF WorkEnds
<1>2. SameLists /\ untold' = untold /\ concurrency' \in Concurrencies /\ Goes(t, "ending")
  BY DEF WorkEnds, SameLists, lists, IInv, Types
<1>3. job \in [Ops -> Flags]
  BY DEF IInv, Types, Flags
<1>4. PICK completed \in BOOLEAN, paused \in BOOLEAN :
        /\ completed = ~job[t].isStopped /\ paused = (job[t].isPaused /\ job[t].isStopped)
        /\ job' = [job EXCEPT ![t].isRunning = FALSE, ![t].isCompleted = completed, ![t].isPaused = paused]
  BY <1>3 DEF WorkEnds, Flags
<1> DEFINE j == [job[t] EXCEPT !.isRunning = FALSE, !.isCompleted = completed, !.isPaused = paused]
<1>5. job' = [job EXCEPT ![t] = j]
  BY <1>3, <1>4 DEF Flags
<1>6. /\ j \in Flags /\ ~j.isRunning /\ j.wasStarted = job[t].wasStarted
      /\ j.executionFinished = job[t].executionFinished /\ j.isStopped = job[t].isStopped
      /\ j.isCompleted = completed /\ j.isPaused = paused
  BY <1>3 DEF Flags
<1> HIDE DEF j
<1>7. /\ job' \in [Ops -> Flags] /\ job'[t] = j
      /\ \A x \in Ops : x # t => job'[x] = job[x]
  BY <1>3, <1>5, <1>6
<1>8. /\ job'[t].isStopped \/ job'[t].isCompleted
      /\ ~job'[t].isRunning
      /\ job'[t].wasStarted = job[t].wasStarted /\ job'[t].executionFinished = job[t].executionFinished
      /\ job'[t].isCompleted => ~job'[t].isPaused /\ ~job'[t].isStopped
      /\ job[t].isStopped => job'[t].isStopped
      /\ job'[t].isPaused => job[t].isPaused
  BY <1>4, <1>6, <1>7
<1>9. QED
  BY <1>1, <1>2, <1>7, <1>8, EndingKeeps

LEMMA WorkThrowsKeeps ==
  ASSUME IInv, NEW t \in Ops, WorkThrows(t)
  PROVE  IInv'
<1>1. PICK step \in {"execute", "working", "last"} : At(t, step)
  BY DEF WorkThrows
<1>2. SameLists /\ untold' = untold /\ concurrency' \in Concurrencies /\ Goes(t, "ending")
  BY DEF WorkThrows, SameLists, lists, IInv, Types
<1>3. job \in [Ops -> Flags]
  BY DEF IInv, Types, Flags
<1>4. ~job[t].isCompleted
  <2>1. t \in Threads
    BY DEF Threads
  <2>2. job[t].isRunning
    BY <1>1, <2>1, TopCall DEF Passing
  <2>3. QED
    BY <2>2 DEF IInv, Jobs, JobOK
<1> DEFINE j == [job[t] EXCEPT !.isRunning = FALSE, !.isStopped = TRUE, !.isPaused = FALSE]
<1>5. job' = [job EXCEPT ![t] = j]
  BY <1>3 DEF WorkThrows, Flags
<1>6. /\ j \in Flags /\ ~j.isRunning /\ j.wasStarted = job[t].wasStarted
      /\ j.executionFinished = job[t].executionFinished /\ j.isStopped
      /\ j.isCompleted = job[t].isCompleted /\ ~j.isPaused
  BY <1>3 DEF Flags
<1> HIDE DEF j
<1>7. /\ job' \in [Ops -> Flags] /\ job'[t] = j
      /\ \A x \in Ops : x # t => job'[x] = job[x]
  BY <1>3, <1>5, <1>6
<1>8. QED
  BY <1>1, <1>2, <1>4, <1>6, <1>7, EndingKeeps

(* The same, when it neither starts nor ends to run. *)
LEMMA FlagKeeps ==
  ASSUME IInv, Stacked', SameLists, concurrency' \in Concurrencies,
         NEW o \in Ops, job' \in [Ops -> Flags], \A x \in Ops : x # o => job'[x] = job[x],
         untold' = untold \/ untold' = untold \cup {o}, o \in untold' => o \in untold \/ job[o].isStopped,
         job'[o].wasStarted = job[o].wasStarted, job'[o].isRunning = job[o].isRunning,
         job'[o].isCompleted = job[o].isCompleted, job'[o].isPaused => job[o].isPaused,
         job'[o].isStopped => job[o].isStopped \/ ~job[o].isCompleted,
         job[o].isStopped => job'[o].isStopped, job[o].executionFinished => job'[o].executionFinished,
         job'[o].executionFinished => job[o].executionFinished \/ (Ended(o) /\ Idle(o)'),
         NEW t \in Threads, NEW old, NEW new, Moves(t, old, new), t \in Ops => ~Idle(t),
         InGate(new) => InGate(old),
         \A c \in new : /\ Lasting(t, c)' /\ Passing(t, c)'
                        /\ c.step \notin {"finalizing", "working", "last", "gate", "close", "down"},
         \A x \in Ops : ~PerformedBy(t, old, x),
         \A x \in Ops : ToldBy(old, x) => ToldBy(new, x) \/ ~Finished(x)',
         Finished(o)' => Finished(o) \/ ToldBy(new, o),
         \A x \in Ops : StartedBy(old, x) => StartedBy(new, x) \/ ~Awaited(x)',
         ~LooksBy(old),
         \A x \in Ops : StoppedBy(old, x) => ~Unstopped(x)'
  PROVE  IInv'
<1>1. JobOK(o) /\ \A x \in Ops : Idle(x) => Idle(x)'
  BY IdleKept DEF IInv, Jobs
<1>2. /\ \A x \in Ops : x # o => (job'[x].isRunning <=> job[x].isRunning) /\ (Finished(x)' <=> Finished(x))
      /\ \A x \in Ops : (Admitted(x)' <=> Admitted(x)) /\ (Gone(x)' <=> Gone(x)) /\ (Listed(x)' <=> Listed(x))
  BY AnotherJob
<1>3. /\ Over(o) => Over(o)'
      /\ Started(o) => Started(o)'
      /\ Ended(o) => Ended(o)'
      /\ Stopped(o) => Stopped(o)'
      /\ Resumed(o) => Resumed(o)'
  BY DEF Over, Started, Ended, Stopped, Resumed
<1>4. Settled(o) => Settled(o)'
  <2> SUFFICES ASSUME Settled(o) PROVE Settled(o)'
    OBVIOUS
  <2>1. Over(o)'
    BY <1>3 DEF Settled
  <2>2. \A c \in new : c.step \in {"working", "last"} => ~job[t].isStopped \/ Working(t)
    OBVIOUS
  <2>3. QED
    BY <2>1, <2>2, SettledKept
<1>5. JobOK(o)'
  <2>1. ~job'[o].wasStarted \/ job'[o].executionFinished => Idle(o)'
    BY <1>1 DEF JobOK
  <2>2. job'[o].executionFinished => job'[o].wasStarted /\ ~job'[o].isRunning
    BY <1>1 DEF JobOK, Ended
  <2>3. /\ job'[o].isCompleted => ~job'[o].isRunning /\ ~job'[o].isPaused /\ ~job'[o].isStopped
        /\ o \in untold' => Stopped(o)'
    BY <1>1 DEF JobOK, Stopped
  <2>4. QED
    BY <1>1, <1>2, <1>3, <1>4, <2>1, <2>2, <2>3 DEF JobOK
<1>6. \A u \in Threads : \A c \in CallsOf(u) :
           \/ u = t /\ c \in old /\ c \notin CallsOf(u)'
           \/ /\ c.step = "record" /\ Head(c.todo) = o /\ ~job[o].wasStarted => ~job'[o].wasStarted
              /\ c.step = "launch" /\ Head(c.todo) = o => job'[o].isRunning
              /\ u = o /\ c.step \in {"execute", "working", "last"} => job'[o].isRunning
  BY DEF IInv, Calling, Passing
<1>7. \A x \in Ops : job'[x].isRunning => PerformedBy(t, new, x) \/ (job[x].isRunning /\ ~PerformedBy(t, old, x))
  BY <1>2
<1>8. \A x \in Ops : Finished(x)' => ToldBy(new, x) \/ (Finished(x) /\ ~ToldBy(old, x))
  BY <1>2
<1>9. QED
  BY <1>3, <1>4, <1>5, <1>6, <1>7, <1>8, JobStepKeeps

(* A job whose execution is over: what is written is one flag. *)
LEMMA ExecutionFinishedWritten ==
  ASSUME Types, NEW o \in Ops, job' = [job EXCEPT ![o].executionFinished = TRUE]
  PROVE  /\ job' \in [Ops -> Flags] /\ \A x \in Ops : x # o => job'[x] = job[x]
         /\ job'[o].executionFinished
         /\ job'[o].wasStarted = job[o].wasStarted /\ job'[o].isRunning = job[o].isRunning
         /\ job'[o].isStopped = job[o].isStopped /\ job'[o].isCompleted = job[o].isCompleted
         /\ job'[o].isPaused = job[o].isPaused
<1> DEFINE j == [job[o] EXCEPT !.executionFinished = TRUE]
<1>1. job \in [Ops -> Flags]
  BY DEF Types, Flags
<1>2. job' = [job EXCEPT ![o] = j]
  BY <1>1 DEF Flags
<1>3. /\ j \in Flags /\ j.executionFinished /\ j.wasStarted = job[o].wasStarted /\ j.isRunning = job[o].isRunning
      /\ j.isStopped = job[o].isStopped /\ j.isCompleted = job[o].isCompleted
      /\ j.isPaused = job[o].isPaused
  BY <1>1 DEF Flags
<1> HIDE DEF j
<1>4. QED
  BY <1>1, <1>2, <1>3

LEMMA JobFinishedKeeps ==
  ASSUME IInv, NEW t \in Ops, JobFinished(t)
  PROVE  IInv'
<1>1. t \in Threads /\ Types
  BY DEF Threads, IInv
<1>2. PICK k \in CallRecords :
        /\ k = Top(t) /\ Stacked /\ ~Idle(t) /\ k.step = "ending" /\ Lasting(t, k)
  BY <1>1, TopCall DEF JobFinished
<1>3. /\ SameLists /\ job' = job /\ concurrency' \in Concurrencies
      /\ k.op = t /\ Ended(t) /\ k.step \in Bottoms
  BY <1>2 DEF JobFinished, SameLists, lists, IInv, Types, Lasting, Workings, Bottoms
<1> DEFINE old == {k}
<1>4. /\ ~LooksBy(old)
      /\ \A x \in Ops : ~StoppedBy(old, x) /\ ~StartedBy(old, x) /\ ~PerformedBy(t, old, x)
      /\ \A x \in Ops : ToldBy(old, x) => x = t
  BY <1>2, <1>3 DEF LooksBy, Looks, PerformedBy, ToldBy, Tells, StoppedBy, StartedBy, Launches, GateSteps
<1> HIDE DEF old
<1>5. CASE State(t) \in {"Completed", "Stopped"}
  <2>1. PICK a \in CallRecords, d \in CallRecords :
          /\ a.step = "finished" /\ a.op = t /\ d.step = "finish" /\ d.op = t
          /\ Stacked' /\ Moves(t, old, {a, d})
    <3> DEFINE a == About("finished", t)
               d == About("finish", t)
    <3>1. "finished" \in Steps /\ "finish" \in Steps /\ t \in Ops \cup {NoOp}
      BY DEF Steps
    <3>2. a \in CallRecords /\ a.step = "finished" /\ a.op = t
      <4>1. About("finished", t) \in CallRecords /\ About("finished", t).step = "finished" /\ About("finished", t).op = t
        BY <3>1, AboutCall
      <4>2. QED
        BY <4>1
    <3>3. d \in CallRecords /\ d.step = "finish" /\ d.op = t
      <4>1. About("finish", t) \in CallRecords /\ About("finish", t).step = "finish" /\ About("finish", t).op = t
        BY <3>1, AboutCall
      <4>2. QED
        BY <4>1
    <3>4. Calls(t, a, d)
      BY <1>5 DEF JobFinished
    <3> HIDE DEF a, d
    <3>5. a.step \in Callers /\ d.step \notin Bottoms
      BY <3>2, <3>3 DEF Callers, Bottoms
    <3>6. Stacked' /\ Moves(t, {k}, {a, d})
      BY <1>1, <1>2, <1>3, <3>2, <3>3, <3>4, <3>5, CallsMoves
    <3>7. QED
      BY <3>2, <3>3, <3>6 DEF old
  <2> DEFINE new == {a, d}
  <2>2. SameData
    BY <1>3, <1>5 DEF JobFinished, SameData, SameLists
  <2>3. Settled(t)
    BY <1>3 DEF Ended, Settled
  <2>4. Lasting(t, a) /\ Passing(t, a) /\ Lasting(t, d) /\ Passing(t, d)
    BY <1>3, <2>1, <2>3 DEF Lasting, Passing, Launches, GateSteps, Tellings, Workings
  <2>5. /\ \A e \in new : e = a \/ e = d
        /\ ~InGate(new) /\ ToldBy(new, t) /\ Moves(t, old, new)
    BY <2>1 DEF InGate, GateSteps, ToldBy, Tells
  <2> HIDE DEF new
  <2>6. /\ \A e \in new : Lasting(t, e) /\ Passing(t, e) /\ e.step # "finalizing"
        /\ \A e \in new : e.step \notin {"working", "last"}
        /\ \A e \in new : e.step \notin {"close", "down"} /\ e.step \notin {"gate", "close"} /\ e.step # "down"
    BY <2>1, <2>4, <2>5
  <2>7. \A x \in Ops : ToldBy(old, x) => ToldBy(new, x)
    BY <1>4, <2>5
  <2>8. QED
    BY <1>1, <1>2, <1>3, <1>4, <2>1, <2>2, <2>5, <2>6, <2>7, QuietKeeps
<1>6. CASE State(t) \notin {"Completed", "Stopped"}
  <2>1. untold' = untold \cup {t} /\ Goes(t, "finished")
    BY <1>6 DEF JobFinished
  <2>2. PICK c \in CallRecords : c.step = "finished" /\ c.op = t /\ Stacked' /\ Moves(t, {k}, {c})
    <3>1. "finished" \in Steps
      BY DEF Steps
    <3>2. PICK c \in CallRecords : c.step = "finished" /\ c.op = k.op /\ Stacked' /\ Moves(t, {k}, {c})
      BY <1>1, <1>2, <1>3, <2>1, <3>1, GoesMoves
    <3>3. QED
      BY <1>3, <3>2
  <2>3. job[t].isStopped
    <3>1. job[t].isPaused /\ Over(t)
      BY <1>3, <1>6, States DEF Ended
    <3>2. ~job[t].isCompleted
      BY <3>1 DEF IInv, Jobs, JobOK
    <3>3. QED
      BY <3>1, <3>2 DEF Over
  <2>4. job' \in [Ops -> Flags]
    BY <1>1, <1>3 DEF Types, Flags
  <2>5. Lasting(t, c)' /\ Passing(t, c)'
    <3>1. Ended(t)'
      BY <1>3 DEF Ended, Over
    <3>2. QED
      BY <2>2, <3>1 DEF Lasting, Passing, Launches, GateSteps, Tellings, Workings
  <2>6. ~Finished(t)'
    BY <2>1 DEF Finished
  <2> DEFINE new == {c}
  <2>7. /\ \A e \in new : e = c
        /\ ~InGate(new) /\ Moves(t, old, new)
    BY <2>2 DEF InGate, GateSteps, old
  <2> HIDE DEF new
  <2>8. \A e \in new : /\ Lasting(t, e)' /\ Passing(t, e)'
                       /\ e.step \notin {"finalizing", "working", "last", "gate", "close", "down"}
    BY <2>2, <2>5, <2>7
  <2>9. \A x \in Ops : ToldBy(old, x) => ToldBy(new, x) \/ ~Finished(x)'
    BY <1>4, <2>6
  <2>10. QED
    BY <1>1, <1>2, <1>3, <1>4, <2>1, <2>2, <2>3, <2>4, <2>6, <2>7, <2>8, <2>9, FlagKeeps
<1>7. QED
  BY <1>5, <1>6

LEMMA WorkerEndsKeeps ==
  ASSUME IInv, NEW t \in Ops, WorkerEnds(t)
  PROVE  IInv'
<1>1. t \in Threads /\ Types
  BY DEF Threads, IInv
<1>2. PICK k \in CallRecords :
        /\ k = Top(t) /\ Stacked /\ ~Idle(t) /\ k.step = "finished" /\ Lasting(t, k)
  BY <1>1, TopCall DEF WorkerEnds
<1>3. SameLists /\ untold' = untold /\ concurrency' \in Concurrencies
  BY DEF WorkerEnds, SameLists, lists, IInv, Types
<1>4. /\ job' \in [Ops -> Flags] /\ \A x \in Ops : x # t => job'[x] = job[x]
      /\ job'[t].executionFinished
      /\ job'[t].wasStarted = job[t].wasStarted /\ job'[t].isRunning = job[t].isRunning
      /\ job'[t].isStopped = job[t].isStopped /\ job'[t].isCompleted = job[t].isCompleted
      /\ job'[t].isPaused = job[t].isPaused
  BY <1>1, ExecutionFinishedWritten DEF WorkerEnds
<1>5. Stacked' /\ Moves(t, {k}, {}) /\ Idle(t)'
  <2>1. k.step \in Bottoms
    BY <1>2 DEF Bottoms
  <2>2. QED
    BY <1>1, <1>2, <2>1, ReturnsMoves DEF WorkerEnds
<1>6. Ended(t)
  BY <1>2 DEF Lasting
<1>7. Finished(t)' => Finished(t)
  BY <1>3, <1>4 DEF Finished, Active, Over, SameLists
<1> DEFINE old == {k}
<1>8. /\ ~InGate({}) /\ ~LooksBy(old)
      /\ \A x \in Ops : ~ToldBy(old, x) /\ ~StoppedBy(old, x) /\ ~StartedBy(old, x) /\ ~PerformedBy(t, old, x)
  BY <1>2 DEF InGate, GateSteps, LooksBy, Looks, PerformedBy, ToldBy, Tells, StoppedBy, StartedBy, Launches
<1>9. Moves(t, old, {})
  BY <1>5
<1> HIDE DEF old
<1>10. QED
  BY <1>1, <1>2, <1>3, <1>4, <1>5, <1>6, <1>7, <1>8, <1>9, FlagKeeps

LEMMA LaunchFailedKeeps ==
  ASSUME IInv, NEW t \in Threads, LaunchFailed(t)
  PROVE  IInv'
<1>1. PICK k \in CallRecords :
        /\ k = Top(t) /\ Stacked /\ ~Idle(t) /\ k.step = "failed" /\ Lasting(t, k) /\ Types
  BY TopCall DEF LaunchFailed, IInv
<1>2. SameLists /\ untold' = untold /\ concurrency' \in Concurrencies
  BY DEF LaunchFailed, SameLists, lists, IInv, Types
<1>3. PICK o \in Ops : k.todo # <<>> /\ o = Head(k.todo) /\ o = First(t) /\ ToSet(k.todo) = {o} \cup ToSet(Tail(k.todo))
  BY <1>1, RecordOfCall DEF First, Lasting, GateSteps
<1>4. /\ job' \in [Ops -> Flags] /\ \A x \in Ops : x # o => job'[x] = job[x]
      /\ job'[o].executionFinished
      /\ job'[o].wasStarted = job[o].wasStarted /\ job'[o].isRunning = job[o].isRunning
      /\ job'[o].isStopped = job[o].isStopped /\ job'[o].isCompleted = job[o].isCompleted
      /\ job'[o].isPaused = job[o].isPaused
  BY <1>1, <1>3, ExecutionFinishedWritten DEF LaunchFailed
<1>5. PICK c \in CallRecords : c.step = "start" /\ c.todo = Tail(k.todo) /\ Stacked' /\ Moves(t, {k}, {c})
  BY <1>1, <1>3, NextOneMoves DEF LaunchFailed
<1>6. Ended(o) /\ Idle(o)'
  <2>1. Ended(o) /\ Idle(o)
    BY <1>1, <1>3 DEF Lasting
  <2>2. QED
    BY <1>1, <1>5, <2>1, IdleKept
<1>7. Finished(o)' => Finished(o)
  BY <1>2, <1>4 DEF Finished, Active, Over, SameLists
<1>8. \A x \in Ops : Admitted(x)' <=> Admitted(x)
  BY <1>2, <1>3, <1>4, AnotherJob
<1>9. Lasting(t, c)' /\ Passing(t, c)'
  <2>1. \A x \in ToSet(k.todo) : x \in Ops /\ Admitted(x)
    BY <1>1, RecordOfCall DEF Lasting, Launches, GateSteps
  <2>2. \A x \in ToSet(c.todo) : Admitted(x)'
    BY <1>3, <1>5, <1>8, <2>1
  <2>3. QED
    BY <1>5, <2>2 DEF Lasting, Passing, Launches, GateSteps, Tellings, Workings
<1>10. ~Awaited(o)'
  BY <1>4, <1>6 DEF Awaited, Cold, Ended, Over
<1> DEFINE old == {k}
           new == {c}
<1>11. /\ \A d \in new : d = c
       /\ ~InGate(new) /\ ~LooksBy(old)
       /\ \A x \in Ops : ~ToldBy(old, x) /\ ~StoppedBy(old, x) /\ ~PerformedBy(t, old, x)
  BY <1>1, <1>5 DEF InGate, GateSteps, LooksBy, Looks, PerformedBy, ToldBy, Tells, StoppedBy
<1>12. \A x \in Ops : StartedBy(old, x) => StartedBy(new, x) \/ ~Awaited(x)'
  <2>1. c.step \in Launches
    BY <1>5 DEF Launches
  <2>2. QED
    BY <1>3, <1>5, <1>10, <2>1 DEF StartedBy
<1>13. Moves(t, old, new)
  BY <1>5
<1>14. \A d \in new : /\ Lasting(t, d)' /\ Passing(t, d)'
                      /\ d.step \notin {"finalizing", "working", "last", "gate", "close", "down"}
  BY <1>5, <1>9, <1>11
<1> HIDE DEF old, new
<1>15. QED
  BY <1>1, <1>2, <1>3, <1>4, <1>5, <1>6, <1>7, <1>11, <1>12, <1>13, <1>14, FlagKeeps

(* A thread is in a call if the call is on its stack. *)
LEMMA InsideACall ==
  ASSUME NEW t \in Threads, NEW o, NEW step
  PROVE  Inside(t, o, step) <=> \E c \in CallsOf(t) : c.op = o /\ c.step = step
BY DEF Inside, CallsOf, ToSet

LEMMA StopKeeps ==
  ASSUME IInv, NEW t \in Threads, Stop(t)
  PROVE  IInv'
<1>1. PICK k \in CallRecords :
        /\ k = Top(t) /\ Stacked /\ ~Idle(t) /\ k.step = "stop" /\ Lasting(t, k) /\ Types
  BY TopCall DEF Stop, IInv
<1>2. SameLists /\ untold' = untold /\ concurrency' \in Concurrencies
  BY DEF Stop, SameLists, lists, IInv, Types
<1>3. PICK o \in Ops : o = k.op /\ (k.flag => Started(o))
  BY <1>1 DEF Lasting
<1> DEFINE old == {k}
<1>4. /\ ~LooksBy(old)
      /\ \A x \in Ops : ~ToldBy(old, x) /\ ~PerformedBy(t, old, x) /\ ~StartedBy(old, x)
      /\ \A x \in Ops : StoppedBy(old, x) => x = o
  BY <1>1, <1>3 DEF LooksBy, Looks, PerformedBy, ToldBy, Tells, StoppedBy, StartedBy, Launches, GateSteps
<1> HIDE DEF old
<1>5. CASE /\ job[o].isStopped \/ job[o].isCompleted \/ Inside(o, o, "last")
           /\ Returns(t) /\ UNCHANGED job
  <2>1. Stacked' /\ Moves(t, old, {}) /\ SameData
    BY <1>1, <1>2, <1>5, ReturnsMoves DEF SameLists, SameData, old
  <2>2. ~Unstopped(o)
    <3>1. o \in Threads
      BY DEF Threads
    <3>2. Inside(o, o, "last") => \E c \in CallsOf(o) : c.step = "last"
      BY <3>1, InsideACall
    <3>3. Inside(o, o, "last") => job[o].isRunning
      BY <3>1, <3>2 DEF IInv, Calling, Passing
    <3>4. QED
      BY <1>5, <3>3 DEF Unstopped, Cold
  <2>3. \A x \in Ops : StoppedBy(old, x) => ~Unstopped(x)
    BY <1>4, <2>2
  <2>4. QED
    BY <1>1, <1>2, <1>4, <2>1, <2>3, QuietKeeps DEF InGate
<1>6. CASE /\ ~job[o].isStopped /\ ~job[o].isCompleted
           /\ job' = [job EXCEPT ![o].isStopped = TRUE]
           /\ Goes(t, "clear")
  <2>1. /\ job' \in [Ops -> Flags] /\ \A x \in Ops : x # o => job'[x] = job[x]
        /\ job'[o].isStopped /\ job'[o].isPaused = job[o].isPaused
        /\ job'[o].wasStarted = job[o].wasStarted /\ job'[o].isRunning = job[o].isRunning
        /\ job'[o].isCompleted = job[o].isCompleted /\ job'[o].executionFinished = job[o].executionFinished
    <3> DEFINE j == [job[o] EXCEPT !.isStopped = TRUE]
    <3>1. job \in [Ops -> Flags]
      BY <1>1 DEF Types, Flags
    <3>2. job' = [job EXCEPT ![o] = j]
      BY <1>6, <3>1 DEF Flags
    <3>3. /\ j \in Flags /\ j.isStopped /\ j.isPaused = job[o].isPaused
          /\ j.wasStarted = job[o].wasStarted /\ j.isRunning = job[o].isRunning
          /\ j.isCompleted = job[o].isCompleted /\ j.executionFinished = job[o].executionFinished
      BY <3>1 DEF Flags
    <3> HIDE DEF j
    <3>4. QED
      BY <3>1, <3>2, <3>3
  <2>2. Stopped(o)' /\ ~Unstopped(o)'
    BY <2>1 DEF Stopped, Unstopped, Cold
  <2>3. PICK c \in CallRecords : c.step = "clear" /\ c.op = o /\ c.flag = k.flag /\ Stacked' /\ Moves(t, {k}, {c})
    <3>1. "clear" \in Steps /\ "clear" \notin Bottoms
      BY DEF Steps, Bottoms
    <3>2. PICK c \in CallRecords : c.step = "clear" /\ c.op = k.op /\ c.flag = k.flag /\ Stacked' /\ Moves(t, {k}, {c})
      BY <1>1, <1>6, <3>1, GoesMoves
    <3>3. QED
      BY <1>3, <3>2
  <2> DEFINE new == {c}
  <2>4. Finished(o)' => ToldBy(new, o)
    <3>1. k.flag => job[o].isRunning
      BY <1>3, <1>6 DEF Started, Over
    <3>2. CASE ~k.flag
      BY <2>3, <3>2 DEF ToldBy, Tells
    <3>3. CASE k.flag
      BY <2>1, <3>1, <3>3 DEF Finished
    <3>4. QED
      BY <3>2, <3>3
  <2>5. \A d \in new : /\ Lasting(t, d)' /\ Passing(t, d)'
                       /\ d.step \notin {"finalizing", "working", "last", "gate", "close", "down"}
    BY <2>2, <2>3 DEF Lasting, Passing, Launches, GateSteps, Tellings, Workings
  <2>6. ~InGate(new) /\ Moves(t, old, new)
    BY <2>3 DEF InGate, GateSteps, old
  <2>7. \A x \in Ops : StoppedBy(old, x) => ~Unstopped(x)'
    BY <1>4, <2>2
  <2> HIDE DEF new
  <2>8. QED
    BY <1>1, <1>2, <1>4, <1>6, <2>1, <2>3, <2>4, <2>5, <2>6, <2>7, FlagKeeps
<1>7. QED
  BY <1>1, <1>3, <1>5, <1>6 DEF Stop

LEMMA ClearPausedKeeps ==
  ASSUME IInv, NEW t \in Threads, ClearPaused(t)
  PROVE  IInv'
<1>1. PICK k \in CallRecords :
        /\ k = Top(t) /\ Stacked /\ ~Idle(t) /\ k.step = "clear" /\ Lasting(t, k) /\ Types
  BY TopCall DEF ClearPaused, IInv
<1>2. SameLists /\ untold' = untold /\ concurrency' \in Concurrencies
  BY DEF ClearPaused, SameLists, lists, IInv, Types
<1>3. PICK o \in Ops : o = k.op /\ Stopped(o)
  BY <1>1 DEF Lasting
<1> DEFINE old == {k}
<1>4. /\ ~LooksBy(old)
      /\ \A x \in Ops : ~PerformedBy(t, old, x) /\ ~StartedBy(old, x) /\ ~StoppedBy(old, x)
      /\ \A x \in Ops : ToldBy(old, x) => x = o /\ ~k.flag
  BY <1>1, <1>3 DEF LooksBy, Looks, PerformedBy, ToldBy, Tells, StoppedBy, StartedBy, Launches, GateSteps
<1>5. /\ job' \in [Ops -> Flags] /\ \A x \in Ops : x # o => job'[x] = job[x]
      /\ ~job'[o].isPaused /\ job'[o].isStopped = job[o].isStopped
      /\ job'[o].wasStarted = job[o].wasStarted /\ job'[o].isRunning = job[o].isRunning
      /\ job'[o].isCompleted = job[o].isCompleted /\ job'[o].executionFinished = job[o].executionFinished
  <2> DEFINE j == [job[o] EXCEPT !.isPaused = FALSE]
  <2>1. job \in [Ops -> Flags]
    BY <1>1 DEF Types, Flags
  <2>2. job' = [job EXCEPT ![o] = j]
    BY <1>1, <1>3, <2>1 DEF ClearPaused, Flags
  <2>3. /\ j \in Flags /\ ~j.isPaused /\ j.isStopped = job[o].isStopped
        /\ j.wasStarted = job[o].wasStarted /\ j.isRunning = job[o].isRunning
        /\ j.isCompleted = job[o].isCompleted /\ j.executionFinished = job[o].executionFinished
    BY <2>1 DEF Flags
  <2> HIDE DEF j
  <2>4. QED
    BY <2>1, <2>2, <2>3
<1>6. Stopped(o)' /\ Resumed(o)'
  BY <1>3, <1>5 DEF Stopped, Resumed
<1>7. Finished(o)' => Finished(o)
  BY <1>2, <1>5 DEF Finished, Active, Over, SameLists
<1>8. PICK new \in SUBSET CallRecords :
        /\ Stacked' /\ Moves(t, old, new)
        /\ \A c \in new : c.step = "tell" /\ c.op = o
        /\ ~k.flag => \E c \in new : c.step = "tell" /\ c.op = o
  <2>1. CASE k.flag
    <3>1. Returns(t)
      BY <1>1, <2>1 DEF ClearPaused
    <3>2. Stacked' /\ Moves(t, {k}, {})
      BY <1>1, <3>1, ReturnsMoves
    <3>3. QED
      BY <2>1, <3>2
  <2>2. CASE ~k.flag
    <3>1. "tell" \in Steps /\ "tell" \notin Bottoms
      BY DEF Steps, Bottoms
    <3>2. Goes(t, "tell")
      BY <1>1, <2>2 DEF ClearPaused
    <3>3. PICK c \in CallRecords : c.step = "tell" /\ c.op = k.op /\ Stacked' /\ Moves(t, {k}, {c})
      BY <1>1, <3>1, <3>2, GoesMoves
    <3>4. QED
      BY <1>3, <3>3
  <2>3. QED
    BY <2>1, <2>2
<1> HIDE DEF old
<1>9. \A c \in new : /\ Lasting(t, c)' /\ Passing(t, c)'
                     /\ c.step \notin {"finalizing", "working", "last", "gate", "close", "down"}
  BY <1>6, <1>8 DEF Lasting, Passing, Launches, GateSteps, Tellings, Workings
<1>10. ~InGate(new)
  BY <1>8 DEF InGate, GateSteps
<1>11. \A x \in Ops : ToldBy(old, x) => ToldBy(new, x) \/ ~Finished(x)'
  BY <1>4, <1>8 DEF ToldBy, Tells
<1>12. QED
  BY <1>1, <1>2, <1>4, <1>5, <1>7, <1>8, <1>9, <1>10, <1>11, FlagKeeps

-----------------------------------------------------------------------------
(* Steps that change what is listed.                                          *)

LEMMA ListStepGrows ==
  ASSUME IInv, job' = job, shuttingDown => shuttingDown',
         NEW t \in Threads, NEW old, NEW new, Moves(t, old, new), t \in Ops => ~Idle(t),
         \A c \in new : c.step \notin {"working", "last"},
         \A x \in Ops : Admitted(x) => Admitted(x)'
  PROVE  Grows
<1>1. \A x \in Ops : /\ Over(x)' <=> Over(x)
                     /\ Started(x)' <=> Started(x)
                     /\ Ended(x)' <=> Ended(x)
                     /\ Stopped(x)' <=> Stopped(x)
                     /\ Resumed(x)' <=> Resumed(x)
  BY DEF Over, Started, Ended, Stopped, Resumed
<1>2. \A x \in Ops : Idle(x) => Idle(x)'
  BY IdleKept
<1>3. \A x \in Ops : Settled(x) => Settled(x)'
  <2> SUFFICES ASSUME NEW x \in Ops, Settled(x) PROVE Settled(x)'
    OBVIOUS
  <2>1. Over(x)'
    BY <1>1 DEF Settled
  <2>2. \A c \in new : c.step \in {"working", "last"} => ~job[t].isStopped \/ Working(t)
    OBVIOUS
  <2>3. QED
    BY <2>1, <2>2, SettledKept
<1>4. QED
  BY <1>1, <1>2, <1>3 DEF Grows

LEMMA ListStepKeeps ==
  ASSUME IInv, job' = job, untold' = untold, Grows,
         NEW t \in Threads, NEW old, NEW new, Moves(t, old, new),
         \A x \in Ops : Gone(x)' => Gone(x) \/ Settled(x),
         InGate(new) => InGate(old),
         \A c \in new : Lasting(t, c)' /\ Passing(t, c)',
         \A u \in Threads : \A c \in CallsOf(u) :
           c.step = "finalizing" /\ c.op \in inProgress =>
             c.op \in inProgress' \/ (u = t /\ c \in old /\ c \notin CallsOf(u)')
  PROVE  Gate' /\ Jobs' /\ Calling'
<1>1. Types /\ Stacks /\ Gate /\ Jobs /\ Calling /\ Stacked
  BY DEF IInv, Stacked, Types
<1>2. Gate'
  BY <1>1, GateKept
<1>3. Jobs'
  BY <1>1, JobsKept
<1>4. Calling'
  <2>1. \A u \in Threads : \A c \in CallsOf(u) :
          Passing(u, c) => Passing(u, c)' \/ (u = t /\ c \in old /\ c \notin CallsOf(u)')
    <3> SUFFICES ASSUME NEW u \in Threads, NEW c \in CallsOf(u), Passing(u, c),
                        ~(u = t /\ c \in old /\ c \notin CallsOf(u)')
                 PROVE  Passing(u, c)'
      OBVIOUS
    <3>1. c \in CallRecords /\ Lasting(u, c)
      BY <1>1, CallsAreRecords DEF Calling
    <3>2. c.step \in {"record", "launch"} => Head(c.todo) \in Ops
      BY <3>1, RecordOfCall DEF Lasting, GateSteps
    <3>3. c.step = "launch" => Idle(Head(c.todo))'
      BY <3>2 DEF Passing, Grows
    <3>4. c.step = "finalizing" => c.op \in inProgress'
      BY DEF Passing
    <3>5. QED
      BY <3>3, <3>4 DEF Passing
  <2>2. QED
    BY <1>1, <2>1, CallingKept
<1>5. QED
  BY <1>2, <1>3, <1>4

(* What the pool reads of a job is what the job was. *)
LEMMA SameJobs ==
  ASSUME job' = job
  PROVE  \A x \in Ops : /\ Over(x)' <=> Over(x)
                        /\ Cold(x)' <=> Cold(x)
                        /\ (job'[x].isRunning <=> job[x].isRunning)
                        /\ (job'[x].wasStarted <=> job[x].wasStarted)
                        /\ (job'[x].executionFinished <=> job[x].executionFinished)
BY DEF Over, Cold

LEMMA TryEnqueueKeeps ==
  ASSUME IInv, NEW t \in Enqueuers, NEW o \in Ops, TryEnqueue(t, o)
  PROVE  IInv'
<1>1. /\ ~shuttingDown /\ ~Listed(o) /\ State(o) = "Cold" /\ pending' = Append(pending, o)
      /\ concurrency' = concurrency /\ running' = running /\ finalizing' = finalizing
      /\ inProgress' = inProgress /\ shuttingDown' = shuttingDown /\ snapshot' = snapshot /\ job' = job
      /\ released' = released /\ untold' = untold
  BY DEF TryEnqueue
<1>2. Types /\ Lists /\ Alone /\ Releases /\ Live /\ Wakeful /\ Shutdowns /\ Calling /\ Jobs
  BY DEF IInv
<1>3. t \in Threads /\ t \notin Ops /\ Stacked
  BY PoolAssumption DEF Threads, IInv, Types, Stacked
<1>4. PICK c \in CallRecords : c.step = "gather" /\ Stacked' /\ Moves(t, {}, {c})
  <2>1. StartPending \in CallRecords /\ StartPending.step = "gather"
    BY AboutCall DEF StartPending, Steps
  <2>2. Enters(t, StartPending)
    BY DEF TryEnqueue
  <2>3. QED
    BY <1>3, <2>1, <2>2, EntersMoves
<1>5. /\ pending' \in Seq(Ops) /\ ToSet(pending') = ToSet(pending) \cup {o}
      /\ IsInjective(pending) /\ o \notin ToSet(pending) => IsInjective(pending')
  BY <1>1, <1>2, Appended DEF Types
<1>6. o \notin ToSet(pending) /\ o \notin ToSet(running) /\ o \notin ToSet(finalizing)
  BY <1>1 DEF Listed
<1>7. Types' /\ Lists'
  <2>1. Types'
    BY <1>1, <1>2, <1>4, <1>5 DEF Types, Stacked
  <2>2. Lists'
    BY <1>1, <1>2, <1>5, <1>6 DEF Lists, Apart
  <2>3. QED
    BY <2>1, <2>2
<1>8. Cold(o) /\ ~Over(o)
  BY <1>1, States DEF Cold, Over
<1>9. \A x \in Ops : (Admitted(x)' <=> Admitted(x)) /\ (Gone(x)' <=> Gone(x))
  BY <1>1 DEF Admitted, Gone
<1> DEFINE new == {c}
<1>10. /\ \A d \in new : d.step = "gather"
       /\ ~InGate(new) /\ Moves(t, {}, new) /\ new # {}
  BY <1>4 DEF InGate, GateSteps
<1> HIDE DEF new
<1>11. Grows
  BY <1>1, <1>3, <1>9, <1>10, ListStepGrows
<1>12. \A d \in new : Lasting(t, d)' /\ Passing(t, d)'
  BY <1>10 DEF Lasting, Passing, Launches, GateSteps, Tellings, Workings
<1>13. Gate' /\ Jobs' /\ Calling'
  BY <1>1, <1>3, <1>9, <1>10, <1>11, <1>12, ListStepKeeps
<1>14. Alone'
  BY <1>2, <1>3, <1>10, AloneKept
<1>15. Releases'
  <2> SUFFICES ASSUME NEW x \in Ops, released[x] = 1 PROVE ~Listed(x)'
    BY <1>1, <1>2 DEF Releases
  <2>1. ~Listed(x) /\ Over(x)
    BY <1>2 DEF Releases, Jobs, JobOK, Gone, Settled
  <2>2. x # o
    BY <1>8, <2>1
  <2>3. QED
    BY <1>1, <1>5, <2>1, <2>2 DEF Listed
<1>16. Live'
  <2>1. \A x \in Ops : ~PerformedBy(t, {}, x) /\ ~ToldBy({}, x) /\ ~StartedBy({}, x)
    BY DEF PerformedBy, ToldBy, Tells, StartedBy
  <2>2. \A x \in Ops : Finished(x)' => Finished(x)
    BY <1>1, <1>5, <1>8, SameJobs DEF Finished, Active
  <2>3. \A x \in Ops : Awaited(x)' => Awaited(x)
    BY <1>1, SameJobs DEF Awaited
  <2>4. QED
    BY <1>1, <1>2, <1>3, <1>10, <2>1, <2>2, <2>3, LiveKept
<1>17. Wakeful'
  <2>1. \E d \in new : Looks(d)'
    BY <1>10 DEF Looks
  <2>2. QED
    BY <1>2, <1>3, <1>10, <2>1, WakefulKept
<1>18. Shutdowns'
  <2>1. \A d \in new : ShutdownOK(t, d)'
    BY <1>10 DEF ShutdownOK
  <2>2. snapshot \in Seq(Ops) /\ snapshot' \in Seq(Ops)
    BY <1>1, <1>2 DEF Types
  <2>3. QED
    BY <1>1, <1>2, <1>3, <1>10, <2>1, <2>2, ShutdownsKept
<1>19. QED
  BY <1>4, <1>7, <1>13, <1>14, <1>15, <1>16, <1>17, <1>18 DEF IInv, Stacked

LEMMA WithoutThat ==
  ASSUME NEW l \in Seq(Ops), NEW o
  PROVE  /\ Without(l, o) \in Seq(Ops) /\ ToSet(Without(l, o)) = ToSet(l) \ {o}
         /\ IsInjective(l) => IsInjective(Without(l, o))
BY OnlyThat DEF Without

(* What Gather takes out of the queue, and that it leaves what is queued      *)
(* behind only when there is no room.                                         *)
LEMMA Gathered ==
  ASSUME Types, Lists, NEW eager
  PROVE  LET jump   == Only(pending, eager)
             queue  == Only(pending, Ops \ eager)
             room   == Room(running \o jump)
             taken  == IF room < Len(queue) THEN room ELSE Len(queue)
             chosen == jump \o SubSeq(queue, 1, taken)
             rest   == SubSeq(queue, taken + 1, Len(queue))
             run    == running \o chosen
         IN  /\ chosen \in Seq(Ops) /\ rest \in Seq(Ops) /\ run \in Seq(Ops)
             /\ IsInjective(rest) /\ IsInjective(run) /\ Apart(rest, run)
             /\ ToSet(rest) \cup ToSet(chosen) = ToSet(pending)
             /\ ToSet(run) = ToSet(running) \cup ToSet(chosen)
             /\ rest # <<>> => Len(run) >= concurrency
             /\ ToSet(run) \subseteq ToSet(running) \cup eager \/ Len(run) <= concurrency
<1> DEFINE jump   == Only(pending, eager)
           queue  == Only(pending, Ops \ eager)
           n      == Len(running \o jump)
           room   == Room(running \o jump)
           taken  == IF room < Len(queue) THEN room ELSE Len(queue)
           first  == SubSeq(queue, 1, taken)
           rest   == SubSeq(queue, taken + 1, Len(queue))
           chosen == jump \o first
           run    == running \o chosen
<1>1. /\ pending \in Seq(Ops) /\ running \in Seq(Ops) /\ concurrency \in Int
      /\ IsInjective(pending) /\ IsInjective(running) /\ Apart(pending, running)
  <2>1. Concurrencies \subseteq Int
    BY PoolAssumption DEF Concurrencies, AtLeastOne
  <2>2. QED
    BY <2>1 DEF Types, Lists
<1>2. /\ jump \in Seq(Ops) /\ ToSet(jump) = ToSet(pending) \cap eager /\ IsInjective(jump)
      /\ queue \in Seq(Ops) /\ ToSet(queue) = ToSet(pending) \cap (Ops \ eager) /\ IsInjective(queue)
  BY <1>1, OnlyThat
<1>3. room = IF n < concurrency THEN concurrency - n ELSE 0
  BY DEF Room
<1> HIDE DEF jump, queue, room
<1>4. n \in Nat /\ n = Len(running) + Len(jump) /\ Len(running) \in Nat /\ Len(jump) \in Nat /\ Len(queue) \in Nat
  BY <1>1, <1>2
<1> HIDE DEF n
<1>5. room \in Nat /\ taken \in 0 .. Len(queue) /\ (taken = room \/ taken = Len(queue)) /\ taken <= room
  BY <1>1, <1>3, <1>4
<1> HIDE DEF taken
<1>6. /\ first \in Seq(Ops) /\ rest \in Seq(Ops)
      /\ Len(first) = taken /\ Len(rest) = Len(queue) - taken
      /\ ToSet(first) \cup ToSet(rest) = ToSet(queue)
      /\ IsInjective(first) /\ IsInjective(rest) /\ Apart(first, rest)
  BY <1>2, <1>5, Parted
<1> HIDE DEF first, rest
<1>7. Apart(jump, first)
  BY <1>2, <1>6 DEF Apart
<1>8. /\ chosen \in Seq(Ops) /\ Len(chosen) = Len(jump) + taken
      /\ ToSet(chosen) = ToSet(jump) \cup ToSet(first) /\ IsInjective(chosen)
  <2>1. jump \in Seq(Ops) /\ first \in Seq(Ops) /\ IsInjective(jump) /\ IsInjective(first)
    BY <1>2, <1>6
  <2>2. /\ chosen \in Seq(Ops) /\ Len(chosen) = Len(jump) + Len(first)
        /\ ToSet(chosen) = ToSet(jump) \cup ToSet(first) /\ IsInjective(chosen)
    BY <1>7, <2>1, Joined
  <2>3. QED
    BY <1>6, <2>2
<1> HIDE DEF chosen
<1>9. ToSet(rest) \cup ToSet(chosen) = ToSet(pending)
  <2>1. ToSet(pending) \subseteq Ops
    BY <1>1 DEF ToSet
  <2>2. QED
    BY <1>2, <1>6, <1>8, <2>1
<1>10. Apart(running, chosen)
  BY <1>1, <1>9 DEF Apart
<1>11. /\ run \in Seq(Ops) /\ Len(run) = Len(running) + Len(chosen)
       /\ ToSet(run) = ToSet(running) \cup ToSet(chosen) /\ IsInjective(run)
  BY <1>1, <1>8, <1>10, Joined
<1> HIDE DEF run
<1>12. Apart(rest, run)
  <2>1. ToSet(rest) \cap ToSet(chosen) = {}
    BY <1>2, <1>6, <1>8 DEF Apart
  <2>2. ToSet(rest) \cap ToSet(running) = {}
    BY <1>1, <1>9 DEF Apart
  <2>3. QED
    BY <1>11, <2>1, <2>2 DEF Apart
<1>13. Len(run) = n + taken
  BY <1>4, <1>5, <1>8, <1>11
<1>14. rest # <<>> => Len(run) >= concurrency
  <2> SUFFICES ASSUME rest # <<>> PROVE Len(run) >= concurrency
    OBVIOUS
  <2>1. Len(rest) # 0
    BY <1>6
  <2>2. taken = room
    BY <1>4, <1>5, <1>6, <2>1
  <2>3. concurrency \in Int
    BY <1>1
  <2>4. n + room >= concurrency
    <3>1. n \in Nat /\ room \in Nat
      BY <1>4, <1>5
    <3>2. CASE n < concurrency
      <4>1. room = concurrency - n
        BY <1>3, <3>2
      <4>2. QED
        BY <2>3, <3>1, <4>1
    <3>3. CASE ~(n < concurrency)
      BY <2>3, <3>1, <3>3
    <3>4. QED
      BY <3>2, <3>3
  <2>5. QED
    BY <1>13, <2>2, <2>4
<1>15. CASE taken = 0
  <2>1. ToSet(first) = {}
    BY <1>6, <1>15 DEF ToSet
  <2>2. ToSet(run) \subseteq ToSet(running) \cup eager
    BY <1>2, <1>8, <1>11, <2>1
  <2>3. QED
    BY <1>6, <1>8, <1>9, <1>11, <1>12, <1>14, <2>2 DEF run, chosen, rest, first, taken, n, room, queue, jump
<1>16. CASE taken # 0
  <2>1. Len(run) <= concurrency
    BY <1>1, <1>3, <1>4, <1>5, <1>13, <1>16
  <2>2. QED
    BY <1>6, <1>8, <1>9, <1>11, <1>12, <1>14, <2>1 DEF run, chosen, rest, first, taken, n, room, queue, jump
<1>17. QED
  BY <1>15, <1>16

LEMMA GatherKeeps ==
  ASSUME IInv, NEW t \in Threads, Gather(t)
  PROVE  IInv'
<1>1. PICK k \in CallRecords : k = Top(t) /\ Stacked /\ ~Idle(t) /\ k.step = "gather"
  BY TopCall DEF Gather
<1>2. /\ concurrency' = concurrency /\ finalizing' = finalizing
      /\ inProgress' = inProgress /\ shuttingDown' = shuttingDown /\ snapshot' = snapshot /\ job' = job
      /\ released' = released /\ untold' = untold
  BY DEF Gather
<1>3. Types /\ Lists /\ Alone /\ Releases /\ Live /\ Wakeful /\ Shutdowns /\ Calling /\ Jobs
  BY DEF IInv
<1> DEFINE old == {k}
<1>4. \A x \in Ops : ~PerformedBy(t, old, x) /\ ~ToldBy(old, x) /\ ~StartedBy(old, x) /\ ~StoppedBy(old, x)
  BY <1>1, FinalizeCall
<1> HIDE DEF old
<1>5. CASE shuttingDown
  <2>1. Returns(t) /\ SameData
    BY <1>2, <1>5 DEF Gather, SameData
  <2>2. Stacked' /\ Moves(t, old, {})
    BY <1>1, <2>1, ReturnsMoves DEF old
  <2>3. ~Starved
    BY <1>5 DEF Starved
  <2>4. concurrency' \in Concurrencies
    BY <1>2, <1>3 DEF Types
  <2>5. QED
    BY <1>1, <1>4, <2>1, <2>2, <2>3, <2>4, QuietKeeps DEF InGate
<1>6. CASE ~shuttingDown
  <2>1. PICK eager \in {Impatient, {}} :
           LET jump  == Only(pending, eager)
               queue == Only(pending, Ops \ eager)
               room  == Room(running \o jump)
               taken == IF room < Len(queue) THEN room ELSE Len(queue)
               chosen == jump \o SubSeq(queue, 1, taken)
           IN  /\ pending' = SubSeq(queue, taken + 1, Len(queue))
               /\ running' = running \o chosen
               /\ Becomes(t, Call("start", NoOp, chosen, FALSE))
    BY <1>6 DEF Gather
  <2>2. PICK chosen :
          /\ chosen \in Seq(Ops) /\ pending' \in Seq(Ops) /\ running' \in Seq(Ops)
          /\ IsInjective(pending') /\ IsInjective(running') /\ Apart(pending, running)'
          /\ ToSet(pending') \cup ToSet(chosen) = ToSet(pending)
          /\ ToSet(running') = ToSet(running) \cup ToSet(chosen)
          /\ pending' # <<>> => Len(running') >= concurrency
          /\ Becomes(t, Call("start", NoOp, chosen, FALSE))
    <3> DEFINE jump  == Only(pending, eager)
               queue == Only(pending, Ops \ eager)
               room  == Room(running \o jump)
               taken == IF room < Len(queue) THEN room ELSE Len(queue)
               chosen == jump \o SubSeq(queue, 1, taken)
    <3>1. /\ pending' = SubSeq(queue, taken + 1, Len(queue)) /\ running' = running \o chosen
          /\ Becomes(t, Call("start", NoOp, chosen, FALSE))
      BY <2>1
    <3> DEFINE rest == SubSeq(queue, taken + 1, Len(queue))
               run  == running \o chosen
    <3>2. /\ chosen \in Seq(Ops) /\ rest \in Seq(Ops) /\ run \in Seq(Ops)
          /\ IsInjective(rest) /\ IsInjective(run) /\ Apart(rest, run)
          /\ ToSet(rest) \cup ToSet(chosen) = ToSet(pending)
          /\ ToSet(run) = ToSet(running) \cup ToSet(chosen)
          /\ rest # <<>> => Len(run) >= concurrency
      BY <1>3, Gathered
    <3>3. pending' = rest /\ running' = run
      BY <3>1
    <3> HIDE DEF jump, queue, room, taken, chosen, rest, run
    <3>4. Apart(pending, running)' <=> Apart(rest, run)
      BY <3>3 DEF Apart
    <3>5. QED
      BY <3>1, <3>2, <3>3, <3>4
  <2>3. PICK c \in CallRecords : c.step = "start" /\ c.todo = chosen /\ Stacked' /\ Moves(t, old, {c})
    <3> DEFINE c == Call("start", NoOp, chosen, FALSE)
    <3>1. "start" \in Steps /\ "start" \notin Bottoms /\ chosen \in Seq(Ops)
      BY <2>2 DEF Steps, Bottoms
    <3>2. c \in CallRecords /\ c.step = "start" /\ c.todo = chosen
      BY <3>1 DEF Call, CallRecords
    <3>3. Becomes(t, c)
      BY <2>2
    <3> HIDE DEF c
    <3>4. Stacked' /\ Moves(t, old, {c})
      BY <1>1, <3>1, <3>2, <3>3, BecomesMoves DEF old
    <3>5. QED
      BY <3>2, <3>4
  <2>4. Types'
    BY <1>2, <1>3, <2>2, <2>3 DEF Types, Stacked
  <2>5. Lists'
    <3>1. Apart(pending, finalizing)' /\ Apart(running, finalizing)'
      BY <1>2, <1>3, <2>2 DEF Lists, Apart
    <3>2. QED
      BY <1>2, <1>3, <2>2, <3>1 DEF Lists
  <2>6. \A x \in Ops : /\ Active(x)' <=> Active(x)
                       /\ Listed(x)' <=> Listed(x)
                       /\ Gone(x)' <=> Gone(x)
                       /\ Admitted(x) => Admitted(x)'
    BY <1>2, <2>2 DEF Active, Listed, Gone, Admitted
  <2> DEFINE new == {c}
  <2>7. /\ \A d \in new : d.step = "start" /\ d.todo = chosen
        /\ ~InGate(new) /\ Moves(t, old, new) /\ c \in new
    BY <2>3 DEF InGate, GateSteps
  <2> HIDE DEF new
  <2>8. Grows
    BY <1>1, <1>2, <2>6, <2>7, ListStepGrows
  <2>9. \A x \in ToSet(chosen) : Admitted(x)'
    BY <2>2 DEF Admitted
  <2>10. \A d \in new : Lasting(t, d)' /\ Passing(t, d)'
    BY <2>7, <2>9 DEF Lasting, Passing, Launches, GateSteps, Tellings, Workings
  <2>11. Gate' /\ Jobs' /\ Calling'
    BY <1>2, <2>6, <2>7, <2>8, <2>10, ListStepKeeps
  <2>12. Alone'
    BY <1>3, <2>7, AloneKept
  <2>13. Releases'
    BY <1>2, <1>3, <2>6 DEF Releases
  <2>14. Live'
    <3>1. \A x \in Ops : Finished(x)' => Finished(x)
      BY <1>2, <2>6, SameJobs DEF Finished
    <3>2. \A x \in ToSet(chosen) : StartedBy(new, x)
      BY <2>3, <2>7 DEF StartedBy, Launches
    <3>3. \A x \in Ops : Awaited(x)' => StartedBy(new, x) \/ Awaited(x)
      BY <1>2, <2>2, <3>2, SameJobs DEF Awaited
    <3>4. QED
      BY <1>2, <1>3, <1>4, <2>7, <3>1, <3>3, LiveKept
  <2>15. Wakeful'
    <3>1. ~Starved'
      <4>1. concurrency \in Concurrencies
        BY <1>3 DEF Types
      <4>2. concurrency \in Int
        BY <4>1, PoolAssumption DEF Concurrencies, AtLeastOne
      <4>3. pending' # <<>> => ~(Len(running') < concurrency)
        BY <2>2, <4>2
      <4>4. QED
        BY <4>1, <4>3 DEF Starved
    <3>2. QED
      BY <3>1 DEF Wakeful
  <2>16. Shutdowns'
    <3>1. \A d \in new : ShutdownOK(t, d)'
      BY <2>7 DEF ShutdownOK
    <3>2. snapshot \in Seq(Ops) /\ snapshot' \in Seq(Ops)
      BY <1>2, <1>3 DEF Types
    <3>3. QED
      BY <1>2, <1>3, <1>6, <2>7, <3>1, <3>2, ShutdownsKept
  <2>17. QED
    BY <2>3, <2>4, <2>5, <2>11, <2>12, <2>13, <2>14, <2>15, <2>16 DEF IInv, Stacked
<1>7. QED
  BY <1>5, <1>6

LEMMA OperationDidFinishKeeps ==
  ASSUME IInv, NEW t \in Threads, OperationDidFinish(t)
  PROVE  IInv'
<1>1. PICK k \in CallRecords : k = Top(t) /\ Stacked /\ ~Idle(t) /\ k.step = "finish" /\ Lasting(t, k)
  BY TopCall DEF OperationDidFinish
<1>2. /\ concurrency' = concurrency
      /\ inProgress' = inProgress /\ shuttingDown' = shuttingDown /\ snapshot' = snapshot /\ job' = job
      /\ released' = released /\ untold' = untold
  BY DEF OperationDidFinish
<1>3. Types /\ Lists /\ Alone /\ Releases /\ Live /\ Wakeful /\ Shutdowns /\ Calling /\ Jobs
  BY DEF IInv
<1>4. PICK o \in Ops : o = k.op /\ Settled(o)
  BY <1>1 DEF Lasting, Tellings
<1> DEFINE old == {k}
<1>5. /\ \A x \in Ops : ~PerformedBy(t, old, x) /\ ~StartedBy(old, x) /\ ~StoppedBy(old, x)
      /\ \A x \in Ops : ToldBy(old, x) => x = o
      /\ ~LooksBy(old)
  BY <1>1, <1>4 DEF PerformedBy, ToldBy, Tells, StoppedBy, StartedBy, LooksBy, Looks, Launches, GateSteps
<1> HIDE DEF old
<1>6. CASE o \in ToSet(finalizing) \/ ~Listed(o)
  <2>1. Returns(t) /\ SameData
    BY <1>1, <1>2, <1>4, <1>6 DEF OperationDidFinish, SameData, lists
  <2>2. Stacked' /\ Moves(t, old, {})
    BY <1>1, <2>1, ReturnsMoves DEF old
  <2>3. ~Active(o)
    BY <1>3, <1>6 DEF Active, Listed, Lists, Apart
  <2>4. \A x \in Ops : ToldBy(old, x) => ~Finished(x)
    BY <1>5, <2>3 DEF Finished
  <2>5. concurrency' \in Concurrencies
    BY <1>2, <1>3 DEF Types
  <2>6. QED
    BY <1>1, <1>5, <2>1, <2>2, <2>4, <2>5, QuietKeeps DEF InGate
<1>7. CASE ~(o \in ToSet(finalizing) \/ ~Listed(o))
  <2>1. /\ finalizing' = Append(finalizing, o)
        /\ running' = Without(running, o) /\ pending' = Without(pending, o)
        /\ Becomes(t, Call("finalize", o, <<>>, TRUE))
    BY <1>1, <1>4, <1>7 DEF OperationDidFinish
  <2>2. /\ finalizing' \in Seq(Ops) /\ ToSet(finalizing') = ToSet(finalizing) \cup {o} /\ IsInjective(finalizing')
    BY <1>3, <1>7, <2>1, Appended DEF Types, Lists
  <2>3. /\ running' \in Seq(Ops) /\ ToSet(running') = ToSet(running) \ {o} /\ IsInjective(running')
        /\ pending' \in Seq(Ops) /\ ToSet(pending') = ToSet(pending) \ {o} /\ IsInjective(pending')
    BY <1>3, <2>1, WithoutThat DEF Types, Lists
  <2>4. PICK c \in CallRecords : c.step = "finalize" /\ c.op = o /\ c.flag /\ Stacked' /\ Moves(t, old, {c})
    <3> DEFINE c == Call("finalize", o, <<>>, TRUE)
    <3>1. "finalize" \in Steps /\ "finalize" \notin Bottoms /\ <<>> \in Seq(Ops)
      BY DEF Steps, Bottoms
    <3>2. c \in CallRecords /\ c.step = "finalize" /\ c.op = o /\ c.flag
      BY <3>1 DEF Call, CallRecords
    <3>3. Becomes(t, c)
      BY <2>1
    <3> HIDE DEF c
    <3>4. Stacked' /\ Moves(t, old, {c})
      BY <1>1, <3>1, <3>2, <3>3, BecomesMoves DEF old
    <3>5. QED
      BY <3>2, <3>4
  <2>5. Types'
    BY <1>2, <1>3, <2>2, <2>3, <2>4 DEF Types, Stacked
  <2>6. Lists'
    BY <1>3, <2>2, <2>3 DEF Lists, Apart
  <2>7. \A x \in Ops : /\ Active(x)' => Active(x) /\ x # o
                       /\ Listed(x)' <=> Listed(x)
                       /\ Gone(x)' => Gone(x) \/ Settled(x)
                       /\ Admitted(x) => Admitted(x)'
    BY <1>2, <1>4, <1>7, <2>2, <2>3 DEF Active, Listed, Gone, Admitted
  <2> DEFINE new == {c}
  <2>8. /\ \A d \in new : d = c /\ d.step = "finalize"
        /\ ~InGate(new) /\ Moves(t, old, new) /\ c \in new
    BY <2>4 DEF InGate, GateSteps
  <2> HIDE DEF new
  <2>9. Grows
    BY <1>1, <1>2, <2>7, <2>8, ListStepGrows
  <2>10. \A d \in new : Lasting(t, d)' /\ Passing(t, d)'
    <3>1. Settled(o)'
      BY <1>4, <2>9 DEF Grows
    <3>2. QED
      BY <2>4, <2>8, <3>1 DEF Lasting, Passing, Launches, GateSteps, Tellings, Workings
  <2>11. Gate' /\ Jobs' /\ Calling'
    BY <1>2, <2>7, <2>8, <2>9, <2>10, ListStepKeeps
  <2>12. Alone'
    BY <1>3, <2>8, AloneKept
  <2>13. Releases'
    <3>1. inProgress' \subseteq ToSet(finalizing')
      BY <1>2, <1>3, <2>2 DEF Releases
    <3>2. QED
      BY <1>2, <1>3, <2>7, <3>1 DEF Releases
  <2>14. Live'
    <3>1. \A x \in Ops : Finished(x)' => Finished(x) /\ x # o
      BY <1>2, <2>7, SameJobs DEF Finished
    <3>2. \A x \in Ops : Awaited(x)' => Awaited(x)
      BY <1>2, <2>3, SameJobs DEF Awaited
    <3>3. \A x \in Ops : Finished(x)' => Finished(x) /\ ~ToldBy(old, x)
      BY <1>5, <3>1
    <3>4. QED
      BY <1>2, <1>3, <1>5, <2>8, <3>2, <3>3, LiveKept
  <2>15. Wakeful'
    <3>1. Looks(c)'
      BY <2>2, <2>4 DEF Looks
    <3>2. QED
      BY <1>3, <2>8, <3>1, WakefulKept
  <2>16. Shutdowns'
    <3>1. \A d \in new : ShutdownOK(t, d)'
      BY <2>8 DEF ShutdownOK
    <3>2. snapshot \in Seq(Ops) /\ snapshot' \in Seq(Ops)
      BY <1>2, <1>3 DEF Types
    <3>3. \A x \in Ops : Unstopped(x)' => Unstopped(x)
      BY <1>2, <2>7, SameJobs DEF Unstopped
    <3>4. shuttingDown => Closing
      BY <1>2, <3>3 DEF Closing
    <3>5. shuttingDown' => \A x \in Ops : Listed(x)' => x \in ToSet(snapshot')
      BY <1>2, <1>3, <2>7 DEF Shutdowns
    <3>6. QED
      BY <1>3, <1>5, <2>8, <3>1, <3>2, <3>4, <3>5, ShutdownsKept
  <2>17. QED
    BY <2>4, <2>5, <2>6, <2>11, <2>12, <2>13, <2>14, <2>15, <2>16 DEF IInv, Stacked
<1>8. QED
  BY <1>6, <1>7

(* What a finalizer's step has in common, retained or released or just begun. *)
LEMMA FinalizerKeeps ==
  ASSUME IInv, Stacked', concurrency' \in Concurrencies,
         UNCHANGED <<pending, running, shuttingDown, snapshot, job, untold>>,
         finalizing' \in Seq(Ops), IsInjective(finalizing'), ToSet(finalizing') \subseteq ToSet(finalizing),
         released' \in [Ops -> Nat], \A x \in Ops : Gone(x)' <=> Gone(x),
         Releases',
         NEW t \in Threads, ~Idle(t), NEW old, NEW new, Moves(t, old, new),
         \A c \in old : c.step \in {"finalize", "finalizing"},
         \A c \in new : c.step \in {"gather", "finalizing"} /\ Passing(t, c)',
         \A c \in new : c.step = "finalizing" => c.op \in Ops /\ Settled(c.op) /\ c.op \notin inProgress,
         \A u \in Threads : \A c \in CallsOf(u) :
           c.step = "finalizing" /\ c.op \in inProgress =>
             c.op \in inProgress' \/ (u = t /\ c \in old /\ c \notin CallsOf(u)'),
         Starved => \/ \E c \in new : Looks(c)'
                    \/ ~LooksBy(old) /\ finalizing' = finalizing
  PROVE  IInv'
<1>1. Types /\ Lists /\ Alone /\ Releases /\ Live /\ Wakeful /\ Shutdowns /\ Calling /\ Jobs
  BY DEF IInv
<1>2. /\ pending' = pending /\ running' = running /\ shuttingDown' = shuttingDown /\ snapshot' = snapshot /\ job' = job
      /\ untold' = untold
  OBVIOUS
<1>3. \A x \in Ops : ~PerformedBy(t, old, x) /\ ~ToldBy(old, x) /\ ~StartedBy(old, x) /\ ~StoppedBy(old, x)
  BY Zenon DEF PerformedBy, ToldBy, Tells, StartedBy, StoppedBy, Launches, GateSteps
<1>6. \A c \in new : c.step \notin {"working", "last"} /\ c.step \notin GateSteps /\ c.step \notin {"gate", "close", "down"}
  BY DEF GateSteps
<1>7. \A x \in Ops : Admitted(x)' <=> Admitted(x)
  BY <1>2 DEF Admitted
<1>8. Grows
  BY <1>2, <1>3, <1>6, <1>7, ListStepGrows
<1>9. Types'
  <2>1. inProgress' \subseteq Ops
    <3>1. ToSet(finalizing') \subseteq Ops
      BY DEF ToSet
    <3>2. QED
      BY <3>1 DEF Releases
  <2>2. QED
    BY <1>1, <1>2, <2>1 DEF Types, Stacked
<1>10. Lists'
  BY <1>1, <1>2 DEF Lists, Apart
<1>11. \A c \in new : Lasting(t, c)'
  <2>1. \A c \in new : c.step = "finalizing" => Settled(c.op)'
    BY <1>8 DEF Grows
  <2>2. QED
    BY <2>1 DEF Lasting, Launches, GateSteps, Tellings, Workings
<1>12. Gate' /\ Jobs' /\ Calling'
  <2>1. ~InGate(new)
    BY <1>6 DEF InGate
  <2>2. QED
    BY <1>2, <1>3, <1>8, <1>11, <2>1, ListStepKeeps
<1>13. Alone'
  <2>1. \A u \in Threads : \A d \in CallsOf(u) : d.step = "finalizing" => d.op \in inProgress
    BY <1>1 DEF Calling, Passing
  <2>2. QED
    BY <1>1, <1>3, <2>1, AloneKept
<1>14. Live'
  <2>1. \A x \in Ops : (Finished(x)' => Finished(x)) /\ (Awaited(x)' => Awaited(x))
    BY <1>2, SameJobs DEF Finished, Active, Awaited
  <2>2. QED
    BY <1>1, <1>2, <1>3, <2>1, LiveKept
<1>15. Wakeful'
  <2>1. Starved' <=> Starved
    BY <1>2 DEF Starved
  <2>2. QED
    BY <1>1, <1>3, <2>1, WakefulKept
<1>16. Shutdowns'
  <2>1. \A d \in new : ShutdownOK(t, d)'
    BY <1>6 DEF ShutdownOK
  <2>2. snapshot \in Seq(Ops) /\ snapshot' \in Seq(Ops)
    BY <1>1, <1>2 DEF Types
  <2>3. \A x \in Ops : (Unstopped(x)' => Unstopped(x)) /\ (Listed(x)' => Listed(x))
    BY <1>2, SameJobs DEF Unstopped, Listed
  <2>4. shuttingDown => Closing
    BY <1>2, <2>3 DEF Closing
  <2>5. shuttingDown' => \A x \in Ops : Listed(x)' => x \in ToSet(snapshot')
    BY <1>1, <1>2, <2>3 DEF Shutdowns
  <2>6. ~InGate(new)
    BY <1>6 DEF InGate
  <2>7. QED
    BY <1>1, <1>3, <2>1, <2>2, <2>4, <2>5, <2>6, ShutdownsKept
<1>17. QED
  BY <1>9, <1>10, <1>12, <1>13, <1>14, <1>15, <1>16 DEF IInv, Stacked

LEMMA RetryFinalizationKeeps ==
  ASSUME IInv, NEW t \in Threads, RetryFinalization(t)
  PROVE  IInv'
<1>1. PICK k \in CallRecords : k = Top(t) /\ Stacked /\ ~Idle(t) /\ k.step = "finalize" /\ Lasting(t, k)
  BY TopCall DEF RetryFinalization
<1>2. /\ concurrency' = concurrency /\ pending' = pending /\ running' = running /\ finalizing' = finalizing
      /\ shuttingDown' = shuttingDown /\ snapshot' = snapshot /\ job' = job /\ released' = released /\ untold' = untold
  BY DEF RetryFinalization, lists
<1>3. Types /\ Lists /\ Releases /\ Calling
  BY DEF IInv
<1>4. PICK o \in Ops : o = k.op /\ Settled(o)
  BY <1>1 DEF Lasting, Tellings
<1>5. CASE o \notin ToSet(finalizing) \/ o \in inProgress
  <2>1. UNCHANGED inProgress
    BY <1>1, <1>4, <1>5 DEF RetryFinalization
  <2>2. QED
    BY <1>1, <1>4, <1>5, <2>1, RetryReturnsKeeps
<1>6. CASE o \in ToSet(finalizing) /\ o \notin inProgress
  <2>1. inProgress' = inProgress \cup {o} /\ Goes(t, "finalizing")
    BY <1>1, <1>4, <1>6 DEF RetryFinalization
  <2>2. PICK c \in CallRecords : /\ c.step = "finalizing" /\ c.op = o /\ c.flag = k.flag
                                 /\ Stacked' /\ Moves(t, {k}, {c})
    <3>1. "finalizing" \in Steps /\ "finalizing" \notin Bottoms
      BY DEF Steps, Bottoms
    <3>2. QED
      BY <1>1, <1>4, <2>1, <3>1, GoesMoves
  <2>3. /\ concurrency' \in Concurrencies /\ finalizing' \in Seq(Ops) /\ IsInjective(finalizing')
        /\ released' \in [Ops -> Nat]
    BY <1>2, <1>3 DEF Types, Lists
  <2>4. \A x \in Ops : (Gone(x)' <=> Gone(x)) /\ (Listed(x)' <=> Listed(x))
    BY <1>2 DEF Gone, Listed
  <2>5. Releases'
    <3>1. inProgress' \subseteq ToSet(finalizing')
      BY <1>2, <1>3, <1>6, <2>1 DEF Releases
    <3>2. QED
      BY <1>2, <1>3, <2>4, <3>1 DEF Releases
  <2>6. Passing(t, c)'
    BY <2>1, <2>2 DEF Passing
  <2>7. Looks(k) => Looks(c)'
    BY <1>1, <1>2, <1>4, <2>2 DEF Looks
  <2> DEFINE new == {c}
             old == {k}
  <2>8. /\ \A d \in new : d.step \in {"gather", "finalizing"} /\ Passing(t, d)'
        /\ \A d \in new : d.step = "finalizing" => d.op \in Ops /\ Settled(d.op) /\ d.op \notin inProgress
        /\ Moves(t, old, new)
        /\ \A d \in old : d.step \in {"finalize", "finalizing"}
    BY <1>1, <1>4, <1>6, <2>2, <2>6
  <2>9. LooksBy(old) => \E d \in new : Looks(d)'
    BY <2>7 DEF LooksBy
  <2> HIDE DEF new, old
  <2>10. \A u \in Threads : \A d \in CallsOf(u) :
           d.step = "finalizing" /\ d.op \in inProgress =>
             d.op \in inProgress' \/ (u = t /\ d \in old /\ d \notin CallsOf(u)')
    BY <2>1
  <2>11. ToSet(finalizing') \subseteq ToSet(finalizing)
    BY <1>2
  <2>12. QED
    BY <1>1, <1>2, <2>2, <2>3, <2>4, <2>5, <2>8, <2>9, <2>10, <2>11, FinalizerKeeps
<1>7. QED
  BY <1>5, <1>6

(* While a thread finalizes an operation no other call of that kind is about it. *)
LEMMA AloneWith ==
  ASSUME IInv, NEW t \in Threads, At(t, "finalizing"), NEW u \in Threads, NEW c \in CallsOf(u),
         c.step = "finalizing", c.op = Top(t).op
  PROVE  u = t /\ c = Top(t)
<1>1. /\ Stacked /\ ~Idle(t) /\ Top(t).step = "finalizing" /\ Top(t) \in CallsOf(t)
  BY TopCall
<1>2. u = t
  BY <1>1 DEF IInv, Alone
<1>3. QED
  BY <1>1, <1>2, TopOfStack DEF Callers

LEMMA RetainKeeps ==
  ASSUME IInv, NEW t \in Threads, Retain(t)
  PROVE  IInv'
<1>1. PICK k \in CallRecords : /\ k = Top(t) /\ Stacked /\ ~Idle(t) /\ k.step = "finalizing"
                               /\ At(t, "finalizing") /\ StartOthers(t)
  BY TopCall DEF Retain
<1>2. /\ concurrency' = concurrency /\ pending' = pending /\ running' = running /\ finalizing' = finalizing
      /\ shuttingDown' = shuttingDown /\ snapshot' = snapshot /\ job' = job /\ released' = released /\ untold' = untold
      /\ inProgress' = inProgress \ {k.op}
  BY <1>1 DEF Retain, lists
<1>3. Types /\ Lists /\ Releases /\ Calling
  BY DEF IInv
<1>4. PICK new \in SUBSET CallRecords :
           /\ Stacked' /\ Moves(t, {k}, new)
           /\ \A c \in new : c.step = "gather" /\ Passing(t, c)'
           /\ k.flag => \E c \in new : c.step = "gather"
           /\ k \notin CallsOf(t)'
  <2>1. Top(t).step \in {"finalize", "finalizing"}
    BY <1>1
  <2>2. QED
    BY <1>1, <2>1, StartOthersMoves
<1>5. /\ concurrency' \in Concurrencies /\ finalizing' \in Seq(Ops) /\ IsInjective(finalizing')
      /\ released' \in [Ops -> Nat] /\ ToSet(finalizing') \subseteq ToSet(finalizing)
  BY <1>2, <1>3 DEF Types, Lists
<1>6. \A x \in Ops : (Gone(x)' <=> Gone(x)) /\ (Listed(x)' <=> Listed(x))
  BY <1>2 DEF Gone, Listed
<1>7. Releases'
  <2>1. inProgress' \subseteq ToSet(finalizing')
    BY <1>2, <1>3 DEF Releases
  <2>2. QED
    BY <1>2, <1>3, <1>6, <2>1 DEF Releases
<1> DEFINE old == {k}
<1>8. \A u \in Threads : \A d \in CallsOf(u) :
           d.step = "finalizing" /\ d.op \in inProgress =>
             d.op \in inProgress' \/ (u = t /\ d \in old /\ d \notin CallsOf(u)')
  <2> SUFFICES ASSUME NEW u \in Threads, NEW d \in CallsOf(u), d.step = "finalizing", d.op = k.op
               PROVE  u = t /\ d \in {k} /\ d \notin CallsOf(u)'
    BY <1>2
  <2>1. u = t /\ d = k
    BY <1>1, AloneWith
  <2>2. QED
    BY <1>4, <2>1
<1>9. Starved => \/ \E c \in new : Looks(c)'
                 \/ ~LooksBy(old) /\ finalizing' = finalizing
  <2>1. LooksBy(old) => k.flag
    BY <1>1 DEF LooksBy, Looks
  <2>2. k.flag => \E c \in new : Looks(c)'
    BY <1>4 DEF Looks
  <2>3. QED
    BY <1>2, <2>1, <2>2
<1>10. /\ \A c \in old : c.step \in {"finalize", "finalizing"}
       /\ Moves(t, old, new)
       /\ \A c \in new : c.step \in {"gather", "finalizing"} /\ Passing(t, c)'
       /\ \A c \in new : c.step = "finalizing" => c.op \in Ops /\ Settled(c.op) /\ c.op \notin inProgress
  BY <1>1, <1>4
<1> HIDE DEF old
<1>11. UNCHANGED <<pending, running, shuttingDown, snapshot, job, untold>>
  BY <1>2
<1>12. QED
  BY <1>1, <1>4, <1>5, <1>6, <1>7, <1>8, <1>9, <1>10, <1>11, FinalizerKeeps

LEMMA ReleaseKeeps ==
  ASSUME IInv, NEW t \in Threads, Release(t)
  PROVE  IInv'
<1>1. PICK k \in CallRecords : /\ k = Top(t) /\ Stacked /\ ~Idle(t) /\ k.step = "finalizing"
                               /\ At(t, "finalizing") /\ Lasting(t, k) /\ Passing(t, k)
  BY TopCall DEF Release
<1>2. PICK o \in Ops : o = k.op /\ o \in inProgress
  BY <1>1 DEF Lasting, Passing, Tellings
<1>3. /\ concurrency' = concurrency /\ pending' = pending /\ running' = running
      /\ shuttingDown' = shuttingDown /\ snapshot' = snapshot /\ job' = job
      /\ inProgress' = inProgress \ {o} /\ finalizing' = Without(finalizing, o)
      /\ released' = [released EXCEPT ![o] = @ + 1] /\ untold' = untold
  BY <1>1, <1>2 DEF Release
<1>4. Types /\ Lists /\ Releases
  BY DEF IInv
<1>5. /\ finalizing' \in Seq(Ops) /\ ToSet(finalizing') = ToSet(finalizing) \ {o} /\ IsInjective(finalizing')
  BY <1>3, <1>4, WithoutThat DEF Types, Lists
<1>6. o \in ToSet(finalizing) /\ o \notin ToSet(pending) /\ o \notin ToSet(running)
  BY <1>2, <1>4 DEF Releases, Lists, Apart
<1>7. /\ released \in [Ops -> Nat] /\ released' \in [Ops -> Nat]
      /\ released'[o] = released[o] + 1 /\ \A x \in Ops : x # o => released'[x] = released[x]
  BY <1>3, <1>4 DEF Types
<1>8. released[o] = 0
  <2>1. released[o] # 1
    BY <1>4, <1>6 DEF Releases, Listed
  <2>2. QED
    BY <1>4, <1>7, <2>1 DEF Releases
<1>9. \A x \in Ops : Gone(x)' <=> Gone(x)
  <2> SUFFICES ASSUME NEW x \in Ops PROVE Gone(x)' <=> Gone(x)
    OBVIOUS
  <2>1. CASE x = o
    BY <1>6, <1>7, <1>8, <2>1 DEF Gone
  <2>2. CASE x # o
    BY <1>5, <1>7, <2>2 DEF Gone
  <2>3. QED
    BY <2>1, <2>2
<1>10. Releases'
  <2>1. inProgress' \subseteq ToSet(finalizing')
    BY <1>3, <1>4, <1>5 DEF Releases
  <2>2. ASSUME NEW x \in Ops PROVE released'[x] <= 1 /\ (released'[x] = 1 => ~Listed(x)')
    <3>1. CASE x = o
      BY <1>3, <1>5, <1>6, <1>7, <1>8, <3>1 DEF Listed
    <3>2. CASE x # o
      <4>1. Listed(x)' => Listed(x)
        BY <1>3, <1>5 DEF Listed
      <4>2. QED
        BY <1>4, <1>7, <3>2, <4>1 DEF Releases
    <3>3. QED
      BY <3>1, <3>2
  <2>3. QED
    BY <2>1, <2>2 DEF Releases
<1>11. PICK c \in CallRecords : c.step = "gather" /\ Stacked' /\ Moves(t, {k}, {c})
  <2>1. StartPending \in CallRecords /\ StartPending.step = "gather" /\ "gather" \notin Bottoms
    BY AboutCall DEF StartPending, Steps, Bottoms
  <2>2. Becomes(t, StartPending)
    BY DEF Release
  <2>3. QED
    BY <1>1, <2>1, <2>2, BecomesMoves
<1> DEFINE old == {k}
           new == {c}
<1>12. \A u \in Threads : \A d \in CallsOf(u) :
           d.step = "finalizing" /\ d.op \in inProgress =>
             d.op \in inProgress' \/ (u = t /\ d \in old /\ d \notin CallsOf(u)')
  <2> SUFFICES ASSUME NEW u \in Threads, NEW d \in CallsOf(u), d.step = "finalizing", d.op = o
               PROVE  u = t /\ d \in {k} /\ d \notin CallsOf(u)'
    BY <1>3
  <2>1. u = t /\ d = k
    BY <1>1, <1>2, AloneWith
  <2>2. k \notin CallsOf(t)'
    BY <1>1, <1>11, LeftBehind DEF Moves, Callers
  <2>3. QED
    BY <2>1, <2>2
<1>13. /\ \A d \in new : d.step \in {"gather", "finalizing"} /\ Passing(t, d)'
       /\ \A d \in new : d.step = "finalizing" => d.op \in Ops /\ Settled(d.op) /\ d.op \notin inProgress
       /\ \E d \in new : Looks(d)'
       /\ Moves(t, old, new)
       /\ \A d \in old : d.step \in {"finalize", "finalizing"}
  BY <1>1, <1>11 DEF Passing, Looks
<1> HIDE DEF new, old
<1>14. /\ ToSet(finalizing') \subseteq ToSet(finalizing)
       /\ concurrency' \in Concurrencies
       /\ UNCHANGED <<pending, running, shuttingDown, snapshot, job, untold>>
  BY <1>1, <1>3, <1>4, <1>5 DEF Types
<1>15. /\ Stacked' /\ released' \in [Ops -> Nat] /\ finalizing' \in Seq(Ops) /\ IsInjective(finalizing')
  BY <1>5, <1>7, <1>11
<1>16. QED
  BY <1>1, <1>9, <1>10, <1>12, <1>13, <1>14, <1>15, FinalizerKeeps

LEMMA BeginShutdownKeeps ==
  ASSUME IInv, NEW t \in Closers, BeginShutdown(t)
  PROVE  IInv'
<1>1. /\ concurrency' = concurrency /\ pending' = pending /\ running' = running /\ finalizing' = finalizing
      /\ inProgress' = inProgress /\ job' = job /\ released' = released /\ untold' = untold
      /\ shuttingDown' = TRUE /\ snapshot' = running \o pending \o finalizing
  BY DEF BeginShutdown, lists
<1>2. Types /\ Lists /\ Alone /\ Releases /\ Live /\ Wakeful /\ Shutdowns /\ Calling /\ Jobs
  BY DEF IInv
<1>3. t \in Threads /\ t \notin Ops /\ Stacked
  BY PoolAssumption DEF Threads, IInv, Types, Stacked
<1>4. snapshot' \in Seq(Ops) /\ ToSet(snapshot') = ToSet(pending) \cup ToSet(running) \cup ToSet(finalizing)
  <2>1. pending \in Seq(Ops) /\ running \in Seq(Ops) /\ finalizing \in Seq(Ops)
    BY <1>2 DEF Types
  <2> DEFINE both == running \o pending
  <2>2. both \in Seq(Ops) /\ ToSet(both) = ToSet(running) \cup ToSet(pending)
    BY <2>1, Joined
  <2>3. snapshot' = both \o finalizing
    BY <1>1
  <2> HIDE DEF both
  <2>4. QED
    BY <2>1, <2>2, <2>3, Joined
<1>5. PICK c \in CallRecords : c.step = "gate" /\ c.todo = snapshot' /\ Stacked' /\ Moves(t, {}, {c})
  <2> DEFINE c == Call("gate", NoOp, snapshot', FALSE)
  <2>1. c \in CallRecords /\ c.step = "gate" /\ c.todo = snapshot'
    BY <1>4 DEF Call, CallRecords, Steps
  <2>2. Enters(t, c)
    BY DEF BeginShutdown
  <2> HIDE DEF c
  <2>3. QED
    BY <1>3, <2>1, <2>2, EntersMoves
<1>6. Types' /\ Lists'
  <2>1. Types'
    BY <1>1, <1>2, <1>4, <1>5 DEF Types, Stacked
  <2>2. Lists'
    BY <1>1, <1>2 DEF Lists, Apart
  <2>3. QED
    BY <2>1, <2>2
<1>7. \A x \in Ops : (Admitted(x)' <=> Admitted(x)) /\ (Gone(x)' <=> Gone(x)) /\ (Listed(x)' <=> Listed(x))
  BY <1>1 DEF Admitted, Gone, Listed
<1> DEFINE new == {c}
<1>8. /\ \A d \in new : d.step = "gate" /\ d.todo = snapshot'
      /\ ~InGate(new) /\ Moves(t, {}, new)
  BY <1>5 DEF InGate, GateSteps
<1> HIDE DEF new
<1>9. Grows
  BY <1>1, <1>3, <1>7, <1>8, ListStepGrows
<1>10. \A d \in new : Lasting(t, d)' /\ Passing(t, d)'
  BY <1>1, <1>8 DEF Lasting, Passing, Launches, GateSteps, Tellings, Workings
<1>11. Gate' /\ Jobs' /\ Calling'
  BY <1>1, <1>3, <1>7, <1>8, <1>9, <1>10, ListStepKeeps
<1>12. Alone'
  BY <1>2, <1>3, <1>8, AloneKept
<1>13. Releases'
  BY <1>1, <1>2, <1>7 DEF Releases
<1>14. Live'
  <2>1. \A x \in Ops : ~PerformedBy(t, {}, x) /\ ~ToldBy({}, x) /\ ~StartedBy({}, x)
    BY DEF PerformedBy, ToldBy, Tells, StartedBy
  <2>2. \A x \in Ops : (Finished(x)' => Finished(x)) /\ ~Awaited(x)'
    BY <1>1, SameJobs DEF Finished, Active, Awaited
  <2>3. QED
    BY <1>1, <1>2, <1>3, <1>8, <2>1, <2>2, LiveKept
<1>15. Wakeful'
  BY <1>1 DEF Wakeful, Starved
<1>16. Shutdowns'
  <2>1. \A x \in Ops : (Unstopped(x)' => Unstopped(x))
    BY <1>1, <1>7, SameJobs DEF Unstopped
  <2>2. \A x \in Ops : Listed(x) => x \in ToSet(snapshot')
    BY <1>4 DEF Listed
  <2>3. \A d \in new : ShutdownOK(t, d)'
    BY <1>7, <1>8, <2>2 DEF ShutdownOK
  <2>4. snapshot \in Seq(Ops) /\ snapshot' \in Seq(Ops)
    BY <1>2, <1>4 DEF Types
  <2>5. shuttingDown => ToSet(snapshot') \subseteq ToSet(snapshot)
    <3>1. \A x \in ToSet(snapshot') : x \in Ops /\ Listed(x)
      BY <1>4, <2>4 DEF Listed, ToSet
    <3>2. QED
      BY <1>2, <3>1 DEF Shutdowns
  <2>6. shuttingDown => Closing
    BY <1>1, <2>1, <2>5 DEF Closing
  <2>7. \A x \in Ops : ~StoppedBy({}, x)
    BY DEF StoppedBy
  <2>8. QED
    BY <1>2, <1>3, <1>7, <1>8, <2>2, <2>3, <2>4, <2>6, <2>7, ShutdownsKept
<1>17. QED
  BY <1>5, <1>6, <1>11, <1>12, <1>13, <1>14, <1>15, <1>16 DEF IInv, Stacked

-----------------------------------------------------------------------------
(* The step that changes two stacks: a worker begins.                         *)

LEMMA LaunchMoves ==
  ASSUME Stacked, NEW t \in Threads, ~Idle(t), NEW o \in Ops, o = First(t), Idle(o), Launch(t),
         Top(t).todo # <<>>, Top(t).step = "launch"
  PROVE  \E c, e \in CallRecords :
           /\ c.step = "start" /\ c.todo = Tail(Top(t).todo) /\ e.step = "execute" /\ e.op = o
           /\ Stacked'
           /\ \A u \in Threads : \A d \in CallsOf(u)' : d \in CallsOf(u) \/ (u = t /\ d = c) \/ (u = o /\ d = e)
           /\ \A u \in Threads : \A d \in CallsOf(u) : d \in CallsOf(u)' \/ (u = t /\ d = Top(t))
           /\ c \in CallsOf(t)' /\ e \in CallsOf(o)' /\ Top(t) \notin CallsOf(t)'
           /\ \A u \in Threads : Idle(u) /\ u # o => Idle(u)'
<1> DEFINE todo == Tail(Top(t).todo)
           c == [Top(t) EXCEPT !.step = "start", !.todo = todo]
           e == About("execute", o)
           s == stack[t]
           r == Onto(c, Tail(s))
<1>1. Top(t) \in CallRecords /\ todo \in Seq(Ops)
  BY TopOfStack, RecordOfCall
<1>2. "start" \in Steps /\ "execute" \in Steps
  BY DEF Steps
<1>3. c \in CallRecords /\ c.step = "start" /\ c.todo = todo
  <2> HIDE DEF todo
  <2>1. QED
    BY <1>1, <1>2 DEF CallRecords
<1>4. e \in CallRecords /\ e.step = "execute" /\ e.op = o
  BY <1>2, AboutCall
<1>5. stack' = [stack EXCEPT ![o] = <<e>>, ![t] = <<c>> \o Tail(@)]
  BY DEF Launch
<1> HIDE DEF todo, c, e
<1>6. o \in Threads /\ o # t /\ stack \in [Threads -> Seq(CallRecords)]
  BY DEF Threads, Stacked
<1>7. stack' = [stack EXCEPT ![o] = <<e>>, ![t] = r]
  BY <1>5, <1>6 DEF Onto
<1>8. s \in Seq(CallRecords) /\ s # <<>> /\ Shaped(Tail(s)) /\ \A d \in ToSet(Tail(s)) : d.step \in Callers
  BY TopOfStack DEF Stacked, Idle
<1>9. c.step \notin Bottoms /\ c.step \notin Callers
  BY <1>3 DEF Bottoms, Callers
<1>10. /\ r \in Seq(CallRecords) /\ Shaped(r) /\ ToSet(r) = {c} \cup ToSet(Tail(s))
  BY <1>3, <1>8, <1>9, ReplacedTop
<1> HIDE DEF r
<1>11. /\ stack' \in [Threads -> Seq(CallRecords)] /\ stack'[t] = r /\ stack'[o] = <<e>>
       /\ \A u \in Threads : u # t /\ u # o => stack'[u] = stack[u]
  <2> DEFINE one == <<e>>
  <2>1. one \in Seq(CallRecords)
    BY <1>4
  <2> HIDE DEF one
  <2>2. stack' = [stack EXCEPT ![o] = one, ![t] = r]
    BY <1>7 DEF one
  <2>3. /\ stack' \in [Threads -> Seq(CallRecords)] /\ stack'[t] = r /\ stack'[o] = one
        /\ \A u \in Threads : u # t /\ u # o => stack'[u] = stack[u]
    BY <1>6, <1>10, <2>1, <2>2
  <2>4. QED
    BY <2>3 DEF one
<1>12. Shaped(<<e>>) /\ ToSet(<<e>>) = {e}
  BY DEF Shaped, ToSet
<1>13. Stacked'
  <2>1. \A u \in Threads : Shaped(stack'[u])
    BY <1>10, <1>11, <1>12 DEF Stacked, Stacks
  <2>2. QED
    BY <1>11, <2>1 DEF Stacked, Stacks
<1>14. CallsOf(t) = {Top(t)} \cup ToSet(Tail(s)) /\ CallsOf(o) = {}
  BY TopOfStack, NothingListed DEF CallsOf, Idle
<1>15. /\ CallsOf(t)' = {c} \cup ToSet(Tail(s)) /\ CallsOf(o)' = {e}
       /\ \A u \in Threads : u # t /\ u # o => CallsOf(u)' = CallsOf(u)
  BY <1>6, <1>10, <1>11, <1>12 DEF CallsOf
<1>16. Top(t) \notin CallsOf(t)'
  <2>1. Top(t) # c /\ Top(t).step \notin Callers
    BY <1>3 DEF Callers
  <2>2. QED
    BY <1>8, <1>15, <2>1
<1>17. \A u \in Threads : Idle(u) /\ u # o => Idle(u)'
  BY <1>11 DEF Idle
<1>18. /\ \A u \in Threads : \A d \in CallsOf(u)' : d \in CallsOf(u) \/ (u = t /\ d = c) \/ (u = o /\ d = e)
       /\ \A u \in Threads : \A d \in CallsOf(u) : d \in CallsOf(u)' \/ (u = t /\ d = Top(t))
       /\ c \in CallsOf(t)' /\ e \in CallsOf(o)'
  BY <1>6, <1>14, <1>15
<1>19. QED
  BY <1>3, <1>4, <1>13, <1>16, <1>17, <1>18 DEF todo

LEMMA LaunchKeeps ==
  ASSUME IInv, NEW t \in Threads, Launch(t)
  PROVE  IInv'
<1>1. PICK k \in CallRecords :
        /\ k = Top(t) /\ Stacked /\ ~Idle(t) /\ k.step = "launch" /\ Lasting(t, k) /\ Passing(t, k)
        /\ k \in CallsOf(t)
  BY TopCall DEF Launch
<1>2. /\ concurrency' = concurrency /\ pending' = pending /\ running' = running /\ finalizing' = finalizing
      /\ inProgress' = inProgress /\ shuttingDown' = shuttingDown /\ snapshot' = snapshot /\ job' = job
      /\ released' = released /\ untold' = untold
  BY DEF Launch, lists
<1>3. PICK o \in Ops : k.todo # <<>> /\ o = Head(k.todo) /\ o = First(t) /\ ToSet(k.todo) = {o} \cup ToSet(Tail(k.todo))
  BY <1>1, RecordOfCall DEF First, Lasting, GateSteps
<1>4. Types /\ Lists /\ Gate /\ Jobs /\ Calling /\ Alone /\ Releases /\ Live /\ Wakeful /\ Shutdowns
  BY DEF IInv
<1>5. job[o].isRunning /\ Idle(o)
  BY <1>1, <1>3 DEF Passing
<1>6. PICK c, e \in CallRecords :
           /\ c.step = "start" /\ c.todo = Tail(k.todo) /\ e.step = "execute" /\ e.op = o
           /\ Stacked'
           /\ \A u \in Threads : \A d \in CallsOf(u)' : d \in CallsOf(u) \/ (u = t /\ d = c) \/ (u = o /\ d = e)
           /\ \A u \in Threads : \A d \in CallsOf(u) : d \in CallsOf(u)' \/ (u = t /\ d = k)
           /\ c \in CallsOf(t)' /\ e \in CallsOf(o)' /\ k \notin CallsOf(t)'
           /\ \A u \in Threads : Idle(u) /\ u # o => Idle(u)'
  BY <1>1, <1>3, <1>5, LaunchMoves
<1>7. o \in Threads /\ Ops \subseteq Threads
  BY DEF Threads
<1>8. Types' /\ Lists' /\ Releases'
  <2>1. Types'
    BY <1>2, <1>4, <1>6 DEF Types, Stacked
  <2>2. Lists'
    BY <1>2, <1>4 DEF Lists, Apart
  <2>3. \A x \in Ops : Listed(x)' <=> Listed(x)
    BY <1>2 DEF Listed
  <2>4. Releases'
    BY <1>2, <1>4, <2>3 DEF Releases
  <2>5. QED
    BY <2>1, <2>2, <2>4
<1>9. Gate' /\ HoldsGate(t)
  <2>1. \A u \in Threads : HoldsGate(u)' => HoldsGate(u)
    <3>1. c.step \notin GateSteps /\ e.step \notin GateSteps
      BY <1>6 DEF GateSteps
    <3>2. QED
      BY <1>6, <3>1, GateHeld
  <2>2. HoldsGate(t)
    BY <1>1, GateHeld DEF GateSteps
  <2>3. QED
    BY <1>4, <2>1, <2>2 DEF Gate
<1>10. \A x \in Ops : /\ Over(x)' <=> Over(x)
                      /\ Started(x)' <=> Started(x)
                      /\ Cold(x)' <=> Cold(x)
                      /\ Listed(x)' <=> Listed(x)
                      /\ Finished(x)' <=> Finished(x)
                      /\ Awaited(x)' <=> Awaited(x)
                      /\ Admitted(x)' <=> Admitted(x)
                      /\ Ended(x)' <=> Ended(x)
                      /\ Stopped(x)' <=> Stopped(x)
                      /\ Resumed(x)' <=> Resumed(x)
                      /\ Gone(x)' <=> Gone(x)
  BY <1>2 DEF Over, Started, Cold, Listed, Finished, Active, Awaited, Admitted, Ended, Gone, Stopped, Resumed
<1>11. \A x \in Ops : Settled(x) => Settled(x)'
  <2> SUFFICES ASSUME NEW x \in Ops, Settled(x) PROVE Settled(x)'
    OBVIOUS
  <2>1. Working(x)' => Working(x)
    BY <1>6, <1>7 DEF Working
  <2>2. QED
    BY <1>2, <1>10, <2>1 DEF Settled
<1>12. Jobs'
  <2> SUFFICES ASSUME NEW x \in Ops PROVE JobOK(x)'
    BY DEF Jobs
  <2>1. JobOK(x)
    BY <1>4 DEF Jobs
  <2>2. ~job[x].wasStarted \/ job[x].executionFinished => Idle(x)'
    <3>1. x = o => job[x].wasStarted /\ ~job[x].executionFinished
      BY <1>5, <2>1 DEF JobOK
    <3>2. QED
      BY <1>6, <1>7, <2>1, <3>1 DEF JobOK
  <2>3. QED
    BY <1>2, <1>10, <1>11, <2>1, <2>2 DEF JobOK
<1>13. Calling'
  <2> SUFFICES ASSUME NEW u \in Threads, NEW d \in CallsOf(u)' PROVE Lasting(u, d)' /\ Passing(u, d)'
    BY DEF Calling
  <2>1. CASE u = t /\ d = c
    <3>1. \A x \in ToSet(k.todo) : x \in Ops /\ Admitted(x)
      BY <1>1, RecordOfCall DEF Lasting, Launches, GateSteps
    <3>2. \A x \in ToSet(c.todo) : Admitted(x)'
      BY <1>3, <1>6, <1>10, <3>1
    <3>3. QED
      BY <1>6, <2>1, <3>2 DEF Lasting, Passing, Launches, GateSteps, Tellings, Workings
  <2>2. CASE u = o /\ d = e
    BY <1>2, <1>5, <1>6, <2>2 DEF Lasting, Passing, Launches, GateSteps, Tellings, Workings
  <2>3. CASE d \in CallsOf(u)
    <3>1. d \in CallRecords /\ Lasting(u, d) /\ Passing(u, d)
      BY <1>1, <1>4, <2>3, CallsAreRecords DEF Calling
    <3>2. d.step \in {"failed", "launch", "record"} => Head(d.todo) \in Ops /\ ToSet(d.todo) \subseteq Ops
      BY <3>1, RecordOfCall DEF Lasting, GateSteps
    <3>3. d.step = "failed" => Ended(Head(d.todo))' /\ Idle(Head(d.todo))'
      <4>1. d.step = "failed" => Ended(Head(d.todo)) /\ Idle(Head(d.todo)) /\ Head(d.todo) # o
        BY <1>5, <3>1 DEF Lasting, Ended
      <4>2. QED
        BY <1>6, <1>7, <1>10, <3>2, <4>1
    <3>4. d.step # "launch"
      <4> SUFFICES ASSUME d.step = "launch" PROVE FALSE
        OBVIOUS
      <4>1. u = t /\ d = k
        BY <1>1, <1>4, <2>3, OnlyOneStarts DEF GateSteps, Callers
      <4>2. QED
        BY <1>6, <4>1
    <3>5. \A x \in ToSet(d.todo) : x \in Ops
      BY <3>1, RecordOfCall
    <3>6. d.step \in Launches => \A x \in ToSet(d.todo) : Admitted(x)'
      BY <1>10, <3>1, <3>5 DEF Lasting
    <3>7. /\ d.step \in Tellings => d.op \in Ops /\ Settled(d.op)'
          /\ d.step \in {"clear", "tell"} => d.op \in Ops /\ Stopped(d.op)'
          /\ d.step = "tell" => Resumed(d.op)'
          /\ d.step = "stop" => d.op \in Ops /\ (d.flag => Started(d.op)')
      BY <1>10, <1>11, <3>1 DEF Lasting
    <3>8. /\ d.step \in GateSteps => d.todo # <<>>
          /\ d.step \in {"gate", "close", "down"} => shuttingDown'
          /\ d.step \in Workings => u \in Ops /\ d.op = u
          /\ d.step \in {"ending", "finished"} => Ended(u)'
      <4>1. d.step \in {"ending", "finished"} => u \in Ops /\ Ended(u)
        BY <3>1 DEF Lasting, Workings
      <4>2. d.step \in {"ending", "finished"} => Ended(u)'
        BY <1>10, <4>1
      <4>3. QED
        BY <1>2, <3>1, <4>2 DEF Lasting
    <3>9. Lasting(u, d)'
      BY <3>3, <3>6, <3>7, <3>8 DEF Lasting
    <3>10. Passing(u, d)'
      BY <1>2, <3>1, <3>4 DEF Passing
    <3>11. QED
      BY <3>9, <3>10
  <2>4. QED
    BY <1>6, <2>1, <2>2, <2>3
<1>14. Alone'
  <2>1. \A u \in Threads : \A d \in CallsOf(u)' : d.step = "finalizing" => d \in CallsOf(u)
    BY <1>6
  <2> SUFFICES ASSUME NEW u \in Threads, NEW v \in Threads, NEW d \in CallsOf(u)', NEW f \in CallsOf(v)',
                      d.step = "finalizing", f.step = "finalizing", d.op = f.op
               PROVE  u = v
    BY DEF Alone
  <2>2. QED
    BY <1>4, <2>1 DEF Alone
<1>15. Live'
  <2> SUFFICES ASSUME NEW x \in Ops PROVE InHand(x)'
    BY DEF Live
  <2>1. InHand(x)
    BY <1>4 DEF Live
  <2>2. job'[x].isRunning => Performed(x)'
    <3>1. CASE x = o
      <4>1. PerformedBy(o, CallsOf(o)', o)
        BY <1>6 DEF PerformedBy
      <4>2. QED
        BY <1>7, <3>1, <4>1 DEF Performed
    <3>2. CASE x # o /\ job[x].isRunning
      <4>1. PICK u \in Threads : PerformedBy(u, CallsOf(u), x)
        BY <2>1, <3>2 DEF InHand, Performed
      <4>2. PICK d \in CallsOf(u) : (x = u /\ d.step \in {"execute", "working", "last"}) \/ (d.step = "launch" /\ Head(d.todo) = x)
        BY <4>1 DEF PerformedBy
      <4>3. d # k
        BY <1>1, <1>3, <3>2, <4>2
      <4>4. PerformedBy(u, CallsOf(u)', x)
        BY <1>6, <4>2, <4>3 DEF PerformedBy
      <4>5. QED
        BY <4>4 DEF Performed
    <3>3. QED
      BY <1>2, <3>1, <3>2
  <2>3. Finished(x)' => Told(x)'
    <3> SUFFICES ASSUME Finished(x) PROVE Told(x)'
      BY <1>10
    <3>0. PICK u \in Threads : ToldBy(CallsOf(u), x)
      BY <2>1 DEF InHand, Told
    <3>1. PICK d \in CallsOf(u) : Tells(d) /\ d.op = x
      BY <3>0 DEF ToldBy
    <3>2. d \in CallsOf(u)'
      BY <1>1, <1>6, <3>1 DEF Tells
    <3>3. ToldBy(CallsOf(u)', x)
      BY <3>1, <3>2 DEF ToldBy
    <3>4. QED
      BY <3>3 DEF Told
  <2>4. Awaited(x)' => Starting(x)'
    <3> SUFFICES ASSUME Awaited(x) PROVE Starting(x)'
      BY <1>10
    <3>0. PICK u \in Threads : StartedBy(CallsOf(u), x)
      BY <2>1 DEF InHand, Starting
    <3>1. PICK d \in CallsOf(u) : d.step \in Launches /\ x \in ToSet(d.todo)
      BY <3>0 DEF StartedBy
    <3>2. x # o
      BY <1>5 DEF Awaited, Cold
    <3>3. CASE d \in CallsOf(u)'
      <4>1. StartedBy(CallsOf(u)', x)
        BY <3>1, <3>3 DEF StartedBy
      <4>2. QED
        BY <4>1 DEF Starting
    <3>4. CASE u = t /\ d = k
      <4>1. x \in ToSet(c.todo) /\ c.step \in Launches
        BY <1>3, <1>6, <3>1, <3>2, <3>4 DEF Launches
      <4>2. StartedBy(CallsOf(t)', x)
        BY <1>6, <4>1 DEF StartedBy
      <4>3. QED
        BY <4>2 DEF Starting
    <3>5. QED
      BY <1>6, <3>3, <3>4
  <2>5. QED
    BY <2>2, <2>3, <2>4 DEF InHand
<1>16. Wakeful'
  <2> SUFFICES ASSUME Starved' PROVE \E u \in Threads : LooksBy(CallsOf(u))'
    BY DEF Wakeful
  <2>1. Starved
    BY <1>2 DEF Starved
  <2>7. PICK u \in Threads : LooksBy(CallsOf(u))
    BY <1>4, <2>1 DEF Wakeful
  <2>2. PICK d \in CallsOf(u) : Looks(d)
    BY <2>7 DEF LooksBy
  <2>3. d # k
    BY <1>1, <2>2 DEF Looks
  <2>4. d \in CallsOf(u)' /\ Looks(d)'
    BY <1>2, <1>6, <2>2, <2>3 DEF Looks
  <2>5. LooksBy(CallsOf(u))'
    BY <2>4 DEF LooksBy
  <2>6. QED
    BY <2>5
<1>17. Shutdowns'
  <2>1. shuttingDown' => \A x \in Ops : Listed(x)' => x \in ToSet(snapshot)'
    BY <1>2, <1>4, <1>10 DEF Shutdowns
  <2> SUFFICES ASSUME NEW u \in Threads, NEW d \in CallsOf(u)' PROVE ShutdownOK(u, d)'
    BY <2>1 DEF Shutdowns
  <2>2. CASE d.step \notin {"gate", "close", "down"}
    BY <2>2 DEF ShutdownOK
  <2>3. CASE d.step \in {"gate", "close", "down"}
    <3>1. d \in CallsOf(u) /\ ShutdownOK(u, d)
      BY <1>4, <1>6, <2>3 DEF Shutdowns
    <3>2. d.step = "gate"
      BY <1>9, <2>3, <3>1 DEF ShutdownOK
    <3>3. \A x \in Ops : StoppedBy(CallsOf(u), x) => StoppedBy(CallsOf(u)', x)
      BY <1>1, <1>6 DEF StoppedBy
    <3>4. \A x \in Ops : Listed(x)' /\ Cold(x)' => x \in ToSet(d.todo) \/ StoppedBy(CallsOf(u)', x)
      BY <1>10, <3>1, <3>2, <3>3 DEF ShutdownOK
    <3>5. QED
      BY <3>2, <3>4 DEF ShutdownOK
  <2>4. QED
    BY <2>2, <2>3
<1>18. QED
  BY <1>6, <1>8, <1>9, <1>12, <1>13, <1>14, <1>15, <1>16, <1>17 DEF IInv, Stacked

-----------------------------------------------------------------------------
(* The invariant.                                                             *)

LEMMA StartsWell == Init => IInv
<1> SUFFICES ASSUME Init PROVE IInv
  OBVIOUS
<1>1. \A t \in Threads : stack[t] = <<>> /\ CallsOf(t) = {} /\ Idle(t)
  BY NothingListed DEF Init, CallsOf, Idle
<1>2. /\ ToSet(pending) = {} /\ ToSet(running) = {} /\ ToSet(finalizing) = {} /\ ToSet(snapshot) = {}
      /\ inProgress = {} /\ ~shuttingDown
  BY NothingListed DEF Init
<1>3. \A o \in Ops : /\ ~job[o].wasStarted /\ ~job[o].isRunning /\ ~job[o].isStopped
                     /\ ~job[o].isCompleted /\ ~job[o].executionFinished /\ released[o] = 0
                     /\ o \in Threads /\ o \notin untold
  BY DEF Init, Threads
<1>4. Types
  <2>1. stack \in [Threads -> Seq(CallRecords)]
    BY DEF Init
  <2>2. /\ job \in [Ops -> [wasStarted : BOOLEAN, isRunning : BOOLEAN, isPaused : BOOLEAN,
                            isStopped : BOOLEAN, isCompleted : BOOLEAN, executionFinished : BOOLEAN]]
        /\ released \in [Ops -> Nat] /\ untold \subseteq Ops
    BY DEF Init
  <2>3. /\ pending \in Seq(Ops) /\ running \in Seq(Ops) /\ finalizing \in Seq(Ops) /\ snapshot \in Seq(Ops)
        /\ concurrency \in Concurrencies /\ inProgress \subseteq Ops /\ shuttingDown \in BOOLEAN
    <3>1. <<>> \in Seq(Ops)
      OBVIOUS
    <3>2. /\ pending = <<>> /\ running = <<>> /\ finalizing = <<>> /\ snapshot = <<>>
          /\ concurrency \in Concurrencies /\ inProgress = {} /\ shuttingDown = FALSE
      BY DEF Init
    <3>3. /\ pending \in Seq(Ops) /\ running \in Seq(Ops) /\ finalizing \in Seq(Ops) /\ snapshot \in Seq(Ops)
      BY <3>1, <3>2
    <3>4. inProgress \subseteq Ops /\ shuttingDown \in BOOLEAN
      BY <3>2
    <3>5. QED
      BY <3>2, <3>3, <3>4
  <2>4. QED
    BY <2>1, <2>2, <2>3 DEF Types
<1>5. Lists
  <2>1. IsInjective(<<>>)
    BY DEF IsInjective
  <2>2. QED
    BY <1>2, <2>1 DEF Init, Lists, Apart
<1>6. Stacks
  BY <1>1 DEF Stacks, Shaped
<1>7. Gate
  BY <1>1 DEF Gate, HoldsGate
<1>8. Jobs
  BY <1>1, <1>2, <1>3 DEF Jobs, JobOK, Gone
<1>9. Calling /\ Alone
  BY <1>1 DEF Calling, Alone
<1>10. Releases
  BY <1>2, <1>3 DEF Releases, Listed
<1>11. Live
  BY <1>2, <1>3 DEF Live, InHand, Finished, Active, Awaited
<1>12. Wakeful
  BY DEF Init, Wakeful, Starved
<1>13. Shutdowns
  BY <1>1, <1>2 DEF Shutdowns
<1>14. QED
  BY <1>4, <1>5, <1>6, <1>7, <1>8, <1>9, <1>10, <1>11, <1>12, <1>13 DEF IInv

LEMMA StutteringKeeps ==
  ASSUME IInv, UNCHANGED vars
  PROVE  IInv'
<1>1. /\ UNCHANGED <<pending, running, finalizing, inProgress, shuttingDown, snapshot, job, stack, released, untold>>
      /\ concurrency' \in Concurrencies
  BY DEF vars, lists, IInv, Types
<1>2. job \in [Ops -> Flags]
  BY DEF IInv, Types, Flags
<1>3. QED
  BY <1>1, <1>2, StillKeeps

LEMMA StepKeeps ==
  ASSUME IInv, Next
  PROVE  IInv'
<1>1. ASSUME NEW n \in Limits, SetConcurrency(n) PROVE IInv'
  BY <1>1, SetConcurrencyKeeps
<1>2. ASSUME NEW t \in Threads, Step(t) PROVE IInv'
  <2>1. CASE Gather(t)
    BY <2>1, GatherKeeps
  <2>2. CASE EnterGate(t) \/ BeginStart(t) \/ RecordStart(t)
    BY <2>2, EnterGateKeeps, BeginStartKeeps, RecordStartKeeps
  <2>3. CASE Launch(t) \/ LaunchFails(t) \/ LaunchFailed(t)
    BY <2>3, LaunchKeeps, LaunchFailsKeeps, LaunchFailedKeeps
  <2>4. CASE Stop(t) \/ ClearPaused(t) \/ Tell(t)
    BY <2>4, StopKeeps, ClearPausedKeeps, TellKeeps
  <2>5. CASE OperationDidFinish(t) \/ RetryFinalization(t) \/ Retain(t) \/ Release(t)
    BY <2>5, OperationDidFinishKeeps, RetryFinalizationKeeps, RetainKeeps, ReleaseKeeps
  <2>6. QED
    BY <1>2, <2>1, <2>2, <2>3, <2>4, <2>5 DEF Step
<1>3. ASSUME NEW o \in Ops, Work(o) \/ Pause(o) \/ Resume(o) PROVE IInv'
  <2>1. CASE Execute(o) \/ BlockIfPaused(o) \/ WorkEnds(o)
    BY <2>1, ExecuteKeeps, BlockIfPausedKeeps, WorkEndsKeeps
  <2>2. CASE WorkThrows(o) \/ JobFinished(o) \/ WorkerEnds(o)
    BY <2>2, WorkThrowsKeeps, JobFinishedKeeps, WorkerEndsKeeps
  <2>3. CASE Pause(o) \/ Resume(o)
    BY <2>3, PauseKeeps
  <2>4. QED
    BY <1>3, <2>1, <2>2, <2>3 DEF Work
<1>4. ASSUME NEW c \in Closers, BeginShutdown(c) \/ Shutdown(c) PROVE IInv'
  <2>1. c \in Threads
    BY DEF Threads
  <2>2. QED
    BY <1>4, <2>1, BeginShutdownKeeps, PassGateKeeps, StopNextKeeps, WaitForAllKeeps DEF Shutdown
<1>5. ASSUME NEW o \in Ops, NEW t \in Enqueuers, TryEnqueue(t, o) PROVE IInv'
  BY <1>5, TryEnqueueKeeps
<1>6. ASSUME NEW o \in Ops, NEW s \in Stoppers, BeginStop(s, o) PROVE IInv'
  BY <1>6, BeginStopKeeps
<1>7. ASSUME NEW o \in Ops, NEW r \in Retriers, Retry(r, o) PROVE IInv'
  BY <1>7, RetryKeeps
<1>8. QED
  BY <1>1, <1>2, <1>3, <1>4, <1>5, <1>6, <1>7 DEF Next

(* The inductive invariant holds however the threads that enqueue, start,     *)
(* work, stop, retry and shut down interleave, and whichever threads cannot   *)
(* be created.                                                                *)
THEOREM PoolIsConsistent == Spec => []IInv
<1>1. IInv /\ [Next]_vars => IInv'
  BY StepKeeps, StutteringKeeps
<1>2. QED
  BY StartsWell, <1>1, PTL DEF Spec

-----------------------------------------------------------------------------
(* What follows from the invariant.                                           *)

(* What is listed is an operation. *)
LEMMA ListsOperations ==
  ASSUME NEW l \in Seq(Ops)
  PROVE  ToSet(l) \subseteq Ops
BY DEF ToSet

LEMMA AtMostOne ==
  ASSUME NEW S, \A x, y \in S : x = y
  PROVE  Cardinality(S) \in Nat /\ Cardinality(S) <= 1
<1>1. CASE S = {}
  BY <1>1, FS_EmptySet
<1>2. CASE S # {}
  <2>1. PICK x \in S : TRUE
    BY <1>2
  <2>2. S = {x}
    BY <2>1
  <2>3. Cardinality(S) = 1
    BY <2>2, FS_Singleton
  <2>4. QED
    BY <2>3
<1>3. QED
  BY <1>1, <1>2

(* What the pool and its threads keep is of the types the code declares, and   *)
(* the concurrency is never zero.                                              *)
THEOREM PoolIsTyped == Spec => []TypeOK
<1>1. IInv => TypeOK
  BY DEF IInv, Types, TypeOK, CallRecords
<1>2. QED
  BY <1>1, PoolIsConsistent, PTL

(* An operation is pending, running or finalizing, in one place of one list,  *)
(* however many threads enqueue it, report its end and gather at a time.      *)
THEOREM ListedOnce == Spec => []InOneListOnly
<1>1. IInv => InOneListOnly
  <2> SUFFICES ASSUME IInv, NEW o \in Ops
               PROVE  Occurs(o, pending \o running \o finalizing) <= 1
    BY DEF InOneListOnly
  <2> DEFINE front == pending \o running
             all   == front \o finalizing
             at    == {i \in DOMAIN all : all[i] = o}
  <2>1. Types /\ Lists
    BY DEF IInv
  <2>2. front \in Seq(Ops) /\ ToSet(front) = ToSet(pending) \cup ToSet(running) /\ IsInjective(front)
    BY <2>1, Joined DEF Types, Lists
  <2>3. Apart(front, finalizing)
    BY <2>1, <2>2 DEF Lists, Apart
  <2> HIDE DEF front
  <2>4. all \in Seq(Ops) /\ IsInjective(all)
    BY <2>1, <2>2, <2>3, Joined DEF Types, Lists
  <2> HIDE DEF all
  <2>5. \A i, j \in at : i = j
    BY <2>4 DEF IsInjective
  <2>6. Cardinality(at) <= 1
    <3> HIDE DEF at
    <3>1. QED
      BY <2>5, AtMostOne
  <2>7. QED
    BY <2>6 DEF Occurs, all, front
<1>2. QED
  BY <1>1, PoolIsConsistent, PTL

(* The terminal finalizer of an operation is in one thread at a time, whoever *)
(* retries it, and in none once it has released the operation, which happens  *)
(* once.                                                                      *)
THEOREM FinalizersDoNotOverlap == Spec => []FinalizersRunAlone
<1>1. IInv => FinalizersRunAlone
  <2> SUFFICES ASSUME IInv, NEW o \in Ops
               PROVE  Cardinality({t \in Threads : Inside(t, o, "finalizing")}) + released[o] <= 1
    BY DEF FinalizersRunAlone
  <2> DEFINE inside == {t \in Threads : Inside(t, o, "finalizing")}
  <2>1. \A t, u \in inside : t = u
    BY InsideACall DEF IInv, Alone
  <2>2. inside # {} => released[o] # 1
    <3> SUFFICES ASSUME NEW t \in Threads, Inside(t, o, "finalizing") PROVE released[o] # 1
      OBVIOUS
    <3>1. o \in inProgress
      BY InsideACall DEF IInv, Calling, Passing
    <3>2. QED
      BY <3>1 DEF IInv, Releases, Listed
  <2>3. released[o] \in {0, 1}
    BY DEF IInv, Types, Releases
  <2> HIDE DEF inside
  <2>4. Cardinality(inside) \in Nat /\ Cardinality(inside) <= 1
    BY <2>1, AtMostOne
  <2>5. inside = {} => Cardinality(inside) = 0
    BY FS_EmptySet
  <2>6. Cardinality(inside) + released[o] <= 1
    BY <2>2, <2>3, <2>4, <2>5
  <2>7. QED
    BY <2>6 DEF inside
<1>2. QED
  BY <1>1, PoolIsConsistent, PTL

(* What occupies a slot runs, is being started or is being reported to have   *)
(* finished, unless its worker told nobody: a stop or a thread that cannot be  *)
(* created in the middle of a start leaks none.  What a worker told nobody of  *)
(* was stopped.                                                                *)
THEOREM NoSlotIsLeaked == Spec => []SlotsAreLive
<1>1. ASSUME IInv, NEW o \in ToSet(running) \ untold
      PROVE  IF job[o].isRunning
             THEN Performing(o) \/ \E t \in Threads : Inside(t, o, "execute") \/ (At(t, "launch") /\ First(t) = o)
             ELSE IF job[o].isStopped \/ job[o].isCompleted
             THEN \E t \in Threads : WillTell(t, o)
             ELSE shuttingDown \/ \E t \in Threads : WillStart(t, o)
  <2>1. o \in Ops /\ Stacked
    BY <1>1, ListsOperations DEF IInv, Types, Stacked
  <2>2. InHand(o) /\ o \in Threads
    BY <1>1, <2>1 DEF IInv, Live, Threads
  <2>3. CASE job[o].isRunning
    <3> SUFFICES Performing(o) \/ \E t \in Threads : Inside(t, o, "execute") \/ (At(t, "launch") /\ First(t) = o)
      BY <2>3
    <3>1. PICK t \in Threads : PerformedBy(t, CallsOf(t), o)
      BY <2>2, <2>3 DEF InHand, Performed
    <3>2. PICK c \in CallsOf(t) : (o = t /\ c.step \in {"execute", "working", "last"}) \/ (c.step = "launch" /\ Head(c.todo) = o)
      BY <3>1 DEF PerformedBy
    <3>3. CASE o = t /\ c.step \in {"execute", "working", "last"}
      <4>1. c.op = o
        BY <1>1, <3>2, <3>3 DEF IInv, Calling, Lasting, Workings
      <4>2. Inside(t, o, "execute") \/ Inside(t, o, "working") \/ Inside(t, o, "last")
        BY <3>2, <3>3, <4>1, InsideACall
      <4>3. QED
        BY <3>3, <4>2 DEF Performing
    <3>4. CASE c.step = "launch" /\ Head(c.todo) = o
      <4>1. ~Idle(t)
        BY <2>1, <3>2, CallsAreRecords
      <4>2. c = Top(t)
        BY <2>1, <3>2, <3>4, <4>1, TopOfStack DEF Callers
      <4>3. At(t, "launch") /\ First(t) = o
        BY <3>4, <4>1, <4>2 DEF At, First
      <4>4. QED
        BY <4>3
    <3>5. QED
      BY <3>2, <3>3, <3>4
  <2>4. CASE Cold(o)
    <3> SUFFICES shuttingDown \/ \E t \in Threads : WillStart(t, o)
      BY <2>4 DEF Cold
    <3>1. CASE shuttingDown
      BY <3>1
    <3>2. CASE ~shuttingDown
      <4>1. Awaited(o)
        BY <1>1, <2>4, <3>2 DEF Awaited
      <4>2. PICK t \in Threads : StartedBy(CallsOf(t), o)
        BY <2>2, <4>1 DEF InHand, Starting
      <4>3. WillStart(t, o)
        BY <4>2 DEF StartedBy, WillStart, CallsOf, ToSet, Launches, GateSteps
      <4>4. QED
        BY <4>3
    <3>3. QED
      BY <3>1, <3>2
  <2>5. CASE ~job[o].isRunning /\ Over(o)
    <3> SUFFICES \E t \in Threads : WillTell(t, o)
      BY <2>5 DEF Over
    <3>1. Finished(o)
      BY <1>1, <2>5 DEF Finished, Active
    <3>2. PICK t \in Threads : ToldBy(CallsOf(t), o)
      BY <2>2, <3>1 DEF InHand, Told
    <3>3. WillTell(t, o)
      BY <3>2 DEF ToldBy, Tells, WillTell, CallsOf, ToSet
    <3>4. QED
      BY <3>3
  <2>6. QED
    BY <2>3, <2>4, <2>5 DEF Cold, Over
<1>2. ASSUME IInv, NEW o \in untold PROVE job[o].isStopped /\ ~job[o].isCompleted
  BY <1>2 DEF IInv, Types, Jobs, JobOK, Stopped
<1>3. IInv => SlotsAreLive
  BY <1>1, <1>2 DEF SlotsAreLive
<1>4. QED
  BY <1>3, PoolIsConsistent, PTL

(* Who performs is at work, and runs.                                         *)
LEMMA PerformingRuns ==
  ASSUME IInv, NEW o \in Ops, Performing(o)
  PROVE  job[o].isRunning /\ Working(o)
<1>1. o \in Threads
  BY DEF Threads
<1>2. PICK c \in CallsOf(o) : c.step \in {"working", "last"}
  BY <1>1, InsideACall DEF Performing
<1>3. QED
  BY <1>1, <1>2 DEF IInv, Calling, Passing, Working

(* What is finalized or was released has ended, or was stopped before it      *)
(* began and will not begin: its outcome is settled.                          *)
THEOREM FinalizedIsOver == Spec => []FinalizedMeansOver
<1>1. IInv => FinalizedMeansOver
  <2> SUFFICES ASSUME IInv, NEW o \in Ops, Gone(o)
               PROVE  (job[o].isStopped \/ job[o].isCompleted) /\ ~Performing(o)
    BY DEF FinalizedMeansOver, Gone
  <2>1. Settled(o)
    BY DEF IInv, Jobs, JobOK
  <2>2. QED
    BY <2>1, PerformingRuns DEF Settled, Over
<1>2. QED
  BY <1>1, PoolIsConsistent, PTL

(* Once StopAndWaitForShutdown is through, nothing the pool ever accepted     *)
(* performs or can be started, and every worker it waited for is over.        *)
THEOREM ShutdownLeavesQuiet == Spec => []ShutdownIsQuiet
<1>1. IInv => ShutdownIsQuiet
  <2> SUFFICES ASSUME IInv, NEW c \in Closers, At(c, "down")
               PROVE  /\ \A o \in Ops : /\ ~Performing(o)
                                        /\ Listed(o) => (job[o].isStopped \/ job[o].isCompleted) /\ WaitReturns(o)
                      /\ \A t \in Threads : ~HoldsGate(t)
    BY DEF ShutdownIsQuiet
  <2>1. c \in Threads
    BY DEF Threads
  <2>2. Top(c) \in CallsOf(c) /\ Top(c).step = "down" /\ Lasting(c, Top(c)) /\ ShutdownOK(c, Top(c))
    BY <2>1, TopCall
  <2>3. /\ \A t \in Threads : ~HoldsGate(t)
        /\ \A o \in Ops : ~(Listed(o) /\ Cold(o))
        /\ \A o \in ToSet(snapshot) : job[o].wasStarted => job[o].executionFinished
    BY <2>2 DEF ShutdownOK
  <2>4. \A o \in Ops : Listed(o) => o \in ToSet(snapshot)
    BY <2>2 DEF IInv, Shutdowns, Lasting
  <2> SUFFICES ASSUME NEW o \in Ops
               PROVE  ~Performing(o) /\ (Listed(o) => (job[o].isStopped \/ job[o].isCompleted) /\ WaitReturns(o))
    BY <2>3
  <2>5. o \in Threads /\ JobOK(o)
    BY DEF IInv, Jobs, Threads
  <2>6. ~Performing(o)
    <3> SUFFICES ASSUME Performing(o) PROVE FALSE
      OBVIOUS
    <3>1. job[o].isRunning /\ Working(o)
      BY PerformingRuns
    <3>2. o \in ToSet(running)
      BY <2>5, <3>1 DEF JobOK, Settled, Admitted
    <3>3. job[o].executionFinished
      BY <2>3, <2>4, <2>5, <3>1, <3>2 DEF JobOK, Listed
    <3>4. QED
      BY <2>5, <3>1, <3>3 DEF JobOK
  <2>7. ASSUME Listed(o) PROVE (job[o].isStopped \/ job[o].isCompleted) /\ WaitReturns(o)
    <3>1. ~job[o].wasStarted \/ job[o].executionFinished
      BY <2>3, <2>4, <2>7
    <3>2. job[o].isStopped \/ job[o].isCompleted
      <4>1. ~job[o].isRunning
        BY <2>5, <3>1 DEF JobOK
      <4>2. QED
        BY <2>3, <2>7, <4>1 DEF Cold
    <3>3. \A t \in Threads : ~At(t, "record")
      <4> SUFFICES ASSUME NEW t \in Threads, At(t, "record") PROVE FALSE
        OBVIOUS
      <4>1. Top(t) \in CallsOf(t) /\ Top(t).step = "record"
        BY TopCall
      <4>2. HoldsGate(t)
        BY <4>1, GateHeld DEF GateSteps
      <4>3. QED
        BY <2>3, <4>2
    <3>4. QED
      BY <3>1, <3>2, <3>3 DEF WaitReturns
  <2>8. QED
    BY <2>6, <2>7
<1>2. QED
  BY <1>1, PoolIsConsistent, PTL

(* Whoever frees a slot looks for what waits, whatever the finalizer decides. *)
THEOREM NoWakeUpIsLost == Spec => []NobodyWaitsForAFreeSlot
<1>1. IInv => NobodyWaitsForAFreeSlot
  <2> SUFFICES ASSUME IInv, Starved PROVE \E t \in Threads : OnItsWay(t)
    BY DEF NobodyWaitsForAFreeSlot, Starved
  <2>1. PICK t \in Threads : LooksBy(CallsOf(t))
    BY DEF IInv, Wakeful
  <2>2. OnItsWay(t)
    BY <2>1 DEF LooksBy, Looks, OnItsWay, CallsOf, ToSet
  <2>3. QED
    BY <2>2
<1>2. QED
  BY <1>1, PoolIsConsistent, PTL

(* What joins the running operations, joins them in Gather. *)
LEMMA FewJoin ==
  ASSUME IInv, [Next]_vars
  PROVE  \A o \in ToSet(running') \ (ToSet(running) \cup Impatient) : Len(running') <= concurrency
<1>1. Types /\ Lists
  BY DEF IInv
<1>2. CASE ToSet(running') \subseteq ToSet(running)
  BY <1>2
<1>3. ASSUME NEW t \in Threads, Gather(t)
      PROVE  ToSet(running') \subseteq ToSet(running) \cup Impatient \/ Len(running') <= concurrency
  <2>1. CASE shuttingDown
    BY <1>3, <2>1 DEF Gather
  <2>2. CASE ~shuttingDown
    <3>1. PICK eager \in {Impatient, {}} :
            LET jump  == Only(pending, eager)
                queue == Only(pending, Ops \ eager)
                room  == Room(running \o jump)
                taken == IF room < Len(queue) THEN room ELSE Len(queue)
                chosen == jump \o SubSeq(queue, 1, taken)
            IN  running' = running \o chosen
      BY <1>3, <2>2 DEF Gather
    <3>2. ToSet(running') \subseteq ToSet(running) \cup eager \/ Len(running') <= concurrency
      BY <1>1, <3>1, Gathered
    <3>3. QED
      BY <3>2
  <2>3. QED
    BY <2>1, <2>2
<1>4. ASSUME NEW t \in Threads, OperationDidFinish(t) PROVE ToSet(running') \subseteq ToSet(running)
  <2>1. running' = running \/ running' = Without(running, Top(t).op)
    BY <1>4 DEF OperationDidFinish, lists
  <2>2. ToSet(Without(running, Top(t).op)) \subseteq ToSet(running)
    BY <1>1, OnlyThat DEF Types, Without
  <2>3. QED
    BY <2>1, <2>2
<1>5. CASE running' = running
  BY <1>5
<1>6. ASSUME NEW t \in Threads, Step(t)
      PROVE  (\E u \in Threads : Gather(u) \/ OperationDidFinish(u)) \/ running' = running
  BY <1>6 DEF Step, EnterGate, BeginStart, RecordStart, Launch, LaunchFails, LaunchFailed, Stop,
              ClearPaused, Tell,
              RetryFinalization, Retain, Release, lists
<1>7. (\E u \in Threads : Gather(u) \/ OperationDidFinish(u)) \/ running' = running
  <2>1. CASE UNCHANGED vars
    BY <2>1 DEF vars, lists
  <2>2. CASE Next
    BY <1>6, <2>2 DEF Next, SetConcurrency, Work, Execute, BlockIfPaused, WorkEnds, WorkThrows, JobFinished,
                      WorkerEnds, Pause, Resume, BeginShutdown, Shutdown, PassGate, StopNext, WaitForAll,
                      TryEnqueue, BeginStop, Retry, lists
  <2>3. QED
    BY <2>1, <2>2
<1>8. QED
  BY <1>2, <1>3, <1>4, <1>5, <1>7

(* No step lets an operation that queues exceed the concurrency in force.     *)
THEOREM TheLimitIsKept == Spec => ConcurrencyIsKept
<1>1. IInv /\ [Next]_vars
        => [\A o \in ToSet(running') \ (ToSet(running) \cup Impatient) : Len(running') <= concurrency]_vars
  BY FewJoin
<1>2. QED
  BY <1>1, PoolIsConsistent, PTL DEF Spec, ConcurrencyIsKept
=============================================================================
