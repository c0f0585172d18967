------------------------ MODULE OperationCenterProofs ------------------------
(***************************************************************************)
(* Theorems about OperationCenter, for any number of operations, of        *)
(* threads that control and of other threads: the record ends with what    *)
(* the journal recorded, also when the outcome arrives in the middle of a  *)
(* cancellation, and no control reaches an operation whose outcome the     *)
(* record already has.                                                     *)
(*                                                                         *)
(* The list of a thread is seen as the set of its steps, of which all but  *)
(* the first are among Later.                                              *)
(***************************************************************************)
EXTENDS OperationCenter, FiniteSetTheorems, TLAPS

PauseCalls == [intent : {"Pause", "Resume"}, revision : Nat]

Args  == Nat \cup BOOLEAN \cup {"observer", "journal", "accepted", "rejected", "Pause", "Resume"}
           \cup (SUBSET Ops) \cup PauseCalls
Ownerless == {"refresh", "startPending"}
Calls == [step : StepNames \ Ownerless, op : Ops, arg : Args]
           \cup [step : Ownerless, op : Ops \cup {Nothing}, arg : Args]

Elements(l) == {l[i] : i \in DOMAIN l}
Ahead(t)    == Elements(thread[t])

-----------------------------------------------------------------------------
(* The inductive invariant.                                                   *)

(* The steps that may come behind others, and those that are taken under the *)
(* gate, which the next step gives back.                                      *)
Later == {"leaveGate", "leaveTransition", "leaveStart", "reduce", "retire", "start", "endCancel", "release"}
Gated == {"enqueue", "askStop", "stop", "endCancel", "pauseJob"}

GivesBack(l, i) == i + 1 \in DOMAIN l /\ l[i + 1].step = "leaveGate" /\ l[i + 1].op = l[i].op

InOrder(l) ==
  /\ \A i \in DOMAIN l : i # 1 => l[i].step \in Later
  /\ \A i \in DOMAIN l : l[i].step \in Gated => GivesBack(l, i)
  /\ 1 \in DOMAIN l /\ l[1].step \in {"commit", "submit"} => Len(l) = 1
  /\ 1 \in DOMAIN l /\ l[1].step = "enqueue" => Len(l) = 2

Types ==
  /\ record \in [Ops -> [state : Terminal \cup Live \cup {Nothing}, revision : Nat]]
  /\ entry \in [Ops -> Terminal \cup {"Live", "Doubtful", "Lost", Nothing}]
  /\ observer \in [Ops -> {"waiting", "told", Nothing}]
  /\ residency \in [Ops -> {"staged", "live", "retired", Nothing}]
  /\ inFlight \in [Ops -> BOOLEAN]
  /\ deferred \in [Ops -> Terminal \cup {Nothing}]
  /\ job \in [Ops -> [isRunning : BOOLEAN, ended : {"Completed", "Stopped", Nothing}]]
  /\ pool \in [Ops -> {"out", "queued", "listed", "finalizing", "retained"}]

Lists == thread \in [Threads -> Seq(Calls)] /\ \A t \in Threads : InOrder(thread[t])

Resided(o) == residency[o] \in {"live", "retired"}

(* What record, entry, observer, residency and pool say of one operation.  An *)
(* outcome that was put off is the one that was recorded.                     *)
Agrees(o) ==
  /\ Resided(o) \/ pool[o] # "out" => observer[o] # Nothing
  /\ observer[o] # Nothing => record[o].state # Nothing /\ entry[o] \in Terminal \cup {"Live"}
  /\ pool[o] \in {"queued", "listed"} => entry[o] = "Live"
  /\ record[o].state \in Terminal => record[o].state = entry[o]
  /\ observer[o] = "told" => record[o].state \in Terminal \/ (inFlight[o] /\ deferred[o] # Nothing)
  /\ deferred[o] # Nothing => inFlight[o] /\ deferred[o] = entry[o] /\ Resided(o)
  /\ residency[o] = "retired" => record[o].state \in Terminal \/ pool[o] = "out"

(* What holds from the moment a step is ahead of a thread on. *)
Controls == {"cancel", "askStop", "stop", "endCancel", "setPaused", "pauseJob"}

Lasting(x) ==
  /\ x.step = "release" => entry[x.op] \in Terminal
  /\ x.step = "reduce" /\ x.arg = "observer" => entry[x.op] \in Terminal /\ observer[x.op] # Nothing
  /\ x.step = "reduceGated" => entry[x.op] \in Terminal /\ Resided(x.op)
  /\ x.step = "refresh" => \A o \in Ops : o \in x.arg => entry[o] \in Terminal
  /\ x.step \in Controls \cup {"leaveGate"} => Resided(x.op)
  /\ x.step = "setPaused" => x.arg \in PauseCalls

(* What holds only until the step is taken: it is what keeps the others off. *)
Touching == {"askStop", "stop", "pauseJob"}
Volatile == {"commit", "submit", "enqueue", "retire", "finalize"} \cup Touching

Passing(t, x) ==
  LET o == x.op
  IN  /\ x.step \in {"commit", "submit", "enqueue", "retire"} => t = Submitter(o)
      /\ x.step = "commit" => entry[o] = Nothing /\ ~Resided(o)
      /\ x.step = "submit" => entry[o] = "Live" /\ ~Resided(o) /\ record[o].state # Nothing
      /\ x.step = "enqueue" => entry[o] = "Live" /\ residency[o] = "live"
      /\ x.step \in {"submit", "enqueue", "retire"} => pool[o] = "out"
      /\ x.step = "finalize" => entry[o] = "Live" /\ pool[o] = "finalizing"
      /\ x.step \in Touching => residency[o] = "live" /\ record[o].state \in Live

(* One thread has the gate, one finalizes, and nobody retires what is being   *)
(* controlled.                                                                *)
Apart(t, x, u, y) ==
  x.op = y.op =>
    /\ t # u /\ x.step = "leaveGate" => y.step # "leaveGate"
    /\ t # u /\ x.step = "finalize" => y.step # "finalize"
    /\ x.step \in Touching => y.step # "retire"

IInv ==
  /\ Types /\ Lists
  /\ \A o \in Ops : Agrees(o)
  /\ \A t \in Threads : \A x \in Ahead(t) : Lasting(x) /\ Passing(t, x)
  /\ \A t, u \in Threads : \A x \in Ahead(t) : \A y \in Ahead(u) : Apart(t, x, u, y)

-----------------------------------------------------------------------------
(* Lists of steps.                                                            *)

(* The list begins with giving the gate of o back. *)
GivesGateBack(l, o) == l # <<>> /\ l[1].step = "leaveGate" /\ l[1].op = o

MayPrecede(a, b) ==
  /\ \A i \in DOMAIN a : i # 1 => a[i].step \in Later
  /\ \A i \in DOMAIN a : a[i].step \in Gated => GivesBack(a, i) \/ (i = Len(a) /\ GivesGateBack(b, a[i].op))
  /\ 1 \in DOMAIN a => a[1].step \notin {"commit", "submit", "enqueue"}

LEMMA RestOfList ==
  ASSUME NEW l \in Seq(Calls), l # <<>>, InOrder(l)
  PROVE  /\ Tail(l) \in Seq(Calls) /\ InOrder(Tail(l))
         /\ Head(l) \in Calls /\ Head(l) \in Elements(l)
         /\ \A x \in Elements(Tail(l)) : x \in Elements(l) /\ x.step \in Later
         /\ Head(l).step \in {"commit", "submit"} => Tail(l) = <<>>
         /\ Head(l).step \in Gated => GivesGateBack(Tail(l), Head(l).op)
         /\ Head(l).step = "enqueue" => Len(Tail(l)) = 1
<1>1. /\ Tail(l) \in Seq(Calls) /\ Len(Tail(l)) = Len(l) - 1 /\ Len(l) \in Nat \ {0}
      /\ \A i \in 1 .. Len(l) - 1 : Tail(l)[i] = l[i + 1]
      /\ DOMAIN l = 1 .. Len(l) /\ DOMAIN Tail(l) = 1 .. Len(l) - 1
      /\ Head(l) = l[1] /\ \A i \in 1 .. Len(l) : l[i] \in Calls
  OBVIOUS
<1>2. \A i \in 1 .. Len(l) - 1 : Tail(l)[i].step \in Later /\ Tail(l)[i] \in Elements(l)
  <2> SUFFICES ASSUME NEW i \in 1 .. Len(l) - 1
               PROVE  Tail(l)[i].step \in Later /\ Tail(l)[i] \in Elements(l)
    OBVIOUS
  <2>1. i + 1 \in DOMAIN l /\ i + 1 # 1 /\ Tail(l)[i] = l[i + 1]
    BY <1>1
  <2>2. QED
    BY <2>1 DEF InOrder, Elements
<1>3. InOrder(Tail(l))
  <2>1. ASSUME NEW i \in 1 .. Len(l) - 1, Tail(l)[i].step \in Gated PROVE GivesBack(Tail(l), i)
    <3>1. i + 1 \in 1 .. Len(l) /\ Tail(l)[i] = l[i + 1]
      BY <1>1
    <3>2. GivesBack(l, i + 1)
      BY <1>1, <2>1, <3>1 DEF InOrder
    <3>3. i + 1 \in 1 .. Len(l) - 1
      BY <1>1, <3>1, <3>2 DEF GivesBack
    <3>4. Tail(l)[i + 1] = l[(i + 1) + 1]
      BY <1>1, <3>3
    <3>5. QED
      BY <1>1, <3>1, <3>2, <3>3, <3>4 DEF GivesBack
  <2>2. 1 \in DOMAIN Tail(l) => Tail(l)[1].step \notin {"commit", "submit", "enqueue"}
    BY <1>1, <1>2 DEF Later
  <2>3. QED
    BY <1>1, <1>2, <2>1, <2>2 DEF InOrder
<1>4. Head(l).step \in Gated => GivesGateBack(Tail(l), Head(l).op)
  <2> SUFFICES ASSUME Head(l).step \in Gated PROVE GivesGateBack(Tail(l), Head(l).op)
    OBVIOUS
  <2>1. GivesBack(l, 1)
    BY <1>1 DEF InOrder
  <2>2. 1 \in 1 .. Len(l) - 1
    BY <1>1, <2>1 DEF GivesBack
  <2>3. Tail(l)[1] = l[1 + 1] /\ Tail(l) # <<>>
    <3>1. Tail(l)[1] = l[1 + 1]
      BY <1>1, <2>2
    <3>2. Len(Tail(l)) # 0 /\ Len(<<>>) = 0
      BY <1>1, <2>2
    <3>3. QED
      BY <3>1, <3>2
  <2>4. l[1 + 1].step = "leaveGate" /\ l[1 + 1].op = Head(l).op
    BY <1>1, <2>1 DEF GivesBack
  <2>5. QED
    BY <2>3, <2>4 DEF GivesGateBack
<1>5. Head(l).step \in {"commit", "submit"} => Tail(l) = <<>>
  BY <1>1 DEF InOrder
<1>6. Head(l).step = "enqueue" => Len(Tail(l)) = 1
  BY <1>1 DEF InOrder
<1>7. Head(l) \in Calls /\ Head(l) \in Elements(l)
  BY <1>1 DEF Elements
<1>8. \A x \in Elements(Tail(l)) : x \in Elements(l) /\ x.step \in Later
  BY <1>1, <1>2 DEF Elements
<1>9. QED
  BY <1>1, <1>3, <1>4, <1>5, <1>6, <1>7, <1>8

LEMMA JoinedLists ==
  ASSUME NEW a \in Seq(Calls), NEW b \in Seq(Calls), InOrder(b), MayPrecede(a, b),
         \A x \in Elements(b) : x.step \in Later
  PROVE  /\ a \o b \in Seq(Calls) /\ InOrder(a \o b)
         /\ \A x \in Elements(a \o b) : x \in Elements(a) \/ x \in Elements(b)
<1>1. /\ a \o b \in Seq(Calls) /\ Len(a \o b) = Len(a) + Len(b)
      /\ Len(a) \in Nat /\ Len(b) \in Nat
      /\ \A i \in 1 .. Len(a) + Len(b) : (a \o b)[i] = IF i <= Len(a) THEN a[i] ELSE b[i - Len(a)]
      /\ DOMAIN a = 1 .. Len(a) /\ DOMAIN b = 1 .. Len(b) /\ DOMAIN (a \o b) = 1 .. Len(a) + Len(b)
  OBVIOUS
<1>2. ASSUME NEW i \in 1 .. Len(a) + Len(b)
      PROVE  \/ i \in DOMAIN a /\ (a \o b)[i] = a[i] /\ (a \o b)[i] \in Elements(a)
             \/ i - Len(a) \in DOMAIN b /\ (a \o b)[i] = b[i - Len(a)] /\ (a \o b)[i] \in Elements(b)
  <2>1. CASE i <= Len(a)
    <3>1. i \in DOMAIN a /\ (a \o b)[i] = a[i]
      BY <1>1, <2>1
    <3>2. QED
      BY <3>1 DEF Elements
  <2>2. CASE i > Len(a)
    <3>1. i - Len(a) \in DOMAIN b /\ (a \o b)[i] = b[i - Len(a)]
      BY <1>1, <2>2
    <3>2. QED
      BY <3>1 DEF Elements
  <2>3. QED
    BY <1>1, <2>1, <2>2
<1>3. ASSUME NEW i \in 1 .. Len(a) + Len(b), i # 1 PROVE (a \o b)[i].step \in Later
  BY <1>2, <1>3 DEF MayPrecede
<1>4. ASSUME NEW i \in 1 .. Len(a) + Len(b), (a \o b)[i].step \in Gated PROVE GivesBack(a \o b, i)
  <2>1. CASE i \in DOMAIN a /\ GivesBack(a, i) /\ (a \o b)[i] = a[i]
    <3>1. i + 1 \in 1 .. Len(a) + Len(b) /\ (a \o b)[i + 1] = a[i + 1]
      BY <1>1, <2>1 DEF GivesBack
    <3>2. QED
      BY <1>1, <2>1, <3>1 DEF GivesBack
  <2>2. CASE i = Len(a) /\ GivesGateBack(b, a[i].op) /\ (a \o b)[i] = a[i]
    <3>1. Len(b) > 0
      BY <1>1, <2>2 DEF GivesGateBack
    <3>2. i + 1 \in 1 .. Len(a) + Len(b) /\ (a \o b)[i + 1] = b[1]
      BY <1>1, <2>2, <3>1
    <3>3. QED
      BY <1>1, <2>2, <3>2 DEF GivesBack, GivesGateBack
  <2>3. CASE i - Len(a) \in DOMAIN b /\ (a \o b)[i] = b[i - Len(a)]
    <3> DEFINE j == i - Len(a)
    <3>1. j \in 1 .. Len(b) /\ GivesBack(b, j)
      BY <1>1, <1>4, <2>3 DEF InOrder
    <3>2. j + 1 \in 1 .. Len(b) /\ b[j + 1].step = "leaveGate" /\ b[j + 1].op = b[j].op
      BY <1>1, <3>1 DEF GivesBack
    <3>3. i + 1 \in 1 .. Len(a) + Len(b) /\ (i + 1) - Len(a) = j + 1 /\ i + 1 > Len(a)
      BY <1>1, <3>1, <3>2
    <3>4. (a \o b)[i + 1] = b[j + 1]
      BY <1>1, <3>3
    <3>5. QED
      BY <1>1, <2>3, <3>2, <3>3, <3>4 DEF GivesBack
  <2>4. QED
    BY <1>2, <1>4, <2>1, <2>2, <2>3 DEF MayPrecede
<1>5. 1 \in 1 .. Len(a) + Len(b) => (a \o b)[1].step \notin {"commit", "submit", "enqueue"}
  BY <1>2 DEF MayPrecede, Later
<1>6. InOrder(a \o b)
  BY <1>1, <1>3, <1>4, <1>5 DEF InOrder
<1>7. \A x \in Elements(a \o b) : x \in Elements(a) \/ x \in Elements(b)
  BY <1>1, <1>2 DEF Elements
<1>8. QED
  BY <1>1, <1>6, <1>7

(* Lists of two steps at most. *)
LEMMA NoList ==
  /\ <<>> \in Seq(Calls) /\ Elements(<<>>) = {} /\ InOrder(<<>>)
  /\ \A b : MayPrecede(<<>>, b)
BY DEF Elements, InOrder, MayPrecede

LEMMA OneStep ==
  ASSUME NEW x \in Calls
  PROVE  /\ <<x>> \in Seq(Calls) /\ Elements(<<x>>) = {x}
         /\ x.step \notin Gated => InOrder(<<x>>)
         /\ \A b : /\ x.step \notin {"commit", "submit", "enqueue"}
                   /\ x.step \in Gated => GivesGateBack(b, x.op)
                   => MayPrecede(<<x>>, b)
<1>1. <<x>> \in Seq(Calls) /\ DOMAIN <<x>> = {1} /\ Len(<<x>>) = 1 /\ <<x>>[1] = x
  OBVIOUS
<1>2. Elements(<<x>>) = {x}
  BY <1>1 DEF Elements
<1>3. x.step \notin Gated => InOrder(<<x>>)
  BY <1>1 DEF InOrder, Gated
<1>4. QED
  BY <1>1, <1>2, <1>3 DEF MayPrecede

LEMMA TwoSteps ==
  ASSUME NEW x \in Calls, NEW y \in Calls, y.step \in Later, x.step \notin {"commit", "submit"},
         x.step \in Gated => y.step = "leaveGate" /\ y.op = x.op
  PROVE  /\ <<x, y>> \in Seq(Calls) /\ Elements(<<x, y>>) = {x, y}
         /\ y.step \notin Gated => InOrder(<<x, y>>)
         /\ \A b : /\ x.step # "enqueue"
                   /\ y.step \in Gated => GivesGateBack(b, y.op)
                   => MayPrecede(<<x, y>>, b)
<1> DEFINE l == <<x, y>>
<1>1. l \in Seq(Calls) /\ DOMAIN l = {1, 2} /\ Len(l) = 2 /\ l[1] = x /\ l[2] = y
  OBVIOUS
<1> HIDE DEF l
<1>2. Elements(l) = {x, y}
  BY <1>1 DEF Elements
<1>3. x.step \in Gated => GivesBack(l, 1)
  BY <1>1 DEF GivesBack
<1>4. y.step \notin Gated => InOrder(l)
  BY <1>1, <1>3 DEF InOrder
<1>5. ASSUME NEW b, x.step # "enqueue", y.step \in Gated => GivesGateBack(b, y.op)
      PROVE  MayPrecede(l, b)
  BY <1>1, <1>3, <1>5 DEF MayPrecede
<1>6. QED
  BY <1>1, <1>2, <1>4, <1>5 DEF l

-----------------------------------------------------------------------------
(* What a step of t leaves: of the other threads' steps all, of its own those *)
(* behind the first, and what it puts in front of them.                       *)
Stays(t, u, x) == u = t => x.step \in Later

Moves(t, new) ==
  \A u \in Threads : \A x \in Ahead(u)' : \/ x \in Ahead(u) /\ Stays(t, u, x)
                                          \/ u = t /\ x \in new
                                          \/ x.step = "work"

LEMMA ThreadNames ==
  /\ \A o \in Ops : Submitter(o) \in Threads /\ Worker(o) \in Threads
  /\ \A t \in Controlling : t \in Threads
  /\ \A t \in Helping : t \in Threads
  /\ \A o, p \in Ops : Submitter(o) = Submitter(p) => o = p
BY DEF Submitter, Worker, Controlling, Helping, Threads

LEMMA TheHead ==
  ASSUME Lists, NEW t \in Threads, thread[t] # <<>>
  PROVE  /\ Now(t) \in Calls /\ Now(t) \in Ahead(t)
         /\ Tail(thread[t]) \in Seq(Calls) /\ InOrder(Tail(thread[t]))
         /\ \A x \in Elements(Tail(thread[t])) : x \in Ahead(t) /\ x.step \in Later
         /\ Now(t).step \in {"commit", "submit"} => Tail(thread[t]) = <<>>
         /\ Now(t).step \in Gated => GivesGateBack(Tail(thread[t]), Op(t))
<1>1. thread[t] \in Seq(Calls) /\ InOrder(thread[t])
  BY DEF Lists
<1>2. QED
  BY <1>1, RestOfList DEF Now, Op, Ahead

LEMMA IsGivenBack ==
  ASSUME Lists, NEW t \in Threads, NEW x \in Ahead(t), x.step \in Gated
  PROVE  \E y \in Ahead(t) : y.step = "leaveGate" /\ y.op = x.op
<1>1. PICK i \in DOMAIN thread[t] : x = thread[t][i]
  BY DEF Ahead, Elements
<1>2. GivesBack(thread[t], i)
  BY <1>1 DEF Lists, InOrder
<1>3. i + 1 \in DOMAIN thread[t]
  BY <1>2 DEF GivesBack
<1>4. thread[t][i + 1] \in Ahead(t)
  BY <1>3 DEF Ahead, Elements
<1>5. QED
  BY <1>1, <1>2, <1>4 DEF GivesBack

LEMMA StepsAreCalls ==
  ASSUME Lists, NEW t \in Threads, NEW x \in Ahead(t)
  PROVE  x \in Calls
BY DEF Lists, Ahead, Elements

(* The list of t is replaced. *)
LEMMA ReplacesList ==
  ASSUME Lists, NEW t \in Threads, NEW l \in Seq(Calls), InOrder(l),
         NEW new, \A x \in Elements(l) : x \in new \/ (x \in Ahead(t) /\ x.step \in Later),
         thread' = [thread EXCEPT ![t] = l]
  PROVE  Lists' /\ Moves(t, new)
<1>1. thread' \in [Threads -> Seq(Calls)] /\ thread'[t] = l
      /\ \A u \in Threads : u # t => thread'[u] = thread[u]
  BY DEF Lists
<1>2. Lists'
  BY <1>1 DEF Lists
<1>3. Ahead(t)' = Elements(l) /\ \A u \in Threads : u # t => Ahead(u)' = Ahead(u)
  BY <1>1 DEF Ahead
<1>4. QED
  BY <1>2, <1>3 DEF Moves, Stays

LEMMA Goes ==
  ASSUME Lists, NEW t \in Threads, thread[t] # <<>>,
         NEW todo \in Seq(Calls), MayPrecede(todo, Tail(thread[t])), Does(t, todo)
  PROVE  Lists' /\ Moves(t, Elements(todo))
<1> DEFINE rest == Tail(thread[t])
<1>1. rest \in Seq(Calls) /\ InOrder(rest) /\ \A x \in Elements(rest) : x \in Ahead(t) /\ x.step \in Later
  BY TheHead
<1>2. thread' = [thread EXCEPT ![t] = todo \o rest]
  BY DEF Does
<1> HIDE DEF rest
<1>3. /\ todo \o rest \in Seq(Calls) /\ InOrder(todo \o rest)
      /\ \A x \in Elements(todo \o rest) : x \in Elements(todo) \/ x \in Elements(rest)
  BY <1>1, JoinedLists DEF rest
<1>4. QED
  BY <1>1, <1>2, <1>3, ReplacesList

LEMMA StartsList ==
  ASSUME Lists, NEW t \in Threads, NEW todo \in Seq(Calls), InOrder(todo), Begins(t, todo)
  PROVE  Lists' /\ Moves(t, Elements(todo))
BY ReplacesList DEF Begins

LEMMA GoesOn ==
  ASSUME Lists, NEW t \in Threads, thread[t] # <<>>, Does(t, <<>>)
  PROVE  Lists' /\ Moves(t, {})
<1>1. <<>> \in Seq(Calls) /\ Elements(<<>>) = {} /\ MayPrecede(<<>>, Tail(thread[t]))
  BY NoList
<1>2. QED
  BY <1>1, Goes

LEMMA GoesOne ==
  ASSUME Lists, NEW t \in Threads, thread[t] # <<>>,
         NEW x \in Calls, x.step \notin {"commit", "submit", "enqueue"},
         x.step \in Gated => Now(t).step \in Gated /\ Op(t) = x.op,
         Does(t, <<x>>)
  PROVE  Lists' /\ Moves(t, {x})
<1>1. x.step \in Gated => GivesGateBack(Tail(thread[t]), x.op)
  BY TheHead
<1>2. <<x>> \in Seq(Calls) /\ Elements(<<x>>) = {x} /\ MayPrecede(<<x>>, Tail(thread[t]))
  BY <1>1, OneStep
<1>3. QED
  BY <1>2, Goes

LEMMA GoesTwo ==
  ASSUME Lists, NEW t \in Threads, thread[t] # <<>>,
         NEW x \in Calls, NEW y \in Calls, x.step \notin {"commit", "submit", "enqueue"}, y.step \in Later,
         x.step \in Gated => y.step = "leaveGate" /\ y.op = x.op,
         y.step \in Gated => Now(t).step \in Gated /\ Op(t) = y.op,
         Does(t, <<x, y>>)
  PROVE  Lists' /\ Moves(t, {x, y})
<1>1. y.step \in Gated => GivesGateBack(Tail(thread[t]), y.op)
  BY TheHead
<1>2. <<x, y>> \in Seq(Calls) /\ Elements(<<x, y>>) = {x, y} /\ MayPrecede(<<x, y>>, Tail(thread[t]))
  BY <1>1, TwoSteps
<1>3. QED
  BY <1>2, Goes

(* The first two steps of a submission have nothing behind them. *)
LEMMA Submits ==
  ASSUME Lists, NEW t \in Threads, thread[t] # <<>>, Now(t).step \in {"commit", "submit"},
         NEW todo \in Seq(Calls), Does(t, todo)
  PROVE  thread' = [thread EXCEPT ![t] = todo]
<1>1. Tail(thread[t]) = <<>>
  BY TheHead
<1>2. todo \o <<>> = todo
  OBVIOUS
<1>3. QED
  BY <1>1, <1>2 DEF Does

-----------------------------------------------------------------------------
(* What no step does to any operation, and what a step of another operation   *)
(* leaves of one.                                                             *)
Calm(o) ==
  /\ entry[o] \in Terminal => entry'[o] = entry[o]
  /\ Resided(o) => Resided(o)'
  /\ observer[o] # Nothing => observer'[o] # Nothing

Same(o) ==
  /\ record'[o] = record[o] /\ entry'[o] = entry[o] /\ observer'[o] = observer[o]
  /\ residency'[o] = residency[o] /\ inFlight'[o] = inFlight[o] /\ deferred'[o] = deferred[o]
  /\ pool'[o] = pool[o]

LEMMA SameIsCalm ==
  ASSUME NEW o, Same(o)
  PROVE  Calm(o)
BY DEF Same, Calm, Resided

LEMMA SameAgrees ==
  ASSUME NEW o, Same(o), Agrees(o)
  PROVE  Agrees(o)'
BY DEF Same, Agrees, Resided

LEMMA CallNames ==
  ASSUME NEW x \in Calls
  PROVE  x.step \notin Ownerless => x.op \in Ops
BY DEF Calls

LEMMA LastingKept ==
  ASSUME \A o \in Ops : Calm(o), NEW x \in Calls, Lasting(x)
  PROVE  Lasting(x)'
<1>1. x.step \in {"release", "reduce", "reduceGated", "leaveGate"} \cup Controls => x.op \in Ops
  BY CallNames DEF Ownerless, Controls
<1>2. x.step \in {"release", "reduce", "reduceGated", "leaveGate"} \cup Controls => Calm(x.op)
  BY <1>1
<1>3. /\ (x.step = "release" => entry'[x.op] \in Terminal)
      /\ (x.step = "reduce" /\ x.arg = "observer" => entry'[x.op] \in Terminal /\ observer'[x.op] # Nothing)
  BY <1>2 DEF Lasting, Calm
<1>4. /\ (x.step = "reduceGated" => entry'[x.op] \in Terminal /\ Resided(x.op)')
      /\ (x.step \in Controls \cup {"leaveGate"} => Resided(x.op)')
  BY <1>2 DEF Lasting, Calm
<1>5. x.step = "refresh" => \A o \in Ops : o \in x.arg => entry'[o] \in Terminal
  BY DEF Lasting, Calm
<1>6. QED
  BY <1>3, <1>4, <1>5 DEF Lasting

LEMMA PassingKept ==
  ASSUME NEW t, NEW x, x.step \in Volatile => Same(x.op), Passing(t, x)
  PROVE  Passing(t, x)'
<1>1. CASE x.step \in Volatile
  BY <1>1 DEF Passing, Same, Resided
<1>2. CASE x.step \notin Volatile
  BY <1>2 DEF Passing, Volatile
<1>3. QED
  BY <1>1, <1>2

(* Steps that exclude nothing. *)
Plain(x) == x.step \notin {"leaveGate", "finalize", "retire"} \cup Touching

NewApart(t, new) ==
  /\ \A x \in new : \A u \in Threads : \A y \in Ahead(u) :
       Stays(t, u, y) => Apart(t, x, u, y) /\ Apart(u, y, t, x)
  /\ \A x, y \in new : x.step \in Touching => y.step # "retire"

LEMMA PlainIsApart ==
  ASSUME NEW t, NEW x, NEW u, NEW y, Plain(x)
  PROVE  Apart(t, x, u, y) /\ Apart(u, y, t, x)
BY DEF Plain, Apart, Touching

LEMMA PlainAreApart ==
  ASSUME NEW t, NEW new, \A x \in new : Plain(x)
  PROVE  NewApart(t, new)
<1>1. \A x, y \in new : x.step \in Touching => y.step # "retire"
  BY DEF Plain
<1>2. QED
  BY <1>1, PlainIsApart DEF NewApart

(* A step keeps the invariant. *)
LEMMA Assembled ==
  ASSUME IInv, NEW t \in Threads, NEW new, Types', Lists', Moves(t, new), NewApart(t, new),
         \A o \in Ops : Calm(o) /\ Agrees(o)',
         \A u \in Threads : \A x \in Ahead(u) : x.step \in Volatile /\ Stays(t, u, x) => Passing(u, x)',
         \A x \in new : Lasting(x)' /\ Passing(t, x)'
  PROVE  IInv'
<1> DEFINE Old(u, x) == x \in Ahead(u) /\ Stays(t, u, x)
           New(u, x) == u = t /\ x \in new
           Work(x)   == x.step = "work"
<1>1. \A u \in Threads : \A x \in Ahead(u)' : Old(u, x) \/ New(u, x) \/ Work(x)
  BY DEF Moves
<1>2. ASSUME NEW u \in Threads, NEW x \in Ahead(u)' PROVE Lasting(x)' /\ Passing(u, x)'
  <2>1. CASE Old(u, x)
    <3>1. x \in Calls /\ Lasting(x) /\ Passing(u, x)
      BY <2>1, StepsAreCalls DEF IInv
    <3>2. Lasting(x)'
      BY <3>1, LastingKept
    <3>3. CASE x.step \in Volatile
      BY <2>1, <3>2, <3>3
    <3>4. CASE x.step \notin Volatile
      BY <3>2, <3>4 DEF Passing, Volatile
    <3>5. QED
      BY <3>3, <3>4
  <2>2. CASE New(u, x)
    BY <2>2
  <2>3. CASE Work(x)
    BY <2>3 DEF Lasting, Passing, Controls, Touching
  <2>4. QED
    BY <1>1, <2>1, <2>2, <2>3
<1>3. ASSUME NEW u \in Threads, NEW v \in Threads, NEW x \in Ahead(u)', NEW y \in Ahead(v)'
      PROVE  Apart(u, x, v, y)
  <2>1. CASE Work(x) \/ Work(y)
    BY <2>1 DEF Apart, Touching
  <2>2. CASE Old(u, x) /\ Old(v, y)
    BY <2>2 DEF IInv
  <2>3. CASE New(u, x) /\ Old(v, y)
    BY <2>3 DEF NewApart
  <2>4. CASE Old(u, x) /\ New(v, y)
    BY <2>4 DEF NewApart
  <2>5. CASE New(u, x) /\ New(v, y)
    BY <2>5 DEF NewApart, Apart
  <2>6. QED
    BY <1>1, <2>1, <2>2, <2>3, <2>4, <2>5
<1>4. QED
  BY <1>2, <1>3 DEF IInv, Apart

(* A step for o leaves the other operations alone. *)
LEMMA ActsOnOne ==
  ASSUME IInv, NEW t \in Threads, NEW o \in Ops, NEW new,
         Types', Lists', Moves(t, new), NewApart(t, new),
         \A p \in Ops : p # o => Same(p),
         Calm(o), Agrees(o)',
         \A u \in Threads : \A x \in Ahead(u) :
           x.op = o /\ x.step \in Volatile /\ Stays(t, u, x) => Passing(u, x)',
         \A x \in new : Lasting(x)' /\ Passing(t, x)'
  PROVE  IInv'
<1>1. \A p \in Ops : Calm(p) /\ Agrees(p)'
  BY SameIsCalm, SameAgrees DEF IInv
<1>2. ASSUME NEW u \in Threads, NEW x \in Ahead(u), x.step \in Volatile, Stays(t, u, x)
      PROVE  Passing(u, x)'
  <2>1. CASE x.op = o
    BY <1>2, <2>1
  <2>2. CASE x.op # o
    <3>1. x.op \in Ops
      BY <1>2, StepsAreCalls, CallNames DEF IInv, Volatile, Touching, Ownerless
    <3>2. Same(x.op) /\ Passing(u, x)
      BY <2>2, <3>1 DEF IInv
    <3>3. QED
      BY <3>2, PassingKept
  <2>3. QED
    BY <2>1, <2>2
<1>3. QED
  BY <1>1, <1>2, Assembled

(* A step that changes lists and jobs only. *)
LEMMA ActsOnNone ==
  ASSUME IInv, NEW t \in Threads, NEW new,
         Types', Lists', Moves(t, new), NewApart(t, new), UNCHANGED <<center, journal, pool>>,
         \A x \in new : Lasting(x) /\ Passing(t, x)
  PROVE  IInv'
<1>1. \A p \in Ops : Same(p)
  BY DEF Same, center, journal
<1>2. \A p \in Ops : Calm(p) /\ Agrees(p)'
  BY <1>1, SameIsCalm, SameAgrees DEF IInv
<1>3. ASSUME NEW u \in Threads, NEW x \in Ahead(u) PROVE Passing(u, x)'
  <2>1. Passing(u, x)
    BY DEF IInv
  <2>2. QED
    BY <2>1 DEF Passing, Resided, center, journal
<1>4. ASSUME NEW x \in new PROVE Lasting(x)' /\ Passing(t, x)'
  <2>1. Lasting(x) /\ Passing(t, x)
    OBVIOUS
  <2>2. QED
    BY <2>1 DEF Lasting, Passing, Resided, center, journal
<1>5. QED
  BY <1>2, <1>3, <1>4, Assembled

-----------------------------------------------------------------------------
(* Steps that change lists of steps and the flags of jobs only.               *)

LEMMA CallsMade ==
  ASSUME NEW step \in StepNames \ Ownerless, NEW o \in Ops, NEW arg \in Args
  PROVE  /\ Do(step, o, arg) \in Calls
         /\ Do(step, o, arg).step = step /\ Do(step, o, arg).op = o /\ Do(step, o, arg).arg = arg
BY DEF Do, Calls

LEMMA OwnerlessCalls ==
  ASSUME NEW step \in Ownerless, NEW o \in Ops \cup {Nothing}, NEW arg \in Args
  PROVE  /\ Do(step, o, arg) \in Calls
         /\ Do(step, o, arg).step = step /\ Do(step, o, arg).op = o /\ Do(step, o, arg).arg = arg
BY DEF Do, Calls

LEMMA CallsTo ==
  ASSUME NEW o \in Ops
  PROVE  /\ \A step \in StepNames \ Ownerless :
              To(step, o) \in Calls /\ To(step, o).step = step /\ To(step, o).op = o
         /\ To("startPending", o) \in Calls /\ To("startPending", o).step = "startPending"
<1>1. 0 \in Args
  BY DEF Args
<1>2. QED
  BY <1>1, CallsMade, OwnerlessCalls DEF To, Ownerless

LEMMA HeadFacts ==
  ASSUME IInv, NEW t \in Threads, thread[t] # <<>>
  PROVE  /\ Now(t) \in Calls /\ Now(t) \in Ahead(t)
         /\ Lasting(Now(t)) /\ Passing(t, Now(t))
         /\ Now(t).step \notin Ownerless => Op(t) \in Ops
BY TheHead, CallNames DEF IInv, Op

(* Steps of which nothing is said. *)
Silent == {"startPending", "start", "launch", "started", "work", "finish", "leaveTransition", "leaveStart"}

LEMMA SilentSteps ==
  ASSUME NEW t, NEW x, x.step \in Silent
  PROVE  Lasting(x) /\ Passing(t, x) /\ Plain(x) /\ Lasting(x)' /\ Passing(t, x)'
BY DEF Silent, Lasting, Passing, Plain, Controls, Touching

LEMMA ActsSilently ==
  ASSUME IInv, NEW t \in Threads, NEW new, Types', Lists', Moves(t, new), UNCHANGED <<center, journal, pool>>,
         \A x \in new : x.step \in Silent
  PROVE  IInv'
<1>1. \A x \in new : Lasting(x) /\ Passing(t, x) /\ Plain(x)
  BY SilentSteps
<1>2. NewApart(t, new)
  BY <1>1, PlainAreApart
<1>3. QED
  BY <1>1, <1>2, ActsOnNone

LEMMA LeaveKeeps ==
  ASSUME IInv, NEW t \in Threads, thread[t] # <<>>, Leave(t)
  PROVE  IInv'
<1>1. Lists' /\ Moves(t, {})
  BY GoesOn DEF Leave, IInv
<1>2. Types'
  BY DEF Leave, IInv, Types, center, journal
<1>3. QED
  BY <1>1, <1>2, ActsSilently DEF Leave

LEMMA StartKeeps ==
  ASSUME IInv, NEW t \in Threads, NEW o \in Ops, Start(t, o)
  PROVE  IInv'
<1>1. thread[t] # <<>> /\ Lists
  BY DEF Start, At, IInv
<1> DEFINE x == To("launch", o)
           y == To("started", o)
           z == To("leaveStart", o)
<1>2. /\ x \in Calls /\ x.step = "launch" /\ y \in Calls /\ y.step = "started"
      /\ z \in Calls /\ z.step = "leaveStart"
  BY CallsTo DEF StepNames, Ownerless
<1>3. /\ job' \in [Ops -> [isRunning : BOOLEAN, ended : {"Completed", "Stopped", Nothing}]]
      /\ Does(t, <<x, z>>) \/ Does(t, <<y, z>>)
  <2>1. job \in [Ops -> [isRunning : BOOLEAN, ended : {"Completed", "Stopped", Nothing}]]
    BY DEF IInv, Types
  <2>2. QED
    BY <2>1 DEF Start
<1>4. Types' /\ UNCHANGED <<center, journal, pool>>
  BY <1>3 DEF Start, IInv, Types, center, journal
<1> HIDE DEF x, y, z
<1>5. \E new \in {{x, z}, {y, z}} : Lists' /\ Moves(t, new)
  BY <1>1, <1>2, <1>3, GoesTwo DEF Gated, Later
<1>6. QED
  BY <1>2, <1>4, <1>5, ActsSilently DEF Silent

LEMMA LaunchKeeps ==
  ASSUME IInv, NEW t \in Threads, NEW o \in Ops, Launch(t, o)
  PROVE  IInv'
<1>1. thread[t] # <<>> /\ Lists
  BY DEF Launch, At, IInv
<1> DEFINE x == To("started", o)
           y == To("work", o)
           l == <<x>> \o Tail(thread[t])
<1>2. x \in Calls /\ x.step = "started" /\ y \in Calls /\ y.step = "work"
  BY CallsTo DEF StepNames, Ownerless
<1>3. thread' = [thread EXCEPT ![t] = l, ![Worker(o)] = <<y>>]
  BY DEF Launch
<1> HIDE DEF x, y
<1>4. /\ <<x>> \in Seq(Calls) /\ Elements(<<x>>) = {x} /\ MayPrecede(<<x>>, Tail(thread[t]))
      /\ <<y>> \in Seq(Calls) /\ Elements(<<y>>) = {y} /\ InOrder(<<y>>)
  BY <1>2, OneStep DEF Gated
<1>5. /\ Tail(thread[t]) \in Seq(Calls) /\ InOrder(Tail(thread[t]))
      /\ \A z \in Elements(Tail(thread[t])) : z \in Ahead(t) /\ z.step \in Later
  BY <1>1, TheHead
<1>6. /\ l \in Seq(Calls) /\ InOrder(l)
      /\ \A z \in Elements(l) : z = x \/ (z \in Ahead(t) /\ z.step \in Later)
  BY <1>4, <1>5, JoinedLists
<1> HIDE DEF l
<1>7. Worker(o) \in Threads
  BY ThreadNames
<1>8. /\ thread' \in [Threads -> Seq(Calls)] /\ thread'[Worker(o)] = <<y>>
      /\ t # Worker(o) => thread'[t] = l
      /\ \A u \in Threads : u \notin {t, Worker(o)} => thread'[u] = thread[u]
  BY <1>1, <1>3, <1>4, <1>6, <1>7 DEF Lists
<1>9. Lists'
  BY <1>1, <1>4, <1>6, <1>8 DEF Lists
<1>10. Moves(t, {x})
  <2>1. Ahead(Worker(o))' = {y}
    BY <1>4, <1>8 DEF Ahead
  <2>2. t # Worker(o) => Ahead(t)' = Elements(l)
    BY <1>8 DEF Ahead
  <2>3. \A u \in Threads : u \notin {t, Worker(o)} => Ahead(u)' = Ahead(u)
    BY <1>8 DEF Ahead
  <2>4. QED
    BY <1>2, <1>6, <2>1, <2>2, <2>3 DEF Moves, Stays
<1>11. Types' /\ UNCHANGED <<center, journal, pool>>
  BY DEF Launch, IInv, Types, center, journal
<1>12. QED
  BY <1>2, <1>9, <1>10, <1>11, ActsSilently DEF Silent

(* A job that ends tells so. *)
LEMMA JobEnds ==
  ASSUME IInv, NEW t \in Threads, NEW o \in Ops, LaunchFails(t, o) \/ WorkEnds(t, o)
  PROVE  IInv'
<1>1. thread[t] # <<>> /\ Lists
  BY DEF LaunchFails, WorkEnds, At, IInv
<1> DEFINE x == To("finish", o)
           z == To("leaveTransition", o)
<1>2. x \in Calls /\ x.step = "finish" /\ z \in Calls /\ z.step = "leaveTransition"
  BY CallsTo DEF StepNames, Ownerless
<1>3. /\ job' \in [Ops -> [isRunning : BOOLEAN, ended : {"Completed", "Stopped", Nothing}]]
      /\ Does(t, <<x, z>>) \/ Does(t, <<x>>)
  <2>1. job \in [Ops -> [isRunning : BOOLEAN, ended : {"Completed", "Stopped", Nothing}]]
    BY DEF IInv, Types
  <2>2. \E e \in {"Completed", "Stopped", Nothing} :
          job' = [job EXCEPT ![o].isRunning = FALSE, ![o].ended = e]
    BY <2>1 DEF LaunchFails, WorkEnds
  <2>3. job' \in [Ops -> [isRunning : BOOLEAN, ended : {"Completed", "Stopped", Nothing}]]
    BY <2>1, <2>2
  <2>4. Does(t, <<x, z>>) \/ Does(t, <<x>>)
    BY DEF LaunchFails, WorkEnds
  <2>5. QED
    BY <2>3, <2>4
<1>4. Types' /\ UNCHANGED <<center, journal, pool>>
  BY <1>3 DEF LaunchFails, WorkEnds, IInv, Types, center, journal
<1> HIDE DEF x, z
<1>5. \E new \in {{x, z}, {x}} : Lists' /\ Moves(t, new)
  BY <1>1, <1>2, <1>3, GoesOne, GoesTwo DEF Gated, Later
<1>6. QED
  BY <1>2, <1>4, <1>5, ActsSilently DEF Silent

(* Under the gate: Cancel and SetPaused go on to the job. *)
LEMMA Begun ==
  ASSUME IInv, NEW t \in Threads, NEW l \in Seq(Calls), InOrder(l), Begins(t, l),
         \A x \in Elements(l) : Lasting(x) /\ Passing(t, x) /\ Plain(x),
         UNCHANGED <<center, journal, job, pool>>
  PROVE  IInv'
<1>1. Lists' /\ Moves(t, Elements(l))
  BY StartsList DEF IInv
<1>2. Types'
  BY DEF IInv, Types, center, journal
<1>3. NewApart(t, Elements(l))
  BY PlainAreApart
<1> DEFINE new == Elements(l)
<1> HIDE DEF new
<1>4. QED
  BY <1>1, <1>2, <1>3, ActsOnNone DEF new

LEMMA CancelKeeps ==
  ASSUME IInv, NEW t \in Controlling, NEW o \in Ops, Cancel(t, o)
  PROVE  IInv'
<1> DEFINE x == Do("cancel", o, record[o].revision)
<1>1. record[o].revision \in Args
  BY DEF IInv, Types, Args
<1>2. x \in Calls /\ x.step = "cancel" /\ x.op = o
  BY <1>1, CallsMade DEF StepNames, Ownerless
<1>3. Begins(t, <<x>>) /\ UNCHANGED <<center, journal, job, pool>> /\ Resided(o) /\ t \in Threads
  BY ThreadNames DEF Cancel, Resided
<1> HIDE DEF x
<1>4. <<x>> \in Seq(Calls) /\ Elements(<<x>>) = {x} /\ InOrder(<<x>>)
  BY <1>2, OneStep DEF Gated
<1>5. Lasting(x) /\ Passing(t, x) /\ Plain(x)
  BY <1>2, <1>3 DEF Lasting, Passing, Plain, Touching
<1>6. QED
  BY <1>3, <1>4, <1>5, Begun

LEMMA SetPausedKeeps ==
  ASSUME IInv, NEW t \in Controlling, NEW o \in Ops, SetPaused(t, o)
  PROVE  IInv'
<1>1. PICK intent \in {"Pause", "Resume"} :
        /\ residency[o] = "live"
        /\ Begins(t, <<Do("setPaused", o, [intent |-> intent, revision |-> record[o].revision])>>)
        /\ UNCHANGED <<center, journal, job, pool>>
  BY DEF SetPaused
<1> DEFINE a == [intent |-> intent, revision |-> record[o].revision]
           x == Do("setPaused", o, a)
<1>2. a \in PauseCalls /\ a \in Args
  BY DEF IInv, Types, Args, PauseCalls
<1>3. x \in Calls /\ x.step = "setPaused" /\ x.op = o /\ x.arg = a
  BY <1>2, CallsMade DEF StepNames, Ownerless
<1>4. Begins(t, <<x>>) /\ UNCHANGED <<center, journal, job, pool>> /\ Resided(o) /\ t \in Threads
  BY <1>1, ThreadNames DEF Resided
<1> HIDE DEF x, a
<1>5. <<x>> \in Seq(Calls) /\ Elements(<<x>>) = {x} /\ InOrder(<<x>>)
  BY <1>3, OneStep DEF Gated
<1>6. Lasting(x) /\ Passing(t, x) /\ Plain(x)
  BY <1>2, <1>3, <1>4 DEF Lasting, Passing, Plain, Touching
<1>7. QED
  BY <1>4, <1>5, <1>6, Begun

LEMMA BeginStartingKeeps ==
  ASSUME IInv, NEW t \in Helping, BeginStarting(t)
  PROVE  IInv'
<1> DEFINE x == To("startPending", Nothing)
<1>1. x \in Calls /\ x.step = "startPending"
  <2>1. 0 \in Args
    BY DEF Args
  <2>2. QED
    BY <2>1, OwnerlessCalls DEF To, Ownerless
<1>2. Begins(t, <<x>>) /\ UNCHANGED <<center, journal, job, pool>> /\ t \in Threads
  BY ThreadNames DEF BeginStarting
<1> HIDE DEF x
<1>3. <<x>> \in Seq(Calls) /\ Elements(<<x>>) = {x} /\ InOrder(<<x>>)
  BY <1>1, OneStep DEF Gated
<1>4. Lasting(x) /\ Passing(t, x) /\ Plain(x)
  BY <1>1, SilentSteps DEF Silent
<1>5. QED
  BY <1>2, <1>3, <1>4, Begun

LEMMA ReadHistoryKeeps ==
  ASSUME IInv, NEW t \in Helping, ReadHistory(t)
  PROVE  IInv'
<1> DEFINE seen == {o \in Ops : Seen(o)}
           x == Do("refresh", Nothing, seen)
<1>1. x \in Calls /\ x.step = "refresh" /\ x.arg = seen
  <2>1. seen \in Args
    BY DEF Args
  <2>2. "refresh" \in Ownerless /\ Nothing \in Ops \cup {Nothing}
    BY DEF Ownerless
  <2> HIDE DEF seen
  <2>3. QED
    BY <2>1, <2>2, OwnerlessCalls
<1>2. /\ Begins(t, <<x>>) /\ UNCHANGED <<center, journal, job, pool>> /\ t \in Threads
      /\ \A o \in Ops : o \in seen => entry[o] \in Terminal
  BY ThreadNames DEF ReadHistory
<1> HIDE DEF x, seen
<1>3. <<x>> \in Seq(Calls) /\ Elements(<<x>>) = {x} /\ InOrder(<<x>>)
  BY <1>1, OneStep DEF Gated
<1>4. Lasting(x) /\ Passing(t, x) /\ Plain(x)
  BY <1>1, <1>2 DEF Lasting, Passing, Plain, Touching, Controls
<1>5. QED
  BY <1>2, <1>3, <1>4, Begun

(* AskStop: what holds for the question holds for the stop. *)
LEMMA AskStopKeeps ==
  ASSUME IInv, NEW t \in Threads, NEW o \in Ops, AskStop(t, o)
  PROVE  IInv'
<1>1. /\ thread[t] # <<>> /\ Lists /\ Now(t).step = "askStop" /\ Op(t) = o
      /\ Now(t) \in Ahead(t) /\ Lasting(Now(t)) /\ Passing(t, Now(t)) /\ Now(t).op = o
  BY HeadFacts DEF AskStop, At, IInv, Op
<1> DEFINE x == Do("stop", o, job[o].isRunning)
<1>2. job[o].isRunning \in Args
  BY DEF IInv, Types, Args
<1>3. x \in Calls /\ x.step = "stop" /\ x.op = o
  BY <1>2, CallsMade DEF StepNames, Ownerless
<1>4. Does(t, <<x>>) /\ UNCHANGED <<center, journal, job, pool>>
  BY DEF AskStop
<1> HIDE DEF x
<1>5. Lists' /\ Moves(t, {x})
  BY <1>1, <1>3, <1>4, GoesOne DEF Gated
<1>6. Types'
  BY <1>4 DEF IInv, Types, center, journal
<1>7. Lasting(x) /\ Passing(t, x)
  BY <1>1, <1>3 DEF Lasting, Passing, Controls, Touching
<1>8. NewApart(t, {x})
  <2>1. ASSUME NEW u \in Threads, NEW y \in Ahead(u) PROVE Apart(t, x, u, y) /\ Apart(u, y, t, x)
    <3>1. Apart(t, Now(t), u, y)
      BY <1>1 DEF IInv
    <3>2. QED
      BY <1>1, <1>3, <3>1 DEF Apart, Touching
  <2>2. QED
    BY <1>3, <2>1 DEF NewApart
<1>9. QED
  BY <1>4, <1>5, <1>6, <1>7, <1>8, ActsOnNone

LEMMA StopKeeps ==
  ASSUME IInv, NEW t \in Threads, NEW o \in Ops, Stop(t, o)
  PROVE  IInv'
<1>1. /\ thread[t] # <<>> /\ Lists /\ Now(t).step = "stop" /\ Op(t) = o
      /\ Lasting(Now(t)) /\ Now(t).op = o
  BY HeadFacts DEF Stop, At, IInv, Op
<1> DEFINE x == To("finish", o)
<1>2. /\ x \in Calls /\ x.step = "finish"
      /\ \A c \in {Stopped(o), Refused(o)} : c \in Calls /\ c.step = "endCancel" /\ c.op = o
  <2>1. "accepted" \in Args /\ "rejected" \in Args
    BY DEF Args
  <2>2. QED
    BY <2>1, CallsTo, CallsMade DEF Stopped, Refused, StepNames, Ownerless
<1> HIDE DEF x
<1>3. PICK c \in {Stopped(o), Refused(o)} : Does(t, <<c>>) \/ Does(t, <<x, c>>)
  BY DEF Stop, x
<1>4. c \in Calls /\ c.step = "endCancel" /\ c.op = o
  BY <1>2
<1>5. \E new \in {{c}, {x, c}} : Lists' /\ Moves(t, new)
  BY <1>1, <1>2, <1>3, <1>4, GoesOne, GoesTwo DEF Gated, Later
<1>6. Types' /\ UNCHANGED <<center, journal, pool>>
  <2>1. job \in [Ops -> [isRunning : BOOLEAN, ended : {"Completed", "Stopped", Nothing}]]
    BY DEF IInv, Types
  <2>2. job' \in [Ops -> [isRunning : BOOLEAN, ended : {"Completed", "Stopped", Nothing}]]
    BY <2>1 DEF Stop
  <2>3. QED
    BY <2>2 DEF Stop, IInv, Types, center, journal
<1>7. Lasting(c) /\ Passing(t, c) /\ Plain(c)
  BY <1>1, <1>4 DEF Lasting, Passing, Plain, Controls, Touching
<1>8. Lasting(x) /\ Passing(t, x) /\ Plain(x)
  BY <1>2, SilentSteps DEF Silent
<1>9. \A new \in {{c}, {x, c}} : NewApart(t, new) /\ \A y \in new : Lasting(y) /\ Passing(t, y)
  BY <1>7, <1>8, PlainAreApart
<1>10. QED
  BY <1>5, <1>6, <1>9, ActsOnNone

(* Who takes the gate of an operation that is live and has not left the pool. *)
LEMMA TakesGate ==
  ASSUME IInv, NEW t \in Threads, NEW o \in Ops, NEW x, NEW z,
         x.step \in {"askStop", "pauseJob"}, x.op = o, z.step = "leaveGate", z.op = o,
         GateIsFree(t, o), IsResident(o), record[o].state \in Live, Resided(o)
  PROVE  NewApart(t, {x, z}) /\ \A y \in {x, z} : Lasting(y) /\ Passing(t, y)
<1>1. record[o].state \notin Terminal
  BY DEF Live, Terminal
<1>2. residency[o] = "live"
  BY <1>1 DEF IInv, Agrees, IsResident, Resided
<1>3. Lasting(x) /\ Passing(t, x)
  BY <1>2 DEF Lasting, Passing, Touching, Controls, Resided
<1>4. Lasting(z) /\ Passing(t, z)
  BY DEF Lasting, Passing, Touching, Controls
<1>5. ASSUME NEW u \in Threads, NEW y \in Ahead(u)
      PROVE  /\ Apart(t, x, u, y) /\ Apart(u, y, t, x)
             /\ Apart(t, z, u, y) /\ Apart(u, y, t, z)
  <2>1. y.op = o => y.step # "retire"
    BY DEF IInv, Passing, IsResident
  <2>2. y.op = o /\ y.step = "leaveGate" => u = t
    <3> SUFFICES ASSUME y.op = o, y.step = "leaveGate", u # t PROVE FALSE
      OBVIOUS
    <3>1. PICK i \in DOMAIN thread[u] : y = thread[u][i]
      BY DEF Ahead, Elements
    <3>2. Holds(u, "leaveGate", o)
      BY <3>1 DEF Holds
    <3>3. QED
      BY <3>2 DEF GateIsFree
  <2>3. QED
    BY <2>1, <2>2 DEF Apart, Touching
<1>6. QED
  BY <1>3, <1>4, <1>5 DEF NewApart

LEMMA SetPausedUnderGateKeeps ==
  ASSUME IInv, NEW t \in Threads, NEW o \in Ops, SetPausedUnderGate(t, o)
  PROVE  IInv'
<1>1. /\ thread[t] # <<>> /\ Lists /\ Now(t).step = "setPaused" /\ Op(t) = o
      /\ Lasting(Now(t)) /\ Now(t).op = o /\ GateIsFree(t, o)
      /\ UNCHANGED <<center, journal, job, pool>>
  BY HeadFacts DEF SetPausedUnderGate, At, IInv, Op
<1>2. Types'
  BY <1>1 DEF IInv, Types, center, journal
<1>3. CASE Does(t, <<>>)
  <2>1. Lists' /\ Moves(t, {})
    BY <1>1, <1>3, GoesOn
  <2>2. QED
    BY <1>1, <1>2, <2>1, ActsSilently
<1>4. CASE ~Does(t, <<>>)
  <2> DEFINE a == Now(t).arg.intent
             x == Do("pauseJob", o, a)
             z == To("leaveGate", o)
  <2>1. Does(t, <<x, z>>) /\ Available(o, a) /\ IsResident(o)
    BY <1>4 DEF SetPausedUnderGate
  <2>2. a \in Args
    BY <1>1 DEF Lasting, PauseCalls, Args
  <2>3. /\ x \in Calls /\ x.step = "pauseJob" /\ x.op = o
        /\ z \in Calls /\ z.step = "leaveGate" /\ z.op = o
    BY <2>2, CallsMade, CallsTo DEF StepNames, Ownerless
  <2>4. record[o].state \in Live /\ Resided(o)
    BY <1>1, <2>1 DEF Available, CanPause, CanResume, Live, Lasting, Controls
  <2> HIDE DEF x, z, a
  <2>5. Lists' /\ Moves(t, {x, z})
    BY <1>1, <2>1, <2>3, GoesTwo DEF Gated, Later
  <2>6. NewApart(t, {x, z}) /\ \A y \in {x, z} : Lasting(y) /\ Passing(t, y)
    BY <1>1, <2>1, <2>3, <2>4, TakesGate
  <2>7. QED
    BY <1>1, <1>2, <2>5, <2>6, ActsOnNone
<1>5. QED
  BY <1>3, <1>4

-----------------------------------------------------------------------------
(* Submission.                                                                *)

(* What a submission of o is at, no other thread is at. *)
LEMMA NoOtherSubmits ==
  ASSUME IInv, NEW o \in Ops, NEW u \in Threads, NEW x \in Ahead(u), x.op = o,
         x.step \in {"commit", "submit", "enqueue"}, Stays(Submitter(o), u, x)
  PROVE  FALSE
BY DEF IInv, Passing, Stays, Later

LEMMA NeverBoth ==
  /\ "Live" \notin Terminal /\ Nothing \notin Terminal /\ Nothing # "Live" /\ "Doubtful" \notin Terminal
  /\ "Lost" \notin Terminal /\ Nothing \notin Live /\ \A s \in Live : s \notin Terminal
  /\ {"Completed", "Cancelled", "Interrupted"} = Terminal
BY DEF Terminal, Live, Nothing

LEMMA StageAdmissionKeeps ==
  ASSUME IInv, NEW o \in Ops, StageAdmission(o)
  PROVE  IInv'
<1> DEFINE t == Submitter(o)
           x == To("commit", o)
<1>1. x \in Calls /\ x.step = "commit" /\ x.op = o /\ t \in Threads
  BY CallsTo, ThreadNames DEF StepNames, Ownerless
<1>2. /\ entry[o] = Nothing /\ residency[o] = Nothing /\ Begins(t, <<x>>)
      /\ residency' = [residency EXCEPT ![o] = "staged"]
      /\ UNCHANGED <<record, inFlight, deferred, journal, job, pool>>
  BY DEF StageAdmission
<1> HIDE DEF x
<1>3. <<x>> \in Seq(Calls) /\ Elements(<<x>>) = {x} /\ InOrder(<<x>>)
  BY <1>1, OneStep DEF Gated
<1>4. Lists' /\ Moves(t, {x})
  BY <1>1, <1>2, <1>3, StartsList DEF IInv
<1>5. Types' /\ residency'[o] = "staged"
  BY <1>2 DEF IInv, Types, journal
<1>6. \A p \in Ops : p # o => Same(p)
  BY <1>2 DEF IInv, Types, Same, journal
<1>6a. /\ record'[o] = record[o] /\ entry'[o] = entry[o] /\ observer'[o] = observer[o]
       /\ inFlight'[o] = inFlight[o] /\ deferred'[o] = deferred[o] /\ pool'[o] = pool[o]
  BY <1>2 DEF journal
<1>7. Calm(o) /\ Agrees(o)'
  <2>1. Agrees(o) /\ ~Resided(o)
    BY <1>2, NeverBoth DEF IInv, Resided, Nothing
  <2>2. ~Resided(o)' /\ residency'[o] # "retired"
    BY <1>5 DEF Resided
  <2>3. QED
    BY <1>6a, <2>1, <2>2 DEF Calm, Agrees
<1>8. ASSUME NEW u \in Threads, NEW y \in Ahead(u), y.op = o, y.step \in Volatile, Stays(t, u, y)
      PROVE  Passing(u, y)'
  <2>1. Passing(u, y) /\ y.step \notin {"commit", "submit", "enqueue"}
    BY <1>8, NoOtherSubmits DEF IInv
  <2>2. residency[o] # "live"
    BY <1>2 DEF Nothing
  <2>3. QED
    BY <1>6a, <1>8, <2>1, <2>2 DEF Passing, Touching
<1>9. Lasting(x)' /\ Passing(t, x)'
  BY <1>1, <1>2, <1>5 DEF Lasting, Passing, Controls, Touching, Resided, journal
<1>10. NewApart(t, {x})
  BY <1>1, PlainAreApart DEF Plain, Touching
<1> HIDE DEF t
<1>11. QED
  BY <1>1, <1>4, <1>5, <1>6, <1>7, <1>8, <1>9, <1>10, ActsOnOne

LEMMA CommitAdmissionKeeps ==
  ASSUME IInv, NEW t \in Threads, NEW o \in Ops, CommitAdmission(t, o)
  PROVE  IInv'
<1>1. /\ thread[t] # <<>> /\ Lists /\ Now(t).step = "commit"
      /\ t = Submitter(o) /\ entry[o] = Nothing /\ ~Resided(o)
  BY HeadFacts DEF CommitAdmission, At, IInv, Op, Passing
<1>2. /\ observer[o] = Nothing /\ pool[o] = "out" /\ deferred[o] = Nothing
      /\ record[o].state \notin Terminal
  BY <1>1, NeverBoth DEF IInv, Agrees
<1>3. ASSUME NEW u \in Threads, NEW y \in Ahead(u), y.op = o, y.step \in Volatile, Stays(t, u, y)
      PROVE  y.step = "retire" /\ Passing(u, y)
  <2>1. Passing(u, y) /\ y.step \notin {"commit", "submit", "enqueue"}
    BY <1>1, <1>3, NoOtherSubmits DEF IInv
  <2>2. QED
    BY <1>1, <1>2, <1>3, <2>1, NeverBoth DEF Passing, Volatile, Resided
<1>4. UNCHANGED <<inFlight, deferred, observer, job, pool>>
  BY DEF CommitAdmission
<1>5. CASE /\ entry' = [entry EXCEPT ![o] = "Live"]
           /\ record' = [record EXCEPT ![o] = Published("Queued")]
           /\ Does(t, <<To("submit", o)>>)
           /\ UNCHANGED residency
  <2> DEFINE x == To("submit", o)
  <2>1. x \in Calls /\ x.step = "submit" /\ x.op = o
    BY CallsTo DEF StepNames, Ownerless
  <2>2. Does(t, <<x>>)
    BY <1>5
  <2> HIDE DEF x
  <2>3. <<x>> \in Seq(Calls) /\ Elements(<<x>>) = {x} /\ InOrder(<<x>>)
    BY <2>1, OneStep DEF Gated
  <2>4. Lists' /\ Moves(t, {x})
    BY <1>1, <2>2, <2>3, Submits, ReplacesList
  <2>5. entry'[o] = "Live" /\ record'[o].state = "Queued"
    BY <1>5 DEF IInv, Types, Published
  <2>6. Types'
    <3>1. Published("Queued") \in [state : Terminal \cup Live \cup {Nothing}, revision : Nat]
      BY DEF Published, Live
    <3>2. QED
      BY <1>4, <1>5, <3>1 DEF IInv, Types
  <2>7. \A p \in Ops : p # o => Same(p)
    BY <1>4, <1>5 DEF IInv, Types, Same
  <2>8. Calm(o) /\ Agrees(o)'
    BY <1>1, <1>2, <1>4, <1>5, <2>5, NeverBoth DEF Calm, Agrees, Resided, Live, Terminal, Nothing
  <2>9. ASSUME NEW u \in Threads, NEW y \in Ahead(u), y.op = o, y.step \in Volatile, Stays(t, u, y)
        PROVE  Passing(u, y)'
    <3>1. y.step = "retire" /\ Passing(u, y)
      BY <1>3, <2>9
    <3>2. QED
      BY <1>4, <2>9, <3>1 DEF Passing, Touching
  <2>10. Lasting(x)' /\ Passing(t, x)'
    BY <1>1, <1>2, <1>4, <1>5, <2>1, <2>5 DEF Lasting, Passing, Controls, Touching, Resided, Nothing
  <2>11. NewApart(t, {x})
    BY <2>1, PlainAreApart DEF Plain, Touching
  <2>12. QED
    BY <2>4, <2>6, <2>7, <2>8, <2>9, <2>10, <2>11, ActsOnOne
<1>6. CASE /\ entry' \in {entry, [entry EXCEPT ![o] = "Doubtful"]}
           /\ residency' = [residency EXCEPT ![o] = Nothing]
           /\ Does(t, <<>>)
           /\ UNCHANGED record
  <2>1. Lists' /\ Moves(t, {})
    BY <1>1, <1>6, GoesOn
  <2>2. Types'
    BY <1>4, <1>6 DEF IInv, Types
  <2>3. \A p \in Ops : p # o => Same(p)
    BY <1>4, <1>6 DEF IInv, Types, Same
  <2>4. residency'[o] = Nothing
    BY <1>6 DEF IInv, Types
  <2>5. Calm(o) /\ Agrees(o)'
    BY <1>1, <1>2, <1>4, <1>6, <2>4, NeverBoth DEF Calm, Agrees, Resided, Nothing
  <2>6. ASSUME NEW u \in Threads, NEW y \in Ahead(u), y.op = o, y.step \in Volatile, Stays(t, u, y)
        PROVE  Passing(u, y)'
    <3>1. y.step = "retire" /\ Passing(u, y)
      BY <1>3, <2>6
    <3>2. QED
      BY <1>4, <2>6, <3>1 DEF Passing, Touching
  <2>7. NewApart(t, {})
    BY PlainAreApart
  <2>8. QED
    BY <2>1, <2>2, <2>3, <2>5, <2>6, <2>7, ActsOnOne
<1>7. QED
  BY <1>5, <1>6 DEF CommitAdmission

(* The coordinator's own look at the journal, and the end of the residency. *)
LEMMA FromJournalList ==
  ASSUME NEW o \in Ops
  PROVE  /\ FromJournal(o) \in Seq(Calls) /\ InOrder(FromJournal(o))
         /\ \A x \in Elements(FromJournal(o)) :
              /\ x \in Calls /\ x.step \in Later /\ x.op = o
              /\ x.step \in {"reduce", "retire"} /\ (x.step = "reduce" => x.arg # "observer")
<1> DEFINE x == Do("reduce", o, "journal")
           y == To("retire", o)
<1>1. "journal" \in Args
  BY DEF Args
<1>2. /\ x \in Calls /\ x.step = "reduce" /\ x.op = o /\ x.arg = "journal"
      /\ y \in Calls /\ y.step = "retire" /\ y.op = o
  BY <1>1, CallsMade, CallsTo DEF StepNames, Ownerless
<1>3. FromJournal(o) = <<x, y>>
  BY DEF FromJournal
<1> HIDE DEF x, y
<1>4. <<x, y>> \in Seq(Calls) /\ Elements(<<x, y>>) = {x, y} /\ InOrder(<<x, y>>)
  BY <1>2, TwoSteps DEF Gated, Later
<1>5. QED
  BY <1>2, <1>3, <1>4 DEF Later

LEMMA ToldCall ==
  ASSUME NEW o \in Ops
  PROVE  /\ Told(o) \in Calls /\ Told(o).step = "reduce" /\ Told(o).op = o /\ Told(o).arg = "observer"
<1>1. "observer" \in Args
  BY DEF Args
<1>2. QED
  BY <1>1, CallsMade DEF Told, StepNames, Ownerless

(* The observer's call put in front of a list. *)
LEMMA ToldFirst ==
  ASSUME NEW o \in Ops, NEW l \in Seq(Calls), InOrder(l), \A x \in Elements(l) : x.step \in Later
  PROVE  /\ <<Told(o)>> \o l \in Seq(Calls) /\ InOrder(<<Told(o)>> \o l)
         /\ \A x \in Elements(<<Told(o)>> \o l) : x = Told(o) \/ x \in Elements(l)
<1> DEFINE c == Told(o)
<1>1. c \in Calls /\ c.step = "reduce"
  BY ToldCall
<1> HIDE DEF c
<1>2. <<c>> \in Seq(Calls) /\ Elements(<<c>>) = {c} /\ MayPrecede(<<c>>, l)
  BY <1>1, OneStep DEF Gated
<1>3. /\ <<c>> \o l \in Seq(Calls) /\ InOrder(<<c>> \o l)
      /\ \A x \in Elements(<<c>> \o l) : x = c \/ x \in Elements(l)
  BY <1>2, JoinedLists
<1>4. QED
  BY <1>3 DEF c

LEMMA SubmitUnreservedKeeps ==
  ASSUME IInv, NEW t \in Threads, NEW o \in Ops, SubmitUnreserved(t, o)
  PROVE  IInv'
<1>1. /\ thread[t] # <<>> /\ Lists /\ Now(t).step = "submit"
      /\ t = Submitter(o) /\ entry[o] = "Live" /\ ~Resided(o) /\ pool[o] = "out"
  BY HeadFacts DEF SubmitUnreserved, At, IInv, Op, Passing
<1>2. /\ entry' \in {entry, [entry EXCEPT ![o] = "Cancelled"]}
      /\ residency' = [residency EXCEPT ![o] = Nothing]
      /\ Does(t, FromJournal(o))
      /\ UNCHANGED <<record, inFlight, deferred, observer, job, pool>>
  BY DEF SubmitUnreserved
<1> DEFINE new == Elements(FromJournal(o))
<1>3. Lists' /\ Moves(t, new)
  BY <1>1, <1>2, FromJournalList, Submits, ReplacesList
<1>4. Types'
  BY <1>2 DEF IInv, Types, Terminal
<1>5. \A p \in Ops : p # o => Same(p)
  BY <1>2 DEF IInv, Types, Same
<1>6. residency'[o] = Nothing /\ entry'[o] \in {"Live", "Cancelled"}
  BY <1>1, <1>2 DEF IInv, Types
<1>7. ~Resided(o)' /\ residency'[o] # "retired"
  BY <1>6 DEF Resided, Nothing
<1>8. Calm(o) /\ Agrees(o)'
  <2>1. Agrees(o)
    BY DEF IInv
  <2>2. record[o].state \notin Terminal /\ deferred[o] = Nothing /\ observer[o] # "told"
    BY <1>1, <2>1, NeverBoth DEF Agrees
  <2>3. Calm(o)
    BY <1>1, <1>2, NeverBoth DEF Calm
  <2>4. Agrees(o)'
    BY <1>1, <1>2, <1>6, <1>7, <2>1, <2>2 DEF Agrees, Terminal
  <2>5. QED
    BY <2>3, <2>4
<1>9. ASSUME NEW u \in Threads, NEW y \in Ahead(u), y.op = o, y.step \in Volatile, Stays(t, u, y)
      PROVE  Passing(u, y)' /\ y.step \notin Touching
  <2>1. Passing(u, y) /\ y.step \notin {"commit", "submit", "enqueue"}
    BY <1>1, <1>9, NoOtherSubmits DEF IInv
  <2>2. y.step = "retire"
    BY <1>1, <1>9, <2>1 DEF Passing, Volatile, Resided
  <2>3. QED
    BY <1>2, <1>9, <2>1, <2>2 DEF Passing, Touching
<1>10. \A x \in new : x.step \in {"reduce", "retire"} /\ x.op = o /\ (x.step = "reduce" => x.arg # "observer")
  BY FromJournalList
<1> HIDE DEF new
<1>11. \A x \in new : Lasting(x)' /\ Passing(t, x)'
  BY <1>1, <1>2, <1>10 DEF Lasting, Passing, Controls, Touching
<1>12. NewApart(t, new)
  <2>1. ASSUME NEW x \in new, NEW u \in Threads, NEW y \in Ahead(u), Stays(t, u, y)
        PROVE  Apart(t, x, u, y) /\ Apart(u, y, t, x)
    BY <1>9, <1>10, <2>1 DEF Apart, Touching, Volatile
  <2>2. QED
    BY <1>10, <2>1 DEF NewApart, Touching
<1>13. QED
  BY <1>3, <1>4, <1>5, <1>8, <1>9, <1>11, <1>12, ActsOnOne

LEMMA RegisterLiveResidencyKeeps ==
  ASSUME IInv, NEW t \in Threads, NEW o \in Ops, RegisterLiveResidency(t, o)
  PROVE  IInv'
<1>1. /\ thread[t] # <<>> /\ Lists /\ Now(t).step = "submit"
      /\ t = Submitter(o) /\ entry[o] = "Live" /\ ~Resided(o) /\ pool[o] = "out"
      /\ record[o].state # Nothing
  BY HeadFacts DEF RegisterLiveResidency, At, IInv, Op, Passing
<1> DEFINE x == To("enqueue", o)
           z == To("leaveGate", o)
<1>2. /\ residency' = [residency EXCEPT ![o] = "live"]
      /\ observer' = [observer EXCEPT ![o] = "waiting"]
      /\ Does(t, <<x, z>>)
      /\ UNCHANGED <<record, inFlight, deferred, entry, job, pool>>
  BY DEF RegisterLiveResidency
<1>3. /\ x \in Calls /\ x.step = "enqueue" /\ x.op = o
      /\ z \in Calls /\ z.step = "leaveGate" /\ z.op = o
  BY CallsTo DEF StepNames, Ownerless
<1> HIDE DEF x, z
<1>4. <<x, z>> \in Seq(Calls) /\ Elements(<<x, z>>) = {x, z} /\ InOrder(<<x, z>>)
  BY <1>3, TwoSteps DEF Gated, Later
<1>5. Lists' /\ Moves(t, {x, z})
  BY <1>1, <1>2, <1>4, Submits, ReplacesList
<1>6. Types'
  BY <1>2 DEF IInv, Types
<1>7. \A p \in Ops : p # o => Same(p)
  BY <1>2 DEF IInv, Types, Same
<1>8. residency'[o] = "live" /\ observer'[o] = "waiting" /\ Resided(o)'
  BY <1>2 DEF IInv, Types, Resided
<1>9. Calm(o) /\ Agrees(o)'
  <2>1. Agrees(o)
    BY DEF IInv
  <2>2. Nothing # "waiting"
    BY DEF Nothing
  <2>3. Calm(o)
    BY <1>2, <1>8, <2>2 DEF Calm
  <2>4. Agrees(o)'
    BY <1>1, <1>2, <1>8, <2>1, <2>2 DEF Agrees
  <2>5. QED
    BY <2>3, <2>4
<1>10. ASSUME NEW u \in Threads, NEW y \in Ahead(u), y.op = o, y.step \in Volatile, Stays(t, u, y)
       PROVE  Passing(u, y)'
  <2>1. Passing(u, y) /\ y.step \notin {"commit", "submit", "enqueue"}
    BY <1>1, <1>10, NoOtherSubmits DEF IInv
  <2>2. y.step = "retire"
    BY <1>1, <1>10, <2>1 DEF Passing, Volatile, Resided
  <2>3. QED
    BY <1>2, <1>10, <2>1, <2>2 DEF Passing, Touching
<1>11. \A c \in {x, z} : Lasting(c)' /\ Passing(t, c)'
  <2>1. Lasting(x)' /\ Passing(t, x)'
    BY <1>1, <1>2, <1>3, <1>8 DEF Lasting, Passing, Controls, Touching
  <2>2. Lasting(z)' /\ Passing(t, z)'
    BY <1>3, <1>8 DEF Lasting, Passing, Controls, Touching
  <2>3. QED
    BY <2>1, <2>2
<1>12. NewApart(t, {x, z})
  <2>1. ASSUME NEW u \in Threads, NEW y \in Ahead(u)
        PROVE  /\ Apart(t, x, u, y) /\ Apart(u, y, t, x)
               /\ Apart(t, z, u, y) /\ Apart(u, y, t, z)
    <3>1. Apart(t, x, u, y) /\ Apart(u, y, t, x)
      BY <1>3, PlainIsApart DEF Plain, Touching
    <3>2. y.op = o => y.step # "leaveGate"
      BY <1>1 DEF IInv, Lasting
    <3>3. QED
      BY <1>3, <3>1, <3>2 DEF Apart, Touching
  <2>2. QED
    BY <1>3, <2>1 DEF NewApart, Touching
<1>13. QED
  BY <1>5, <1>6, <1>7, <1>9, <1>10, <1>11, <1>12, ActsOnOne

(* The enqueuing thread has nothing else to do but to give the gate back. *)
LEMMA EnqueueList ==
  ASSUME Lists, NEW t \in Threads, thread[t] # <<>>, Now(t).step = "enqueue"
  PROVE  /\ \A x \in Ahead(t) : x.step \in {"enqueue", "leaveGate"}
         /\ \E y \in Ahead(t) : y.step = "leaveGate" /\ y.op = Op(t)
<1>1. thread[t] \in Seq(Calls) /\ InOrder(thread[t])
  BY DEF Lists
<1>2. 1 \in DOMAIN thread[t] /\ thread[t][1] = Now(t)
  BY <1>1 DEF Now
<1>3. Len(thread[t]) = 2 /\ GivesBack(thread[t], 1)
  BY <1>1, <1>2 DEF InOrder, Gated
<1>4. DOMAIN thread[t] = {1, 2} /\ thread[t][2].step = "leaveGate" /\ thread[t][2].op = Op(t)
  BY <1>1, <1>2, <1>3 DEF GivesBack, Op
<1>5. QED
  BY <1>2, <1>4 DEF Ahead, Elements

LEMMA EnqueueAcceptedKeeps ==
  ASSUME IInv, NEW t \in Threads, NEW o \in Ops, EnqueueAccepted(t, o)
  PROVE  IInv'
<1>1. /\ thread[t] # <<>> /\ Lists /\ Now(t).step = "enqueue"
      /\ t = Submitter(o) /\ entry[o] = "Live" /\ residency[o] = "live" /\ pool[o] = "out"
  BY HeadFacts DEF EnqueueAccepted, At, IInv, Op, Passing
<1> DEFINE x == To("startPending", o)
<1>2. /\ pool' = [pool EXCEPT ![o] = "queued"] /\ Does(t, <<x>>)
      /\ UNCHANGED <<center, journal, job>>
  BY DEF EnqueueAccepted
<1>3. x \in Calls /\ x.step = "startPending"
  BY CallsTo
<1> HIDE DEF x
<1>4. Lists' /\ Moves(t, {x})
  BY <1>1, <1>2, <1>3, GoesOne DEF Gated
<1>5. Types'
  BY <1>2 DEF IInv, Types, center, journal
<1>6. \A p \in Ops : p # o => Same(p)
  BY <1>2 DEF IInv, Types, Same, center, journal
<1>7. /\ pool'[o] = "queued" /\ record'[o] = record[o] /\ entry'[o] = entry[o] /\ observer'[o] = observer[o]
      /\ residency'[o] = residency[o] /\ inFlight'[o] = inFlight[o] /\ deferred'[o] = deferred[o]
  BY <1>2 DEF IInv, Types, center, journal
<1>8. Calm(o) /\ Agrees(o)'
  <2>1. Agrees(o)
    BY DEF IInv
  <2>2. QED
    BY <1>1, <1>7, <2>1 DEF Calm, Agrees, Resided
<1>9. ASSUME NEW u \in Threads, NEW y \in Ahead(u), y.op = o, y.step \in Volatile, Stays(t, u, y)
      PROVE  Passing(u, y)'
  <2>1. Passing(u, y) /\ y.step \notin {"commit", "submit", "enqueue"}
    BY <1>1, <1>9, NoOtherSubmits DEF IInv
  <2>2. y.step # "retire"
    BY <1>1, <1>9, <2>1, EnqueueList DEF Passing
  <2>3. y.step # "finalize"
    BY <1>1, <1>9, <2>1 DEF Passing
  <2>4. QED
    BY <1>7, <1>9, <2>1, <2>2, <2>3 DEF Passing, Touching
<1>10. Lasting(x)' /\ Passing(t, x)' /\ Plain(x)
  BY <1>3, SilentSteps DEF Silent
<1>11. NewApart(t, {x})
  BY <1>10, PlainAreApart
<1>12. QED
  BY <1>4, <1>5, <1>6, <1>8, <1>9, <1>10, <1>11, ActsOnOne

LEMMA RetireLiveResidencyKeeps ==
  ASSUME IInv, NEW t \in Threads, NEW o \in Ops, RetireLiveResidency(t, o)
  PROVE  IInv'
<1>1. /\ thread[t] # <<>> /\ Lists /\ Now(t).step = "retire" /\ Now(t).op = o /\ Now(t) \in Ahead(t)
      /\ t = Submitter(o) /\ pool[o] = "out"
  BY HeadFacts DEF RetireLiveResidency, At, IInv, Op, Passing
<1>2. /\ residency' = [residency EXCEPT ![o] = IF @ = "live" THEN "retired" ELSE @]
      /\ Does(t, <<>>)
      /\ UNCHANGED <<record, inFlight, deferred, journal, job, pool>>
  BY DEF RetireLiveResidency
<1>3. Lists' /\ Moves(t, {})
  BY <1>1, <1>2, GoesOn
<1>4. Types'
  BY <1>2 DEF IInv, Types, journal
<1>5. \A p \in Ops : p # o => Same(p)
  BY <1>2 DEF IInv, Types, Same, journal
<1>6. /\ pool'[o] = pool[o] /\ record'[o] = record[o] /\ entry'[o] = entry[o] /\ observer'[o] = observer[o]
      /\ residency'[o] = (IF residency[o] = "live" THEN "retired" ELSE residency[o])
      /\ inFlight'[o] = inFlight[o] /\ deferred'[o] = deferred[o]
  BY <1>2 DEF IInv, Types, journal
<1>7. Calm(o) /\ Agrees(o)'
  <2>1. Agrees(o)
    BY DEF IInv
  <2>2. QED
    BY <1>1, <1>6, <2>1 DEF Calm, Agrees, Resided
<1>8. ASSUME NEW u \in Threads, NEW y \in Ahead(u), y.op = o, y.step \in Volatile, Stays(t, u, y)
      PROVE  Passing(u, y)'
  <2>1. Passing(u, y) /\ y.step \notin {"commit", "submit", "enqueue"}
    BY <1>1, <1>8, NoOtherSubmits DEF IInv
  <2>2. y.step \notin Touching
    <3>1. Apart(u, y, t, Now(t))
      BY <1>1 DEF IInv
    <3>2. QED
      BY <1>1, <1>8, <3>1 DEF Apart
  <2>3. QED
    BY <1>6, <1>8, <2>1, <2>2 DEF Passing
<1>9. NewApart(t, {})
  BY PlainAreApart
<1>10. QED
  BY <1>3, <1>4, <1>5, <1>7, <1>8, <1>9, ActsOnOne

(* Recorded and told, or left in the slot. *)
LEMMA Rejected ==
  ASSUME IInv, NEW t \in Threads, NEW o \in Ops, NEW rest, Rejects(t, o, rest),
         UNCHANGED <<center, job, pool>>,
         t = Submitter(o), entry[o] = "Live", pool[o] = "out", record[o].state # Nothing,
         rest \in Seq(Calls), InOrder(rest), \A x \in Elements(rest) : x.step \in Later,
         NewApart(t, Elements(rest)), \A x \in Elements(rest) : x.step \notin Touching,
         \A x \in Elements(rest) : Passing(t, x)' /\ Lasting(x)'
  PROVE  IInv'
<1>1. observer' = [observer EXCEPT ![o] = "waiting"] /\ UNCHANGED <<record, residency, inFlight, deferred, job, pool>>
  BY DEF Rejects, center
<1>2. \/ /\ entry' = [entry EXCEPT ![o] = "Cancelled"]
         /\ thread' = [thread EXCEPT ![t] = <<Told(o)>> \o rest]
      \/ thread' = [thread EXCEPT ![t] = rest] /\ entry' = entry
  BY DEF Rejects
<1> DEFINE new == IF entry'[o] = "Cancelled" THEN {Told(o)} \cup Elements(rest) ELSE Elements(rest)
<1>3. /\ Told(o) \in Calls /\ Told(o).step = "reduce" /\ Told(o).op = o /\ Told(o).arg = "observer"
  BY ToldCall
<1>4. observer'[o] = "waiting" /\ entry'[o] \in {"Live", "Cancelled"}
  BY <1>1, <1>2 DEF IInv, Types
<1>5. Lists' /\ Moves(t, new)
  <2>1. CASE /\ entry' = [entry EXCEPT ![o] = "Cancelled"]
             /\ thread' = [thread EXCEPT ![t] = <<Told(o)>> \o rest]
    <3> DEFINE l == <<Told(o)>> \o rest
    <3>1. l \in Seq(Calls) /\ InOrder(l) /\ \A x \in Elements(l) : x = Told(o) \/ x \in Elements(rest)
      BY ToldFirst
    <3>2. entry'[o] = "Cancelled"
      BY <2>1 DEF IInv, Types
    <3>3. thread' = [thread EXCEPT ![t] = l]
      BY <2>1
    <3>4. \A x \in Elements(l) : x \in new
      BY <3>1, <3>2
    <3> HIDE DEF l, new
    <3>5. QED
      BY <3>1, <3>3, <3>4, ReplacesList DEF IInv
  <2>2. CASE thread' = [thread EXCEPT ![t] = rest] /\ entry' = entry
    <3>1. \A x \in Elements(rest) : x \in new
      OBVIOUS
    <3> HIDE DEF new
    <3>2. QED
      BY <2>2, <3>1, ReplacesList DEF IInv
  <2>3. QED
    BY <1>2, <2>1, <2>2
<1>6. Types'
  BY <1>1, <1>2 DEF IInv, Types, Terminal
<1>7. \A p \in Ops : p # o => Same(p)
  BY <1>1, <1>2 DEF IInv, Types, Same
<1>8. Calm(o) /\ Agrees(o)'
  <2>1. Agrees(o) /\ Nothing # "waiting"
    BY DEF IInv, Nothing
  <2>2. record[o].state \notin Terminal
    BY <2>1, NeverBoth DEF Agrees
  <2>2a. deferred[o] \in Terminal \cup {Nothing}
    BY DEF IInv, Types
  <2>2b. deferred[o] = Nothing
    BY <2>1, <2>2a, NeverBoth DEF Agrees
  <2>3. Calm(o)
    BY <1>1, <1>4, <2>1, NeverBoth DEF Calm, Resided
  <2>4. Agrees(o)'
    BY <1>1, <1>4, <2>1, <2>2, <2>2b DEF Agrees, Terminal, Resided
  <2>5. QED
    BY <2>3, <2>4
<1>9. ASSUME NEW u \in Threads, NEW y \in Ahead(u), y.op = o, y.step \in Volatile, Stays(t, u, y)
      PROVE  Passing(u, y)'
  <2>1. Passing(u, y) /\ y.step \notin {"commit", "submit", "enqueue", "finalize"}
    BY <1>9, NoOtherSubmits DEF IInv, Passing
  <2>2. QED
    BY <1>1, <1>9, <2>1 DEF Passing
<1>10. entry'[o] = "Cancelled" => Lasting(Told(o))' /\ Passing(t, Told(o))'
  BY <1>3, <1>4 DEF Lasting, Passing, Controls, Touching, Terminal, Nothing
<1>11. NewApart(t, new)
  <2>1. ASSUME NEW x \in new, NEW u \in Threads, NEW y \in Ahead(u), Stays(t, u, y)
        PROVE  Apart(t, x, u, y) /\ Apart(u, y, t, x)
    <3>1. CASE x \in Elements(rest)
      BY <2>1, <3>1 DEF NewApart
    <3>2. CASE x = Told(o)
      BY <1>3, <3>2, PlainIsApart DEF Plain, Touching
    <3>3. QED
      BY <3>1, <3>2
  <2>2. \A x \in new : x.step \notin Touching
    BY <1>3 DEF Touching
  <2>3. QED
    BY <2>1, <2>2 DEF NewApart
<1>12. \A x \in new : Lasting(x)' /\ Passing(t, x)'
  BY <1>10
<1> HIDE DEF new
<1>13. QED
  BY <1>5, <1>6, <1>7, <1>8, <1>9, <1>11, <1>12, ActsOnOne

LEMMA SubmitCancelledKeeps ==
  ASSUME IInv, NEW t \in Threads, NEW o \in Ops, SubmitCancelled(t, o)
  PROVE  IInv'
<1>1. /\ thread[t] # <<>> /\ Lists /\ Now(t).step = "submit"
      /\ t = Submitter(o) /\ entry[o] = "Live" /\ ~Resided(o) /\ pool[o] = "out"
      /\ record[o].state # Nothing
  BY HeadFacts DEF SubmitCancelled, At, IInv, Op, Passing
<1> DEFINE rest == FromJournal(o)
<1>2. Rejects(t, o, rest) /\ UNCHANGED <<center, job, pool>>
  BY DEF SubmitCancelled
<1>3. /\ rest \in Seq(Calls) /\ InOrder(rest)
      /\ \A x \in Elements(rest) :
           /\ x \in Calls /\ x.step \in Later /\ x.op = o
           /\ x.step \in {"reduce", "retire"} /\ (x.step = "reduce" => x.arg # "observer")
  BY FromJournalList
<1> HIDE DEF rest
<1>4. \A x \in Elements(rest) : x.step \notin Touching
  BY <1>3 DEF Touching
<1>5. \A x \in Elements(rest) : Passing(t, x)' /\ Lasting(x)'
  BY <1>1, <1>2, <1>3 DEF Lasting, Passing, Controls, Touching
<1>6. NewApart(t, Elements(rest))
  <2>1. ASSUME NEW x \in Elements(rest), NEW u \in Threads, NEW y \in Ahead(u)
        PROVE  Apart(t, x, u, y) /\ Apart(u, y, t, x)
    <3>1. y.op = o => y.step \notin Touching
      BY <1>1 DEF IInv, Passing, Resided
    <3>2. QED
      BY <1>3, <3>1 DEF Apart, Touching
  <2>2. QED
    BY <1>4, <2>1 DEF NewApart
<1>7. QED
  BY <1>1, <1>2, <1>3, <1>4, <1>5, <1>6, Rejected

LEMMA EnqueueRejectedKeeps ==
  ASSUME IInv, NEW t \in Threads, NEW o \in Ops, EnqueueRejected(t, o)
  PROVE  IInv'
<1>1. /\ thread[t] # <<>> /\ Lists /\ Now(t).step = "enqueue" /\ Op(t) = o
      /\ t = Submitter(o) /\ entry[o] = "Live" /\ residency[o] = "live" /\ pool[o] = "out"
  BY HeadFacts DEF EnqueueRejected, At, IInv, Op, Passing
<1>2. Resided(o) /\ record[o].state # Nothing
  BY <1>1 DEF IInv, Agrees, Resided
<1> DEFINE z    == To("leaveGate", o)
           rest == <<z>> \o FromJournal(o)
<1>3. Rejects(t, o, rest) /\ UNCHANGED <<center, job, pool>>
  BY DEF EnqueueRejected
<1>4. z \in Calls /\ z.step = "leaveGate" /\ z.op = o
  BY CallsTo DEF StepNames, Ownerless
<1>5. /\ FromJournal(o) \in Seq(Calls) /\ InOrder(FromJournal(o))
      /\ \A x \in Elements(FromJournal(o)) :
           /\ x \in Calls /\ x.step \in Later /\ x.op = o
           /\ x.step \in {"reduce", "retire"} /\ (x.step = "reduce" => x.arg # "observer")
  BY FromJournalList
<1> HIDE DEF z
<1>6. /\ <<z>> \in Seq(Calls) /\ Elements(<<z>>) = {z} /\ MayPrecede(<<z>>, FromJournal(o))
  BY <1>4, OneStep DEF Gated
<1>7. /\ rest \in Seq(Calls) /\ InOrder(rest)
      /\ \A x \in Elements(rest) :
           /\ x.op = o /\ x.step \in {"leaveGate", "reduce", "retire"}
           /\ (x.step = "reduce" => x.arg # "observer")
  BY <1>4, <1>5, <1>6, JoinedLists
<1> HIDE DEF rest
<1>8. \A x \in Elements(rest) : x.step \notin Touching /\ x.step \in Later
  BY <1>7 DEF Touching, Later
<1>9. \A x \in Elements(rest) : Passing(t, x)' /\ Lasting(x)'
  <2>1. pool'[o] = "out" /\ Resided(o)'
    BY <1>1, <1>2, <1>3 DEF center, Resided
  <2>2. QED
    BY <1>1, <1>7, <2>1 DEF Lasting, Passing, Controls, Touching
<1>10. PICK g \in Ahead(t) : g.step = "leaveGate" /\ g.op = o
  BY <1>1, EnqueueList
<1>11. NewApart(t, Elements(rest))
  <2>1. ASSUME NEW x \in Elements(rest), NEW u \in Threads, NEW y \in Ahead(u), Stays(t, u, y)
        PROVE  Apart(t, x, u, y) /\ Apart(u, y, t, x)
    <3>1. t # u /\ y.op = o => y.step # "leaveGate"
      <4>1. Apart(t, g, u, y)
        BY DEF IInv
      <4>2. QED
        BY <1>10, <4>1 DEF Apart
    <3>2. y.op = o => y.step \notin Touching
      <4> SUFFICES ASSUME y.op = o, y.step \in Touching PROVE FALSE
        OBVIOUS
      <4>1. u # t
        BY <2>1 DEF Stays, Later, Touching
      <4>2. PICK h \in Ahead(u) : h.step = "leaveGate" /\ h.op = o
        BY IsGivenBack DEF IInv, Touching, Gated
      <4>3. Apart(t, g, u, h)
        BY DEF IInv
      <4>4. QED
        BY <1>10, <4>1, <4>2, <4>3 DEF Apart
    <3>3. QED
      BY <1>7, <3>1, <3>2 DEF Apart, Touching
  <2>2. QED
    BY <1>8, <2>1 DEF NewApart
<1>12. QED
  BY <1>1, <1>2, <1>3, <1>7, <1>8, <1>9, <1>11, Rejected

-----------------------------------------------------------------------------
(* The pool and the job.                                                      *)

(* The record goes from one live state to another, or stays. *)
LEMMA RecordStaysLive ==
  ASSUME IInv, NEW t \in Threads, NEW o \in Ops, thread[t] # <<>>, Does(t, <<>>),
         NEW r \in [state : Terminal \cup Live \cup {Nothing}, revision : Nat],
         record' = [record EXCEPT ![o] = r],
         r.state = record[o].state \/ (r.state \in Live /\ record[o].state \in Live),
         UNCHANGED <<residency, inFlight, deferred, journal, job, pool>>
  PROVE  IInv'
<1>1. Lists' /\ Moves(t, {})
  BY GoesOn DEF IInv
<1>2. Types'
  BY DEF IInv, Types, journal
<1>3. \A p \in Ops : p # o => Same(p)
  BY DEF IInv, Types, Same, journal
<1>4. /\ record'[o] = r /\ pool'[o] = pool[o] /\ entry'[o] = entry[o] /\ observer'[o] = observer[o]
      /\ residency'[o] = residency[o] /\ inFlight'[o] = inFlight[o] /\ deferred'[o] = deferred[o]
  BY DEF IInv, Types, journal
<1>5. /\ record'[o].state \in Terminal => record'[o].state = record[o].state
      /\ record[o].state \in Terminal => record'[o].state = record[o].state
      /\ record[o].state \in Live => record'[o].state \in Live
      /\ record[o].state # Nothing => record'[o].state # Nothing
  BY <1>4, NeverBoth
<1>6. Calm(o) /\ Agrees(o)'
  <2>1. Agrees(o)
    BY DEF IInv
  <2>2. QED
    BY <1>4, <1>5, <2>1 DEF Calm, Agrees, Resided
<1>7. ASSUME NEW u \in Threads, NEW y \in Ahead(u), y.op = o, y.step \in Volatile, Stays(t, u, y)
      PROVE  Passing(u, y)'
  <2>1. Passing(u, y)
    BY DEF IInv
  <2>2. QED
    BY <1>4, <1>5, <1>7, <2>1 DEF Passing, Resided
<1>8. NewApart(t, {})
  BY PlainAreApart
<1>9. QED
  BY <1>1, <1>2, <1>3, <1>6, <1>7, <1>8, ActsOnOne

LEMMA MovedRecord ==
  ASSUME NEW r \in [state : Terminal \cup Live \cup {Nothing}, revision : Nat],
         NEW s \in Terminal \cup Live
  PROVE  /\ Moved(r, s) \in [state : Terminal \cup Live \cup {Nothing}, revision : Nat]
         /\ Moved(r, s).state = s
BY DEF Moved

LEMMA ReduceStartedKeeps ==
  ASSUME IInv, NEW t \in Threads, NEW o \in Ops, ReduceStarted(t, o)
  PROVE  IInv'
<1> DEFINE r == IF record[o].state = "Queued" THEN Moved(record[o], "Running") ELSE record[o]
<1>1. /\ thread[t] # <<>> /\ Does(t, <<>>) /\ record' = [record EXCEPT ![o] = r]
      /\ UNCHANGED <<residency, inFlight, deferred, journal, job, pool>>
  BY DEF ReduceStarted, At
<1>2. record[o] \in [state : Terminal \cup Live \cup {Nothing}, revision : Nat]
  BY DEF IInv, Types
<1>3. "Running" \in Live /\ "Queued" \in Live
  BY DEF Live
<1>4. /\ r \in [state : Terminal \cup Live \cup {Nothing}, revision : Nat]
      /\ r.state = record[o].state \/ (r.state \in Live /\ record[o].state \in Live)
  BY <1>2, <1>3, MovedRecord
<1> HIDE DEF r
<1>5. QED
  BY <1>1, <1>4, RecordStaysLive

(* The pool takes the operation to finalize it, or it was taken already. *)
LEMMA FinishKeeps ==
  ASSUME IInv, NEW t \in Threads, NEW o \in Ops, Finish(t, o)
  PROVE  IInv'
<1>1. thread[t] # <<>> /\ Lists /\ UNCHANGED <<center, journal, job>>
  BY DEF Finish, At, IInv
<1>2. CASE Does(t, <<>>) /\ UNCHANGED pool
  <2>1. Lists' /\ Moves(t, {})
    BY <1>1, <1>2, GoesOn
  <2>2. Types'
    BY <1>1, <1>2 DEF IInv, Types, center, journal
  <2>3. QED
    BY <1>1, <1>2, <2>1, <2>2, ActsSilently
<1>3. CASE /\ pool[o] \in {"queued", "listed"}
           /\ pool' = [pool EXCEPT ![o] = "finalizing"]
           /\ Does(t, <<To("finalize", o)>>)
  <2> DEFINE x == To("finalize", o)
  <2>1. x \in Calls /\ x.step = "finalize" /\ x.op = o /\ Does(t, <<x>>)
    BY <1>3, CallsTo DEF StepNames, Ownerless
  <2> HIDE DEF x
  <2>2. Lists' /\ Moves(t, {x})
    BY <1>1, <2>1, GoesOne DEF Gated
  <2>3. Types'
    BY <1>1, <1>3 DEF IInv, Types, center, journal
  <2>4. \A p \in Ops : p # o => Same(p)
    BY <1>1, <1>3 DEF IInv, Types, Same, center, journal
  <2>5. /\ pool'[o] = "finalizing" /\ record'[o] = record[o] /\ entry'[o] = entry[o] /\ observer'[o] = observer[o]
        /\ residency'[o] = residency[o] /\ inFlight'[o] = inFlight[o] /\ deferred'[o] = deferred[o]
    BY <1>1, <1>3 DEF IInv, Types, center, journal
  <2>6. Calm(o) /\ Agrees(o)' /\ entry[o] = "Live"
    <3>1. Agrees(o)
      BY DEF IInv
    <3>2. QED
      BY <1>3, <2>5, <3>1 DEF Calm, Agrees, Resided
  <2>7. ASSUME NEW u \in Threads, NEW y \in Ahead(u), y.op = o
        PROVE  Passing(u, y) /\ y.step \notin {"submit", "enqueue", "retire", "finalize"}
    BY <1>3, <2>7 DEF IInv, Passing
  <2>8. ASSUME NEW u \in Threads, NEW y \in Ahead(u), y.op = o, y.step \in Volatile, Stays(t, u, y)
        PROVE  Passing(u, y)'
    <3>1. Passing(u, y) /\ y.step \notin {"submit", "enqueue", "retire", "finalize"}
      BY <2>7, <2>8
    <3>2. QED
      BY <2>5, <2>8, <3>1 DEF Passing, Resided
  <2>9. Lasting(x)' /\ Passing(t, x)'
    BY <2>1, <2>5, <2>6 DEF Lasting, Passing, Controls, Touching
  <2>10. NewApart(t, {x})
    BY <2>1, <2>7 DEF NewApart, Apart, Touching
  <2>11. QED
    BY <2>2, <2>3, <2>4, <2>6, <2>8, <2>9, <2>10, ActsOnOne
<1>4. QED
  BY <1>2, <1>3 DEF Finish

(* The journal records the outcome, and the observer will be told; or it does *)
(* not record it, and the pool keeps the operation.                           *)
LEMMA FinalizeKeeps ==
  ASSUME IInv, NEW t \in Threads, NEW o \in Ops, Finalize(t, o)
  PROVE  IInv'
<1>1. /\ thread[t] # <<>> /\ Lists /\ Now(t).step = "finalize" /\ Now(t).op = o /\ Now(t) \in Ahead(t)
      /\ entry[o] = "Live" /\ pool[o] = "finalizing"
      /\ UNCHANGED <<center, observer, job>>
  BY HeadFacts DEF Finalize, At, IInv, Op, Passing
<1>2. /\ observer[o] # Nothing /\ record[o].state \notin Terminal
      /\ deferred[o] = Nothing
  <2>1. Agrees(o) /\ deferred[o] \in Terminal \cup {Nothing}
    BY DEF IInv, Types
  <2>2. QED
    BY <1>1, <2>1, NeverBoth DEF Agrees
<1>3. ASSUME NEW u \in Threads, NEW y \in Ahead(u), y.op = o, Stays(t, u, y)
      PROVE  Passing(u, y) /\ y.step \notin {"commit", "submit", "enqueue", "retire", "finalize"}
  <2>1. Passing(u, y) /\ Apart(t, Now(t), u, y)
    BY <1>1 DEF IInv
  <2>2. u = t => y.step # "finalize"
    BY <1>3 DEF Stays, Later
  <2>3. QED
    BY <1>1, <1>3, <2>1, <2>2, NeverBoth DEF Passing, Apart
<1>4. CASE /\ entry' = [entry EXCEPT ![o] = Outcome(o)]
           /\ Does(t, <<Told(o), To("release", o)>>)
           /\ UNCHANGED pool
  <2> DEFINE x == Told(o)
             y == To("release", o)
  <2>1. /\ x \in Calls /\ x.step = "reduce" /\ x.op = o /\ x.arg = "observer"
        /\ y \in Calls /\ y.step = "release" /\ y.op = o /\ Does(t, <<x, y>>)
    BY <1>4, ToldCall, CallsTo DEF StepNames, Ownerless
  <2> HIDE DEF x, y
  <2>2. Lists' /\ Moves(t, {x, y})
    BY <1>1, <2>1, GoesTwo DEF Gated, Later
  <2>3. Outcome(o) \in Terminal
    BY DEF Outcome, Terminal
  <2>4. Types'
    BY <1>1, <1>4, <2>3 DEF IInv, Types, center
  <2>5. \A p \in Ops : p # o => Same(p)
    BY <1>1, <1>4 DEF IInv, Types, Same, center
  <2>6. /\ entry'[o] = Outcome(o) /\ pool'[o] = pool[o] /\ record'[o] = record[o] /\ observer'[o] = observer[o]
        /\ residency'[o] = residency[o] /\ inFlight'[o] = inFlight[o] /\ deferred'[o] = deferred[o]
    BY <1>1, <1>4 DEF IInv, Types, center
  <2>7. Calm(o) /\ Agrees(o)'
    <3>1. Agrees(o) /\ entry[o] \notin Terminal
      BY <1>1, NeverBoth DEF IInv
    <3>2. QED
      BY <1>1, <1>2, <2>3, <2>6, <3>1 DEF Calm, Agrees, Resided
  <2>8. ASSUME NEW u \in Threads, NEW z \in Ahead(u), z.op = o, z.step \in Volatile, Stays(t, u, z)
        PROVE  Passing(u, z)'
    <3>1. Passing(u, z) /\ z.step \notin {"commit", "submit", "enqueue", "retire", "finalize"}
      BY <1>3, <2>8
    <3>2. QED
      BY <2>6, <2>8, <3>1 DEF Passing
  <2>9. \A z \in {x, y} : Lasting(z)' /\ Passing(t, z)' /\ Plain(z)
    <3>1. entry'[o] \in Terminal /\ observer'[o] # Nothing
      BY <1>2, <2>3, <2>6
    <3>2. QED
      BY <2>1, <3>1 DEF Lasting, Passing, Plain, Controls, Touching
  <2>10. NewApart(t, {x, y})
    BY <2>9, PlainAreApart
  <2>11. QED
    BY <2>2, <2>4, <2>5, <2>7, <2>8, <2>9, <2>10, ActsOnOne
<1>5. CASE /\ pool' = [pool EXCEPT ![o] = "retained"]
           /\ Does(t, <<To("startPending", o)>>)
           /\ UNCHANGED entry
  <2> DEFINE x == To("startPending", o)
  <2>1. x \in Calls /\ x.step = "startPending" /\ Does(t, <<x>>)
    BY <1>5, CallsTo
  <2> HIDE DEF x
  <2>2. Lists' /\ Moves(t, {x})
    BY <1>1, <2>1, GoesOne DEF Gated
  <2>3. Types'
    BY <1>1, <1>5 DEF IInv, Types, center
  <2>4. \A p \in Ops : p # o => Same(p)
    BY <1>1, <1>5 DEF IInv, Types, Same, center
  <2>5. /\ entry'[o] = entry[o] /\ pool'[o] = "retained" /\ record'[o] = record[o] /\ observer'[o] = observer[o]
        /\ residency'[o] = residency[o] /\ inFlight'[o] = inFlight[o] /\ deferred'[o] = deferred[o]
    BY <1>1, <1>5 DEF IInv, Types, center
  <2>6. Calm(o) /\ Agrees(o)'
    <3>1. Agrees(o)
      BY DEF IInv
    <3>2. QED
      BY <1>1, <1>2, <2>5, <3>1 DEF Calm, Agrees, Resided
  <2>7. ASSUME NEW u \in Threads, NEW z \in Ahead(u), z.op = o, z.step \in Volatile, Stays(t, u, z)
        PROVE  Passing(u, z)'
    <3>1. Passing(u, z) /\ z.step \notin {"commit", "submit", "enqueue", "retire", "finalize"}
      BY <1>3, <2>7
    <3>2. QED
      BY <2>5, <2>7, <3>1 DEF Passing
  <2>8. Lasting(x)' /\ Passing(t, x)' /\ Plain(x)
    BY <2>1, SilentSteps DEF Silent
  <2>9. NewApart(t, {x})
    BY <2>8, PlainAreApart
  <2>10. QED
    BY <2>2, <2>3, <2>4, <2>6, <2>7, <2>8, <2>9, ActsOnOne
<1>6. QED
  BY <1>4, <1>5 DEF Finalize

LEMMA ReleaseKeeps ==
  ASSUME IInv, NEW t \in Threads, NEW o \in Ops, Release(t, o)
  PROVE  IInv'
<1>1. /\ thread[t] # <<>> /\ Lists /\ entry[o] \in Terminal
      /\ pool' = [pool EXCEPT ![o] = "out"] /\ UNCHANGED <<center, journal, job>>
  BY HeadFacts DEF Release, At, IInv, Op, Lasting
<1> DEFINE x == To("startPending", o)
<1>2. x \in Calls /\ x.step = "startPending" /\ Does(t, <<x>>)
  BY CallsTo DEF Release
<1> HIDE DEF x
<1>3. Lists' /\ Moves(t, {x})
  BY <1>1, <1>2, GoesOne DEF Gated
<1>4. Types'
  BY <1>1 DEF IInv, Types, center, journal
<1>5. \A p \in Ops : p # o => Same(p)
  BY <1>1 DEF IInv, Types, Same, center, journal
<1>6. /\ pool'[o] = "out" /\ record'[o] = record[o] /\ entry'[o] = entry[o] /\ observer'[o] = observer[o]
      /\ residency'[o] = residency[o] /\ inFlight'[o] = inFlight[o] /\ deferred'[o] = deferred[o]
  BY <1>1 DEF IInv, Types, center, journal
<1>7. Calm(o) /\ Agrees(o)'
  <2>1. Agrees(o)
    BY DEF IInv
  <2>2. QED
    BY <1>6, <2>1 DEF Calm, Agrees, Resided
<1>8. ASSUME NEW u \in Threads, NEW y \in Ahead(u), y.op = o, y.step \in Volatile, Stays(t, u, y)
      PROVE  Passing(u, y)'
  <2>1. Passing(u, y) /\ y.step # "finalize"
    BY <1>1, <1>8, NeverBoth DEF IInv, Passing
  <2>2. QED
    BY <1>6, <1>8, <2>1 DEF Passing, Resided
<1>9. Lasting(x)' /\ Passing(t, x)' /\ Plain(x)
  BY <1>2, SilentSteps DEF Silent
<1>10. NewApart(t, {x})
  BY <1>9, PlainAreApart
<1>11. QED
  BY <1>3, <1>4, <1>5, <1>7, <1>8, <1>9, <1>10, ActsOnOne

(* What the journal did not record is finalized once more. *)
LEMMA RetryFinalizationKeeps ==
  ASSUME IInv, NEW t \in Helping, NEW o \in Ops, RetryFinalization(t, o)
  PROVE  IInv'
<1> DEFINE x == To("finalize", o)
<1>1. /\ pool[o] = "retained" /\ entry[o] = "Live" /\ Begins(t, <<x>>) /\ t \in Threads
      /\ pool' = [pool EXCEPT ![o] = "finalizing"] /\ UNCHANGED <<center, journal, job>>
  BY ThreadNames DEF RetryFinalization
<1>2. x \in Calls /\ x.step = "finalize" /\ x.op = o
  BY CallsTo DEF StepNames, Ownerless
<1> HIDE DEF x
<1>3. <<x>> \in Seq(Calls) /\ Elements(<<x>>) = {x} /\ InOrder(<<x>>)
  BY <1>2, OneStep DEF Gated
<1>4. Lists' /\ Moves(t, {x})
  BY <1>1, <1>3, StartsList DEF IInv
<1>5. Types'
  BY <1>1 DEF IInv, Types, center, journal
<1>6. \A p \in Ops : p # o => Same(p)
  BY <1>1 DEF IInv, Types, Same, center, journal
<1>7. /\ pool'[o] = "finalizing" /\ record'[o] = record[o] /\ entry'[o] = entry[o] /\ observer'[o] = observer[o]
      /\ residency'[o] = residency[o] /\ inFlight'[o] = inFlight[o] /\ deferred'[o] = deferred[o]
  BY <1>1 DEF IInv, Types, center, journal
<1>8. Calm(o) /\ Agrees(o)'
  <2>1. Agrees(o)
    BY DEF IInv
  <2>2. QED
    BY <1>1, <1>7, <2>1 DEF Calm, Agrees, Resided
<1>9. ASSUME NEW u \in Threads, NEW y \in Ahead(u), y.op = o
      PROVE  Passing(u, y) /\ y.step \notin {"submit", "enqueue", "retire", "finalize"}
  BY <1>1, <1>9 DEF IInv, Passing
<1>10. ASSUME NEW u \in Threads, NEW y \in Ahead(u), y.op = o, y.step \in Volatile, Stays(t, u, y)
       PROVE  Passing(u, y)'
  <2>1. Passing(u, y) /\ y.step \notin {"submit", "enqueue", "retire", "finalize"}
    BY <1>9, <1>10
  <2>2. QED
    BY <1>7, <1>10, <2>1 DEF Passing, Resided
<1>11. Lasting(x)' /\ Passing(t, x)'
  BY <1>1, <1>2, <1>7 DEF Lasting, Passing, Controls, Touching
<1>12. NewApart(t, {x})
  BY <1>2, <1>9 DEF NewApart, Apart, Touching
<1>13. QED
  BY <1>1, <1>4, <1>5, <1>6, <1>8, <1>10, <1>11, <1>12, ActsOnOne

-----------------------------------------------------------------------------
(* A terminal outcome reaches the record.                                     *)

LEMMA AppliedRecord ==
  ASSUME NEW r \in [state : Terminal \cup Live \cup {Nothing}, revision : Nat], NEW e \in Terminal
  PROVE  /\ Applied(r, e) \in [state : Terminal \cup Live \cup {Nothing}, revision : Nat]
         /\ r.state \in Live => Applied(r, e).state = e
         /\ r.state \notin Live => Applied(r, e) = r
         /\ r.state # Nothing => Applied(r, e).state \in Terminal
         /\ r.state \in Terminal => Applied(r, e) = r
<1>1. CASE r.state \in Live
  BY <1>1, NeverBoth DEF Applied, Moved
<1>2. CASE r.state \notin Live
  BY <1>2 DEF Applied
<1>3. QED
  BY <1>1, <1>2

(* Who has the gate to itself keeps every control of the operation off. *)
LEMMA FreeGateExcludes ==
  ASSUME Lists, NEW t \in Threads, NEW o \in Ops, GateIsFree(t, o),
         NEW u \in Threads, NEW y \in Ahead(u), y.op = o, Stays(t, u, y)
  PROVE  y.step \notin Touching
<1> SUFFICES ASSUME y.step \in Touching PROVE FALSE
  OBVIOUS
<1>1. u # t
  BY DEF Stays, Later, Touching
<1>2. y.step \in Gated
  BY DEF Touching, Gated
<1>3. PICK z \in Ahead(u) : z.step = "leaveGate" /\ z.op = o
  BY <1>2, IsGivenBack
<1>4. PICK i \in DOMAIN thread[u] : z = thread[u][i]
  BY DEF Ahead, Elements
<1>5. Holds(u, "leaveGate", o)
  BY <1>3, <1>4 DEF Holds
<1>6. QED
  BY <1>1, <1>5 DEF GateIsFree

LEMMA HeldGateExcludes ==
  ASSUME IInv, NEW t \in Threads, NEW o \in Ops, NEW x \in Ahead(t), x.op = o, x.step \in Gated,
         NEW u \in Threads, NEW y \in Ahead(u), y.op = o, Stays(t, u, y)
  PROVE  y.step \notin Touching
<1> SUFFICES ASSUME y.step \in Touching PROVE FALSE
  OBVIOUS
<1>1. u # t
  BY DEF Stays, Later, Touching
<1>2. y.step \in Gated
  BY DEF Touching, Gated
<1>3. PICK g \in Ahead(t) : g.step = "leaveGate" /\ g.op = o
  BY IsGivenBack DEF IInv
<1>4. PICK h \in Ahead(u) : h.step = "leaveGate" /\ h.op = o
  BY <1>2, IsGivenBack DEF IInv
<1>5. Apart(t, g, u, h)
  BY DEF IInv
<1>6. QED
  BY <1>1, <1>3, <1>4, <1>5 DEF Apart

LEMMA ReduceDurableTerminalKeeps ==
  ASSUME IInv, NEW t \in Threads, NEW o \in Ops, ReduceDurableTerminal(t, o)
  PROVE  IInv'
<1>1. /\ thread[t] # <<>> /\ Lists /\ Now(t).step = "reduce" /\ Now(t).op = o /\ Now(t) \in Calls
      /\ ByObserver(t) => entry[o] \in Terminal /\ observer[o] # Nothing
      /\ UNCHANGED <<inFlight, deferred, entry, job, pool>>
  BY HeadFacts DEF ReduceDurableTerminal, At, IInv, Op, Lasting, ByObserver
<1>2. CASE residency[o] = "live" /\ entry[o] \in Terminal
  <2> DEFINE a == Now(t).arg
             x == Do("reduceGated", o, a)
  <2>1. a \in Args
    BY <1>1 DEF Calls
  <2>2. /\ Does(t, <<x>>) /\ UNCHANGED <<record, residency, observer>>
        /\ x \in Calls /\ x.step = "reduceGated" /\ x.op = o
    BY <1>2, <2>1, CallsMade DEF ReduceDurableTerminal, StepNames, Ownerless
  <2> HIDE DEF x, a
  <2>3. Lists' /\ Moves(t, {x})
    BY <1>1, <2>2, GoesOne DEF Gated
  <2>4. Types' /\ UNCHANGED <<center, journal, pool>>
    BY <1>1, <2>2 DEF IInv, Types, center, journal
  <2>5. Lasting(x) /\ Passing(t, x) /\ Plain(x)
    BY <1>2, <2>2 DEF Lasting, Passing, Plain, Touching, Controls, Resided
  <2>6. NewApart(t, {x})
    BY <2>5, PlainAreApart
  <2>7. QED
    BY <2>3, <2>4, <2>5, <2>6, ActsOnNone
<1>3. CASE ~(residency[o] = "live" /\ entry[o] \in Terminal)
  <2> DEFINE r == IF entry[o] \in Terminal THEN Applied(record[o], entry[o]) ELSE record[o]
             s == IF ByObserver(t) /\ residency[o] = "staged" THEN Nothing ELSE residency[o]
  <2>1. /\ record' = [record EXCEPT ![o] = r] /\ residency' = [residency EXCEPT ![o] = s]
        /\ Does(t, <<>>) /\ Hears(t, o)
    BY <1>3 DEF ReduceDurableTerminal
  <2>2. /\ record[o] \in [state : Terminal \cup Live \cup {Nothing}, revision : Nat]
        /\ residency[o] \in {"staged", "live", "retired", Nothing}
    BY DEF IInv, Types
  <2>3. /\ r \in [state : Terminal \cup Live \cup {Nothing}, revision : Nat]
        /\ entry[o] \notin Terminal => r = record[o]
        /\ record[o].state \in Terminal => r = record[o]
        /\ entry[o] \in Terminal /\ record[o].state # Nothing => r.state \in Terminal
        /\ r.state \in Terminal => r = record[o] \/ r.state = entry[o]
        /\ record[o].state # Nothing => r.state # Nothing
    BY <2>2, AppliedRecord, NeverBoth
  <2>4. /\ s \in {"staged", "live", "retired", Nothing}
        /\ s \in {"live", "retired"} <=> residency[o] \in {"live", "retired"}
        /\ s = "retired" <=> residency[o] = "retired"
        /\ residency[o] = "live" => s = "live"
    BY <2>2 DEF Nothing
  <2> HIDE DEF r, s
  <2>5. Lists' /\ Moves(t, {})
    BY <1>1, <2>1, GoesOn
  <2>6. observer' \in [Ops -> {"waiting", "told", Nothing}]
    BY <2>1 DEF IInv, Types, Hears
  <2>7. Types'
    BY <1>1, <2>1, <2>3, <2>4, <2>6 DEF IInv, Types
  <2>8. \A p \in Ops : p # o => Same(p)
    BY <1>1, <2>1 DEF IInv, Types, Same, Hears
  <2>9. /\ record'[o] = r /\ residency'[o] = s
        /\ observer'[o] = (IF ByObserver(t) THEN "told" ELSE observer[o])
        /\ pool'[o] = pool[o] /\ entry'[o] = entry[o]
        /\ inFlight'[o] = inFlight[o] /\ deferred'[o] = deferred[o]
    BY <1>1, <2>1 DEF IInv, Types, Hears
  <2>10. Calm(o) /\ Agrees(o)'
    <3>1. Agrees(o) /\ "told" # Nothing /\ (Resided(o)' <=> Resided(o))
      BY <2>4, <2>9 DEF IInv, Nothing, Resided
    <3>2. Calm(o)
      BY <2>9, <3>1 DEF Calm
    <3>3. CASE ByObserver(t)
      <4>1. record[o].state # Nothing /\ observer[o] # Nothing /\ entry[o] \in Terminal
        BY <1>1, <3>1, <3>3 DEF Agrees
      <4>2. r.state \in Terminal /\ r.state # Nothing
        BY <2>3, <4>1
      <4>3. r.state = entry[o]
        BY <2>3, <3>1, <4>2 DEF Agrees
      <4>4. residency'[o] = "retired" => residency[o] = "retired"
        BY <2>4, <2>9
      <4>5. QED
        BY <2>9, <3>1, <3>2, <3>3, <4>1, <4>2, <4>3, <4>4 DEF Agrees
    <3>4. CASE ~ByObserver(t)
      BY <2>3, <2>4, <2>9, <3>1, <3>2, <3>4 DEF Agrees
    <3>5. QED
      BY <3>3, <3>4
  <2>11. ASSUME NEW u \in Threads, NEW y \in Ahead(u), y.op = o, y.step \in Volatile, Stays(t, u, y)
         PROVE  Passing(u, y)'
    <3>1. Passing(u, y) /\ (Resided(o)' <=> Resided(o))
      BY <2>4, <2>9 DEF IInv, Resided
    <3>2. y.step \in Touching => r = record[o]
      BY <1>3, <2>3, <2>11, <3>1 DEF Passing
    <3>3. QED
      BY <2>3, <2>4, <2>9, <2>11, <3>1, <3>2 DEF Passing
  <2>12. NewApart(t, {})
    BY PlainAreApart
  <2>13. QED
    BY <2>5, <2>7, <2>8, <2>10, <2>11, <2>12, ActsOnOne
<1>4. QED
  BY <1>2, <1>3

LEMMA ReduceGatedKeeps ==
  ASSUME IInv, NEW t \in Threads, NEW o \in Ops, ReduceGated(t, o)
  PROVE  IInv'
<1>1. /\ thread[t] # <<>> /\ Lists /\ Now(t).step = "reduceGated" /\ Now(t).op = o
      /\ entry[o] \in Terminal /\ Resided(o)
      /\ GateIsFree(t, o) /\ Hears(t, o) /\ Does(t, <<>>)
      /\ UNCHANGED <<inFlight, entry, job, pool>>
  BY HeadFacts DEF ReduceGated, At, IInv, Op, Lasting
<1>2. /\ observer[o] # Nothing /\ record[o].state # Nothing
      /\ record[o] \in [state : Terminal \cup Live \cup {Nothing}, revision : Nat]
  BY <1>1 DEF IInv, Agrees, Types
<1>3. Lists' /\ Moves(t, {})
  BY <1>1, GoesOn
<1>4. observer' \in [Ops -> {"waiting", "told", Nothing}] /\ observer'[o] # Nothing
  BY <1>1, <1>2 DEF IInv, Types, Hears, Nothing
<1>5. ASSUME NEW u \in Threads, NEW y \in Ahead(u), y.op = o, y.step \in Volatile, Stays(t, u, y)
      PROVE  Passing(u, y)'
  <2>1. Passing(u, y) /\ y.step \notin Touching
    BY <1>1, <1>5, FreeGateExcludes DEF IInv
  <2>2. y.step = "retire"
    BY <1>1, <1>5, <2>1, NeverBoth DEF Passing, Volatile
  <2>3. QED
    BY <1>1, <1>5, <2>1, <2>2 DEF Passing, Touching
<1>6. NewApart(t, {})
  BY PlainAreApart
<1>7. CASE inFlight[o]
  <2>1. deferred' = [deferred EXCEPT ![o] = entry[o]] /\ UNCHANGED <<record, residency>>
    BY <1>7 DEF ReduceGated
  <2>2. Types'
    BY <1>1, <1>4, <2>1 DEF IInv, Types
  <2>3. \A p \in Ops : p # o => Same(p)
    BY <1>1, <2>1 DEF IInv, Types, Same, Hears
  <2>4. /\ record'[o] = record[o] /\ residency'[o] = residency[o] /\ deferred'[o] = entry[o]
        /\ pool'[o] = pool[o] /\ entry'[o] = entry[o] /\ inFlight'[o] = inFlight[o]
    BY <1>1, <2>1 DEF IInv, Types
  <2>5. Calm(o) /\ Agrees(o)'
    <3>1. Agrees(o) /\ deferred'[o] # Nothing
      BY <1>1, <2>4, NeverBoth DEF IInv
    <3>2. QED
      BY <1>1, <1>2, <1>4, <1>7, <2>4, <3>1 DEF Calm, Agrees, Resided
  <2>6. QED
    BY <1>3, <1>5, <1>6, <2>2, <2>3, <2>5, ActsOnOne
<1>8. CASE ~inFlight[o]
  <2> DEFINE r == Applied(record[o], entry[o])
  <2>1. /\ record' = [record EXCEPT ![o] = r] /\ residency' = [residency EXCEPT ![o] = "retired"]
        /\ UNCHANGED deferred
    BY <1>8 DEF ReduceGated
  <2>2. /\ r \in [state : Terminal \cup Live \cup {Nothing}, revision : Nat]
        /\ r.state \in Terminal /\ (r = record[o] \/ r.state = entry[o])
    BY <1>1, <1>2, AppliedRecord
  <2> HIDE DEF r
  <2>3. Types'
    BY <1>1, <1>4, <2>1, <2>2 DEF IInv, Types
  <2>4. \A p \in Ops : p # o => Same(p)
    BY <1>1, <2>1 DEF IInv, Types, Same, Hears
  <2>5. /\ record'[o] = r /\ residency'[o] = "retired" /\ deferred'[o] = deferred[o]
        /\ pool'[o] = pool[o] /\ entry'[o] = entry[o] /\ inFlight'[o] = inFlight[o]
    BY <1>1, <2>1 DEF IInv, Types
  <2>6. Calm(o) /\ Agrees(o)'
    <3>1. Agrees(o) /\ Resided(o)' /\ r.state = entry[o] /\ r.state # Nothing
      BY <1>1, <2>2, <2>5, NeverBoth DEF IInv, Agrees, Resided
    <3>2. QED
      BY <1>1, <1>4, <1>8, <2>2, <2>5, <3>1 DEF Calm, Agrees
  <2>7. QED
    BY <1>3, <1>5, <1>6, <2>3, <2>4, <2>6, ActsOnOne
<1>9. QED
  BY <1>7, <1>8

(* The second look, under the gate: the request is in flight from here on. *)
LEMMA CancelUnderGateKeeps ==
  ASSUME IInv, NEW t \in Threads, NEW o \in Ops, CancelUnderGate(t, o)
  PROVE  IInv'
<1>1. /\ thread[t] # <<>> /\ Lists /\ Resided(o) /\ GateIsFree(t, o)
      /\ Now(t).step = "cancel"
      /\ UNCHANGED <<record, residency, deferred, journal, job, pool>>
  BY HeadFacts DEF CancelUnderGate, At, IInv, Op, Lasting, Controls
<1>2. CASE Does(t, <<>>) /\ UNCHANGED inFlight
  <2>1. Lists' /\ Moves(t, {})
    BY <1>1, <1>2, GoesOn
  <2>2. Types' /\ UNCHANGED <<center, journal, pool>>
    BY <1>1, <1>2 DEF IInv, Types, center, journal
  <2>3. QED
    BY <2>1, <2>2, ActsSilently
<1>3. CASE /\ CanCancel(o) /\ ~inFlight[o] /\ IsResident(o)
           /\ inFlight' = [inFlight EXCEPT ![o] = TRUE]
           /\ Does(t, <<To("askStop", o), To("leaveGate", o)>>)
  <2> DEFINE x == To("askStop", o)
             z == To("leaveGate", o)
  <2>1. /\ x \in Calls /\ x.step = "askStop" /\ x.op = o
        /\ z \in Calls /\ z.step = "leaveGate" /\ z.op = o /\ Does(t, <<x, z>>)
    BY <1>3, CallsTo DEF StepNames, Ownerless
  <2>2. record[o].state \in Live /\ IsResident(o) /\ GateIsFree(t, o) /\ Resided(o)
    BY <1>1, <1>3 DEF CanCancel, Live
  <2> HIDE DEF x, z
  <2>3. Lists' /\ Moves(t, {x, z})
    BY <1>1, <2>1, GoesTwo DEF Gated, Later
  <2>4. NewApart(t, {x, z}) /\ \A y \in {x, z} : Lasting(y) /\ Passing(t, y)
    BY <2>1, <2>2, TakesGate
  <2>5. \A y \in {x, z} : Lasting(y)' /\ Passing(t, y)'
    <3>1. ASSUME NEW y, Lasting(y), Passing(t, y) PROVE Lasting(y)' /\ Passing(t, y)'
      BY <1>1, <3>1 DEF Lasting, Passing, Resided, journal
    <3>2. QED
      BY <2>4, <3>1
  <2>6. Types'
    BY <1>1, <1>3 DEF IInv, Types, journal
  <2>7. \A p \in Ops : p # o => Same(p)
    BY <1>1, <1>3 DEF IInv, Types, Same, journal
  <2>8. /\ record'[o] = record[o] /\ residency'[o] = residency[o] /\ deferred'[o] = deferred[o]
        /\ pool'[o] = pool[o] /\ entry'[o] = entry[o] /\ observer'[o] = observer[o] /\ inFlight'[o] = TRUE
    BY <1>1, <1>3 DEF IInv, Types, journal
  <2>9. Calm(o) /\ Agrees(o)'
    <3>1. Agrees(o)
      BY DEF IInv
    <3>2. QED
      BY <1>3, <2>8, <3>1 DEF Calm, Agrees, Resided
  <2>10. ASSUME NEW u \in Threads, NEW y \in Ahead(u)
         PROVE  Passing(u, y)'
    <3>1. Passing(u, y)
      BY DEF IInv
    <3>2. QED
      BY <1>1, <3>1 DEF Passing, Resided, journal
  <2>11. QED
    BY <2>3, <2>4, <2>5, <2>6, <2>7, <2>9, <2>10, ActsOnOne
<1>4. QED
  BY <1>2, <1>3 DEF CancelUnderGate

(* The request comes back: what was put off is applied now. *)
LEMMA EndCancelKeeps ==
  ASSUME IInv, NEW t \in Threads, NEW o \in Ops, EndCancel(t, o)
  PROVE  IInv'
<1>1. /\ thread[t] # <<>> /\ Lists /\ Now(t).step = "endCancel" /\ Now(t).op = o /\ Now(t) \in Ahead(t)
      /\ Resided(o) /\ Does(t, <<>>)
      /\ inFlight' = [inFlight EXCEPT ![o] = FALSE] /\ UNCHANGED <<journal, job, pool>>
  BY HeadFacts DEF EndCancel, At, IInv, Op, Lasting, Controls
<1>2. /\ observer[o] # Nothing /\ record[o].state # Nothing
      /\ record[o] \in [state : Terminal \cup Live \cup {Nothing}, revision : Nat]
      /\ deferred[o] \in Terminal \cup {Nothing}
  BY <1>1 DEF IInv, Agrees, Types
<1>3. Lists' /\ Moves(t, {})
  BY <1>1, GoesOn
<1>4. ASSUME NEW u \in Threads, NEW y \in Ahead(u), y.op = o, y.step \in Volatile, Stays(t, u, y)
      PROVE  Passing(u, y) /\ y.step \notin Touching \cup {"commit", "submit"}
  <2>1. Now(t).step \in Gated
    BY <1>1 DEF Gated
  <2>2. y.step \notin Touching
    BY <1>1, <1>4, <2>1, HeldGateExcludes
  <2>3. QED
    BY <1>1, <1>4, <2>2 DEF IInv, Passing
<1>5. NewApart(t, {})
  BY PlainAreApart
<1> DEFINE c == IF Now(t).arg = "accepted" /\ CanCancel(o) THEN Moved(record[o], "Cancelling") ELSE record[o]
<1>6. /\ c \in [state : Terminal \cup Live \cup {Nothing}, revision : Nat]
      /\ c.state # Nothing /\ (c.state \in Terminal => c = record[o])
      /\ record[o].state \in Terminal => c = record[o]
  <2>1. "Cancelling" \in Live /\ (CanCancel(o) => record[o].state \in Live)
    BY DEF Live, CanCancel
  <2>2. QED
    BY <1>2, <2>1, MovedRecord, NeverBoth
<1>7. CASE deferred[o] = Nothing
  <2>1. record' = [record EXCEPT ![o] = c] /\ UNCHANGED <<residency, deferred>>
    BY <1>7 DEF EndCancel
  <2> HIDE DEF c
  <2>2. Types'
    BY <1>1, <1>6, <2>1 DEF IInv, Types, journal
  <2>3. \A p \in Ops : p # o => Same(p)
    BY <1>1, <2>1 DEF IInv, Types, Same, journal
  <2>4. /\ record'[o] = c /\ residency'[o] = residency[o] /\ deferred'[o] = deferred[o]
        /\ pool'[o] = pool[o] /\ entry'[o] = entry[o] /\ observer'[o] = observer[o] /\ inFlight'[o] = FALSE
    BY <1>1, <2>1 DEF IInv, Types, journal
  <2>5. Calm(o) /\ Agrees(o)'
    <3>1. Agrees(o) /\ Resided(o)'
      BY <1>1, <2>4 DEF IInv, Resided
    <3>2. Calm(o)
      BY <2>4, <3>1 DEF Calm
    <3>3. observer[o] = "told" => c.state \in Terminal
      BY <1>6, <1>7, <3>1 DEF Agrees
    <3>4. Agrees(o)'
      BY <1>2, <1>6, <1>7, <2>4, <3>1, <3>3 DEF Agrees
    <3>5. QED
      BY <3>2, <3>4
  <2>6. ASSUME NEW u \in Threads, NEW y \in Ahead(u), y.op = o, y.step \in Volatile, Stays(t, u, y)
        PROVE  Passing(u, y)'
    <3>1. Passing(u, y) /\ y.step \notin Touching \cup {"commit", "submit"}
      BY <1>4, <2>6
    <3>2. QED
      BY <2>4, <2>6, <3>1 DEF Passing
  <2>7. QED
    BY <1>3, <1>5, <2>2, <2>3, <2>5, <2>6, ActsOnOne
<1>8. CASE deferred[o] # Nothing
  <2> DEFINE r == Applied(c, deferred[o])
  <2>1. /\ record' = [record EXCEPT ![o] = r] /\ residency' = [residency EXCEPT ![o] = "retired"]
        /\ deferred' = [deferred EXCEPT ![o] = Nothing]
    BY <1>8 DEF EndCancel
  <2>2. deferred[o] = entry[o] /\ entry[o] \in Terminal
    BY <1>2, <1>8 DEF IInv, Agrees
  <2> HIDE DEF c
  <2>3. /\ r \in [state : Terminal \cup Live \cup {Nothing}, revision : Nat]
        /\ r.state \in Terminal /\ (r = c \/ r.state = entry[o])
    BY <1>6, <2>2, AppliedRecord
  <2> HIDE DEF r
  <2>4. Types'
    BY <1>1, <2>1, <2>3 DEF IInv, Types, journal
  <2>5. \A p \in Ops : p # o => Same(p)
    BY <1>1, <2>1 DEF IInv, Types, Same, journal
  <2>6. /\ record'[o] = r /\ residency'[o] = "retired" /\ deferred'[o] = Nothing
        /\ pool'[o] = pool[o] /\ entry'[o] = entry[o] /\ observer'[o] = observer[o] /\ inFlight'[o] = FALSE
    BY <1>1, <2>1 DEF IInv, Types, journal
  <2>7. Calm(o) /\ Agrees(o)'
    <3>1. Agrees(o) /\ Resided(o)'
      BY <2>6 DEF IInv, Resided
    <3>2. r.state = entry[o] /\ r.state # Nothing
      BY <1>6, <2>2, <2>3, <3>1, NeverBoth DEF Agrees
    <3>3. QED
      BY <1>2, <2>2, <2>3, <2>6, <3>1, <3>2 DEF Calm, Agrees
  <2>8. ASSUME NEW u \in Threads, NEW y \in Ahead(u), y.op = o, y.step \in Volatile, Stays(t, u, y)
        PROVE  Passing(u, y)'
    <3>1. Passing(u, y) /\ y.step \notin Touching \cup {"commit", "submit"}
      BY <1>4, <2>8
    <3>2. y.step \notin {"enqueue", "finalize"}
      BY <2>2, <2>8, <3>1, NeverBoth DEF Passing
    <3>3. QED
      BY <2>6, <2>8, <3>1, <3>2 DEF Passing
  <2>9. QED
    BY <1>3, <1>5, <2>4, <2>5, <2>7, <2>8, ActsOnOne
<1>9. QED
  BY <1>7, <1>8

LEMMA ReducePausedKeeps ==
  ASSUME IInv, NEW t \in Threads, NEW o \in Ops, ReducePaused(t, o)
  PROVE  IInv'
<1> DEFINE s == IF Now(t).arg = "Pause" THEN "Paused" ELSE "Running"
           r == IF ~Available(o, Now(t).arg) THEN record[o] ELSE Moved(record[o], s)
<1>1. /\ thread[t] # <<>> /\ Does(t, <<>>) /\ record' = [record EXCEPT ![o] = r]
      /\ UNCHANGED <<residency, inFlight, deferred, journal, job, pool>>
  BY DEF ReducePaused, At
<1>2. record[o] \in [state : Terminal \cup Live \cup {Nothing}, revision : Nat]
  BY DEF IInv, Types
<1>3. s \in Live /\ (Available(o, Now(t).arg) => record[o].state \in Live)
  BY DEF Live, Available, CanPause, CanResume
<1> HIDE DEF s
<1>4. /\ r \in [state : Terminal \cup Live \cup {Nothing}, revision : Nat]
      /\ r.state = record[o].state \/ (r.state \in Live /\ record[o].state \in Live)
  BY <1>2, <1>3, MovedRecord
<1> HIDE DEF r
<1>5. QED
  BY <1>1, <1>4, RecordStaysLive

-----------------------------------------------------------------------------
(* Steps for many operations, and recovery.                                   *)

LEMMA StartList ==
  ASSUME NEW S \in SUBSET Ops, NEW todo \in SetToSeqs(S), NEW b
  PROVE  LET l == [i \in DOMAIN todo |-> To("start", todo[i])]
         IN  /\ l \in Seq(Calls) /\ MayPrecede(l, b)
             /\ \A x \in Elements(l) : x.step = "start"
<1> DEFINE n == Cardinality(S)
           l == [i \in DOMAIN todo |-> To("start", todo[i])]
<1>1. IsFiniteSet(S)
  BY CenterAssumption, FS_Subset
<1>2. n \in Nat
  BY <1>1, FS_CardinalityType
<1>3. todo \in [1 .. n -> S]
  BY DEF SetToSeqs
<1> HIDE DEF n
<1>4. \A i \in 1 .. n : todo[i] \in Ops
  BY <1>3
<1>5. \A i \in 1 .. n : To("start", todo[i]) \in Calls /\ To("start", todo[i]).step = "start"
  BY <1>4, CallsTo DEF StepNames, Ownerless
<1>6. DOMAIN l = 1 .. n /\ \A i \in 1 .. n : l[i] \in Calls /\ l[i].step = "start"
  BY <1>3, <1>5
<1>7. l \in [1 .. n -> Calls]
  BY <1>3, <1>5
<1> HIDE DEF l
<1>8. l \in Seq(Calls)
  BY <1>2, <1>7
<1>9. MayPrecede(l, b)
  BY <1>6 DEF MayPrecede, Later, Gated
<1>10. \A x \in Elements(l) : x.step = "start"
  BY <1>6 DEF Elements
<1>11. QED
  BY <1>8, <1>9, <1>10 DEF l

LEMMA StartPendingOperationsKeeps ==
  ASSUME IInv, NEW t \in Threads, StartPendingOperations(t)
  PROVE  IInv'
<1>1. thread[t] # <<>> /\ Lists /\ UNCHANGED <<center, journal, job>>
  BY DEF StartPendingOperations, At, IInv
<1>2. PICK S \in SUBSET {o \in Ops : pool[o] = "queued"} : \E todo \in SetToSeqs(S) :
        /\ pool' = [o \in Ops |-> IF o \in S THEN "listed" ELSE pool[o]]
        /\ Does(t, [i \in DOMAIN todo |-> To("start", todo[i])])
  BY DEF StartPendingOperations
<1>3. PICK todo \in SetToSeqs(S) :
        /\ pool' = [o \in Ops |-> IF o \in S THEN "listed" ELSE pool[o]]
        /\ Does(t, [i \in DOMAIN todo |-> To("start", todo[i])])
  BY <1>2
<1> DEFINE l == [i \in DOMAIN todo |-> To("start", todo[i])]
<1>4. S \in SUBSET Ops
  BY <1>2
<1>5. /\ l \in Seq(Calls) /\ MayPrecede(l, Tail(thread[t]))
      /\ \A x \in Elements(l) : x.step = "start"
  BY <1>4, StartList
<1>6. Does(t, l)
  BY <1>3
<1> HIDE DEF l
<1>7. Lists' /\ Moves(t, Elements(l))
  BY <1>1, <1>5, <1>6, Goes
<1>8. Types'
  BY <1>1, <1>3 DEF IInv, Types, center, journal
<1>9. ASSUME NEW o \in Ops
      PROVE  /\ pool'[o] = pool[o] \/ (pool[o] = "queued" /\ pool'[o] = "listed")
             /\ record'[o] = record[o] /\ entry'[o] = entry[o] /\ observer'[o] = observer[o]
             /\ residency'[o] = residency[o] /\ inFlight'[o] = inFlight[o] /\ deferred'[o] = deferred[o]
  BY <1>1, <1>2, <1>3 DEF center, journal
<1>10. ASSUME NEW o \in Ops PROVE Calm(o) /\ Agrees(o)'
  <2>1. Agrees(o)
    BY DEF IInv
  <2>2. pool'[o] = "out" <=> pool[o] = "out"
    BY <1>9
  <2>3. pool'[o] \in {"queued", "listed"} => pool[o] \in {"queued", "listed"}
    BY <1>9
  <2>4. QED
    BY <1>9, <2>1, <2>2, <2>3 DEF Calm, Agrees, Resided
<1>11. ASSUME NEW u \in Threads, NEW y \in Ahead(u), y.step \in Volatile, Stays(t, u, y)
       PROVE  Passing(u, y)'
  <2>1. y.op \in Ops /\ Passing(u, y)
    BY <1>11, StepsAreCalls, CallNames DEF IInv, Volatile, Touching, Ownerless
  <2>2. /\ pool[y.op] = "out" => pool'[y.op] = "out"
        /\ pool[y.op] = "finalizing" => pool'[y.op] = "finalizing"
    BY <1>9, <2>1
  <2>3. QED
    BY <1>9, <2>1, <2>2 DEF Passing, Resided
<1> DEFINE new == Elements(l)
<1>12. \A x \in new : Lasting(x)' /\ Passing(t, x)' /\ Plain(x)
  BY <1>5, SilentSteps DEF Silent
<1> HIDE DEF new
<1>13. NewApart(t, new)
  BY <1>12, PlainAreApart
<1>14. QED
  BY <1>7, <1>8, <1>10, <1>11, <1>12, <1>13, Assembled DEF new

(* The history of the journal becomes the record of what has none. *)
LEMMA RefreshColdHistoryKeeps ==
  ASSUME IInv, NEW t \in Threads, RefreshColdHistory(t)
  PROVE  IInv'
<1>1. /\ thread[t] # <<>> /\ Lists /\ Does(t, <<>>)
      /\ \A o \in Ops : o \in Now(t).arg => entry[o] \in Terminal
      /\ UNCHANGED <<residency, inFlight, deferred, journal, job, pool>>
  BY HeadFacts DEF RefreshColdHistory, At, IInv, Lasting
<1>2. /\ record \in [Ops -> [state : Terminal \cup Live \cup {Nothing}, revision : Nat]]
      /\ \A e \in Terminal : /\ Published(e) \in [state : Terminal \cup Live \cup {Nothing}, revision : Nat]
                             /\ Published(e).state = e
  BY DEF IInv, Types, Published
<1>3. /\ record' \in [Ops -> [state : Terminal \cup Live \cup {Nothing}, revision : Nat]]
      /\ \A o \in Ops :
           \/ record'[o] = record[o]
           \/ /\ record[o].state = Nothing /\ entry[o] \in Terminal
              /\ record'[o] = Published(entry[o])
  BY <1>1, <1>2 DEF RefreshColdHistory
<1>4. Lists' /\ Moves(t, {})
  BY <1>1, GoesOn
<1>5. Types'
  BY <1>1, <1>3 DEF IInv, Types, journal
<1>6. /\ entry' = entry /\ observer' = observer /\ residency' = residency
      /\ inFlight' = inFlight /\ deferred' = deferred /\ pool' = pool
  BY <1>1 DEF journal
<1>7. ASSUME NEW o \in Ops PROVE Calm(o) /\ Agrees(o)'
  <2>1. Agrees(o)
    BY DEF IInv
  <2>2. CASE record'[o] = record[o]
    BY <1>6, <2>1, <2>2 DEF Calm, Agrees, Resided
  <2>3. CASE /\ record[o].state = Nothing /\ entry[o] \in Terminal
             /\ record'[o] = Published(entry[o])
    <3>1. record'[o].state = entry[o] /\ observer[o] = Nothing /\ ~Resided(o) /\ pool[o] = "out"
      BY <1>2, <2>1, <2>3 DEF Agrees
    <3>2. residency[o] # "retired" /\ observer[o] # "told" /\ deferred[o] = Nothing
      BY <2>1, <3>1 DEF Resided, Agrees, Nothing
    <3>3. QED
      BY <1>6, <2>3, <3>1, <3>2 DEF Calm, Agrees, Resided
  <2>4. QED
    BY <1>3, <2>2, <2>3
<1>8. ASSUME NEW u \in Threads, NEW y \in Ahead(u), y.step \in Volatile, Stays(t, u, y)
      PROVE  Passing(u, y)'
  <2>1. y.op \in Ops /\ Passing(u, y)
    BY <1>8, StepsAreCalls, CallNames DEF IInv, Volatile, Touching, Ownerless
  <2>2. record[y.op].state # Nothing => record'[y.op] = record[y.op]
    BY <1>3, <2>1
  <2>3. QED
    BY <1>6, <2>1, <2>2, NeverBoth DEF Passing, Resided
<1>9. NewApart(t, {})
  BY PlainAreApart
<1>10. QED
  BY <1>4, <1>5, <1>7, <1>8, <1>9, Assembled

(* What the reopened journal still has to tell and to release. *)
LEMMA RecoverList ==
  ASSUME NEW o \in Ops, NEW tell \in BOOLEAN, NEW free \in BOOLEAN
  PROVE  LET l == (IF tell THEN <<Told(o)>> ELSE <<>>) \o (IF free THEN <<To("release", o)>> ELSE <<>>)
         IN  /\ l \in Seq(Calls) /\ InOrder(l)
             /\ \A x \in Elements(l) : \/ tell /\ x = Told(o)
                                       \/ free /\ x = To("release", o)
<1> DEFINE y == To("release", o)
           b == IF free THEN <<y>> ELSE <<>>
           l == (IF tell THEN <<Told(o)>> ELSE <<>>) \o b
<1>1. y \in Calls /\ y.step = "release"
  BY CallsTo DEF StepNames, Ownerless
<1> HIDE DEF y
<1>2. /\ b \in Seq(Calls) /\ InOrder(b)
      /\ \A x \in Elements(b) : x.step \in Later /\ free /\ x = y
  <2>1. CASE free
    <3>1. <<y>> \in Seq(Calls) /\ Elements(<<y>>) = {y} /\ InOrder(<<y>>)
      BY <1>1, OneStep DEF Gated
    <3>2. QED
      BY <1>1, <2>1, <3>1 DEF Later
  <2>2. CASE ~free
    BY <2>2, NoList
  <2>3. QED
    BY <2>1, <2>2
<1> HIDE DEF b
<1>3. /\ l \in Seq(Calls) /\ InOrder(l)
      /\ \A x \in Elements(l) : (tell /\ x = Told(o)) \/ x \in Elements(b)
  <2>1. CASE tell
    <3>1. l = <<Told(o)>> \o b
      BY <2>1
    <3> HIDE DEF l
    <3>2. QED
      BY <1>2, <2>1, <3>1, ToldFirst
  <2>2. CASE ~tell
    <3>1. l = b
      BY <1>2, <2>2
    <3> HIDE DEF l
    <3>2. QED
      BY <1>2, <3>1
  <2>3. QED
    BY <2>1, <2>2
<1> HIDE DEF l
<1>4. QED
  BY <1>2, <1>3 DEF l, b, y

LEMMA RecoverKeeps ==
  ASSUME IInv, NEW t \in Helping, NEW o \in Ops, Recover(t, o)
  PROVE  IInv'
<1> DEFINE tell == observer[o] = "waiting"
           free == pool[o] = "retained"
           l == (IF tell THEN <<Told(o)>> ELSE <<>>) \o (IF free THEN <<To("release", o)>> ELSE <<>>)
<1>1. t \in Threads /\ Quiet /\ Begins(t, l) /\ UNCHANGED <<center, observer, job, pool>>
  BY ThreadNames DEF Recover
<1>2. PICK e \in Terminal \cup {"Lost"} :
        /\ entry' = [entry EXCEPT ![o] = e]
        /\ \/ entry[o] = "Live" /\ e \in Terminal
           \/ entry[o] = "Doubtful"
  <2>1. Outcome(o) \in Terminal /\ "Interrupted" \in Terminal
    BY DEF Outcome, Terminal
  <2>2. QED
    BY <2>1 DEF Recover
<1>3. tell \in BOOLEAN /\ free \in BOOLEAN
  OBVIOUS
<1>4. /\ l \in Seq(Calls) /\ InOrder(l)
      /\ \A x \in Elements(l) : \/ tell /\ x = Told(o)
                                \/ free /\ x = To("release", o)
  <2> HIDE DEF tell, free
  <2>1. QED
    BY <1>3, RecoverList
<1> HIDE DEF l
<1>5. Lists' /\ Moves(t, Elements(l))
  BY <1>1, <1>4, StartsList DEF IInv
<1>6. Types'
  BY <1>1, <1>2 DEF IInv, Types, center
<1>7. \A p \in Ops : p # o => Same(p)
  BY <1>1, <1>2 DEF IInv, Types, Same, center
<1>8. /\ pool'[o] = pool[o] /\ record'[o] = record[o] /\ entry'[o] = e /\ observer'[o] = observer[o]
      /\ residency'[o] = residency[o] /\ inFlight'[o] = inFlight[o] /\ deferred'[o] = deferred[o]
  BY <1>1, <1>2 DEF IInv, Types, center
<1>9. /\ Agrees(o) /\ entry[o] \notin Terminal
      /\ observer[o] # Nothing => e \in Terminal
      /\ record[o].state \notin Terminal /\ deferred[o] = Nothing
      /\ pool[o] \in {"out", "retained"}
  <2>1. Agrees(o) /\ deferred[o] \in Terminal \cup {Nothing}
    BY DEF IInv, Types
  <2>2. entry[o] \notin Terminal
    BY <1>2, NeverBoth
  <2>3. observer[o] # Nothing => entry[o] # "Doubtful"
    BY <2>1, NeverBoth DEF Agrees
  <2>4. QED
    BY <1>1, <1>2, <2>1, <2>2, <2>3 DEF Agrees, Quiet
<1>10. Calm(o) /\ Agrees(o)'
  <2>1. pool[o] \notin {"queued", "listed"}
    BY <1>9
  <2>2. QED
    BY <1>8, <1>9, <2>1 DEF Calm, Agrees, Resided
<1>11. ASSUME NEW u \in Threads, NEW y \in Ahead(u), y.op = o, y.step \in Volatile, Stays(t, u, y)
       PROVE  Passing(u, y)'
  <2>1. Passing(u, y)
    BY DEF IInv
  <2>2. PICK i \in DOMAIN thread[u] : y = thread[u][i]
    BY DEF Ahead, Elements
  <2>3. y.step # "finalize"
    BY <1>1, <2>2 DEF Quiet
  <2>4. y.step \notin {"commit", "submit", "enqueue"}
    <3>1. thread[Submitter(o)] = <<>>
      BY <1>1 DEF Quiet
    <3>2. u # Submitter(o)
      BY <2>2, <3>1
    <3>3. QED
      BY <1>11, <2>1, <3>2 DEF Passing
  <2>5. QED
    BY <1>8, <1>11, <2>1, <2>3, <2>4 DEF Passing
<1>12. ASSUME NEW x \in Elements(l) PROVE Lasting(x)' /\ Passing(t, x)' /\ Plain(x)
  <2>1. observer[o] # Nothing /\ e \in Terminal
    <3>1. CASE tell
      BY <1>9, <3>1 DEF Nothing
    <3>2. CASE free
      BY <1>9, <3>2 DEF Agrees
    <3>3. QED
      BY <1>4, <3>1, <3>2
  <2>2. x.step \in {"reduce", "release"} /\ x.op = o
    BY <1>4, ToldCall, CallsTo DEF StepNames, Ownerless
  <2>3. QED
    BY <1>8, <2>1, <2>2 DEF Lasting, Passing, Plain, Controls, Touching
<1> DEFINE new == Elements(l)
<1>13. \A x \in new : Lasting(x)' /\ Passing(t, x)' /\ Plain(x)
  BY <1>12
<1> HIDE DEF new
<1>14. NewApart(t, new)
  BY <1>13, PlainAreApart
<1>15. QED
  BY <1>1, <1>5, <1>6, <1>7, <1>10, <1>11, <1>13, <1>14, ActsOnOne DEF new

-----------------------------------------------------------------------------
(* The theorems.                                                              *)

LEMMA InitIInv == Init => IInv
<1> SUFFICES ASSUME Init PROVE IInv
  OBVIOUS
<1>1. Types
  BY DEF Init, Types
<1>2. \A t \in Threads : thread[t] = <<>>
  BY DEF Init
<1>3. \A t \in Threads : Ahead(t) = {}
  BY <1>2, NoList DEF Ahead
<1>4. Lists
  BY <1>2, NoList DEF Init, Lists
<1>5. \A o \in Ops : Agrees(o)
  BY NeverBoth DEF Init, Agrees, Resided, Nothing
<1>6. QED
  BY <1>1, <1>3, <1>4, <1>5 DEF IInv

LEMMA BeginKeeps ==
  ASSUME IInv, NEW o \in Ops, Begin(o)
  PROVE  IInv'
<1>1. CASE StageAdmission(o)
  BY <1>1, StageAdmissionKeeps
<1>2. CASE \E t \in Controlling : Cancel(t, o) \/ SetPaused(t, o)
  BY <1>2, CancelKeeps, SetPausedKeeps
<1>3. CASE \E t \in Helping : Recover(t, o) \/ RetryFinalization(t, o)
  BY <1>3, RecoverKeeps, RetryFinalizationKeeps
<1>4. QED
  BY <1>1, <1>2, <1>3 DEF Begin

LEMMA StepOfKeeps ==
  ASSUME IInv, NEW t \in Threads, NEW o \in Ops, StepOf(t, o)
  PROVE  IInv'
<1>1. CASE \/ CommitAdmission(t, o) \/ SubmitUnreserved(t, o) \/ SubmitCancelled(t, o)
           \/ RegisterLiveResidency(t, o) \/ EnqueueAccepted(t, o) \/ EnqueueRejected(t, o)
           \/ RetireLiveResidency(t, o)
  BY <1>1, CommitAdmissionKeeps, SubmitUnreservedKeeps, SubmitCancelledKeeps, RegisterLiveResidencyKeeps,
     EnqueueAcceptedKeeps, EnqueueRejectedKeeps, RetireLiveResidencyKeeps
<1>2. CASE \/ Start(t, o) \/ Launch(t, o) \/ LaunchFails(t, o) \/ ReduceStarted(t, o)
           \/ WorkEnds(t, o) \/ Finish(t, o) \/ Finalize(t, o) \/ Release(t, o)
  BY <1>2, StartKeeps, LaunchKeeps, JobEnds, ReduceStartedKeeps, FinishKeeps, FinalizeKeeps, ReleaseKeeps
<1>3. CASE \/ ReduceDurableTerminal(t, o) \/ ReduceGated(t, o)
           \/ CancelUnderGate(t, o) \/ AskStop(t, o) \/ Stop(t, o) \/ EndCancel(t, o)
           \/ SetPausedUnderGate(t, o) \/ ReducePaused(t, o)
  BY <1>3, ReduceDurableTerminalKeeps, ReduceGatedKeeps, CancelUnderGateKeeps, AskStopKeeps, StopKeeps,
     EndCancelKeeps, SetPausedUnderGateKeeps, ReducePausedKeeps
<1>4. QED
  BY <1>1, <1>2, <1>3 DEF StepOf

LEMMA NextKeeps == IInv /\ [Next]_vars => IInv'
<1> SUFFICES ASSUME IInv, [Next]_vars PROVE IInv'
  OBVIOUS
<1>1. CASE \E o \in Ops : Begin(o)
  BY <1>1, BeginKeeps
<1>2. CASE \E t \in Helping : BeginStarting(t) \/ ReadHistory(t)
  BY <1>2, BeginStartingKeeps, ReadHistoryKeeps
<1>3. CASE \E t \in Threads : Step(t)
  <2>1. PICK t \in Threads : Step(t)
    BY <1>3
  <2>2. CASE \E o \in Ops : StepOf(t, o)
    BY <2>2, StepOfKeeps
  <2>3. CASE StartPendingOperations(t) \/ RefreshColdHistory(t) \/ Leave(t)
    BY <2>1, <2>3, StartPendingOperationsKeeps, RefreshColdHistoryKeeps, LeaveKeeps DEF Step
  <2>4. QED
    BY <2>1, <2>2, <2>3 DEF Step
<1>4. CASE UNCHANGED vars
  <2>1. UNCHANGED <<record, residency, inFlight, deferred, entry, observer, job, pool, thread>>
    BY <1>4 DEF vars, center, journal
  <2>2. Types' /\ Lists' /\ \A o \in Ops : Agrees(o)'
    BY <2>1 DEF IInv, Types, Lists, Agrees, Resided
  <2>3. ASSUME NEW t \in Threads
        PROVE  /\ Ahead(t)' = Ahead(t)
               /\ \A x \in Ahead(t) : Lasting(x)' /\ Passing(t, x)'
    <3>1. Ahead(t)' = Ahead(t)
      BY <2>1 DEF Ahead
    <3>2. ASSUME NEW x \in Ahead(t) PROVE Lasting(x)' /\ Passing(t, x)'
      <4>1. Lasting(x) /\ Passing(t, x)
        BY DEF IInv
      <4>2. QED
        BY <2>1, <4>1 DEF Lasting, Passing, Resided
    <3>3. QED
      BY <3>1, <3>2
  <2>4. QED
    BY <2>2, <2>3 DEF IInv, Apart
<1>5. QED
  BY <1>1, <1>2, <1>3, <1>4 DEF Next

(* Record, journal, residency, pool and the steps that are still to be taken  *)
(* agree in every reachable state: at most one thread has the gate of an      *)
(* operation, one finalizes it, and what a thread read before it took its     *)
(* next step still holds when it takes it (OperationCenterCoordinator.cpp).   *)
THEOREM CenterIsConsistent == Spec => []IInv
<1>1. Init => IInv
  BY InitIInv
<1>2. IInv /\ [Next]_vars => IInv'
  BY NextKeeps
<1>3. QED
  BY <1>1, <1>2, PTL DEF Spec

(* What the journal recorded is what the record ends with, also when it       *)
(* arrives while a cancellation is inside Stop (ReduceDurableTerminal and     *)
(* Cancel).                                                                   *)
THEOREM OutcomesReachTheRecord == Spec => []OutcomeReachesTheRecord
<1>1. IInv => OutcomeReachesTheRecord
  BY DEF IInv, Agrees, OutcomeReachesTheRecord
<1>2. QED
  BY <1>1, CenterIsConsistent, PTL

(* No control reaches an executor whose terminal outcome the record already   *)
(* has: nobody ends the record between the second look under the gate and the *)
(* job's own lock (Cancel, SetPaused).                                        *)
THEOREM ControlsAreInTime == Spec => []ControlsReachOnlyTheLiving
<1>1. IInv => ControlsReachOnlyTheLiving
  <2> SUFFICES ASSUME IInv, NEW t \in Controlling, NEW step \in {"askStop", "stop", "pauseJob"}, At(t, step)
               PROVE  record[Op(t)].state \in Live /\ residency[Op(t)] = "live"
    BY DEF ControlsReachOnlyTheLiving
  <2>1. t \in Threads /\ thread[t] # <<>> /\ Now(t).step \in Touching
    BY ThreadNames DEF At, Touching
  <2>2. Passing(t, Now(t))
    BY <2>1, HeadFacts
  <2>3. QED
    BY <2>1, <2>2 DEF Passing, Op
<1>2. QED
  BY <1>1, CenterIsConsistent, PTL

(* Types, and a terminal outcome is put off only while a cancellation is in   *)
(* flight (LiveResidency::deferred_terminal).                                 *)
THEOREM CenterTypes == Spec => []TypeOK
<1>1. IInv => TypeOK
  <2> SUFFICES ASSUME IInv PROVE TypeOK
    OBVIOUS
  <2>1. ASSUME NEW t \in Threads, NEW i \in DOMAIN thread[t]
        PROVE  thread[t][i].step \in StepNames /\ thread[t][i].op \in Ops \cup {Nothing}
    <3>1. thread[t][i] \in Calls
      BY StepsAreCalls DEF IInv, Ahead, Elements
    <3>2. Ownerless \subseteq StepNames
      BY DEF Ownerless, StepNames
    <3>3. QED
      BY <3>1, <3>2 DEF Calls
  <2>2. QED
    BY <2>1 DEF IInv, Types, Agrees, TypeOK
<1>2. QED
  BY <1>1, CenterIsConsistent, PTL
=============================================================================
