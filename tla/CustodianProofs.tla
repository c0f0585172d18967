-------------------------- MODULE CustodianProofs --------------------------
(***************************************************************************)
(* Theorems about Custodian, for any plans, recoverers and releasers: what *)
(* is recorded is told once and as it is recorded, before the pool lets    *)
(* the operation go (it implements DurableOutcome); no reopen interrupts   *)
(* work in custody; and no resident loses its slot.                        *)
(*                                                                         *)
(* The list of a thread is seen as the set of its steps: the order in it   *)
(* is always that of After.                                                *)
(***************************************************************************)
EXTENDS Custodian, FiniteSetTheorems, TLAPS

Elements(todo) == {todo[i] : i \in DOMAIN todo}
Ahead(t)       == Elements(thread[t].todo)

(* What may come after a step. *)
After(step) ==
  CASE step \in {"deliver", "tell"} -> {"close", "erase", "letGo", "confirm"}
    [] step = "close" -> {"erase"}
    [] step = "erase" -> {"letGo", "confirm"}
    [] step \in {"retryFinalization", "finalize", "retain", "letGo"} -> {"confirm"}
    [] step = "settle" -> {"reopen"}
    [] OTHER -> {}

InOrder(todo) == \A i, j \in DOMAIN todo : i < j => todo[j] \in After(todo[i])

-----------------------------------------------------------------------------
(* Lists of steps.                                                            *)

LEMMA NothingComesTwice ==
  \A step \in Steps : step \notin After(step)
BY DEF Steps, After

LEMMA EmptyList ==
  ASSUME NEW s \in Seq(Steps)
  PROVE  s = <<>> <=> Elements(s) = {}
<1>1. CASE s = <<>>
  BY <1>1 DEF Elements
<1>2. CASE s # <<>>
  <2>1. 1 \in DOMAIN s
    BY <1>2
  <2>2. s[1] \in Elements(s)
    BY <2>1 DEF Elements
  <2>3. QED
    BY <1>2, <2>2
<1>3. QED
  BY <1>1, <1>2

LEMMA RestOfList ==
  ASSUME NEW s \in Seq(Steps), s # <<>>, InOrder(s)
  PROVE  /\ Tail(s) \in Seq(Steps) /\ InOrder(Tail(s))
         /\ Head(s) \in Steps /\ Head(s) \in Elements(s)
         /\ Elements(Tail(s)) = Elements(s) \ {Head(s)}
         /\ Elements(Tail(s)) \subseteq After(Head(s))
         /\ Tail(s) = <<>> <=> Elements(Tail(s)) = {}
<1>1. /\ Tail(s) \in Seq(Steps) /\ Len(Tail(s)) = Len(s) - 1 /\ Len(s) \in Nat \ {0}
      /\ \A i \in 1 .. Len(s) - 1 : Tail(s)[i] = s[i + 1]
      /\ DOMAIN s = 1 .. Len(s) /\ DOMAIN Tail(s) = 1 .. Len(s) - 1
      /\ Head(s) = s[1] /\ \A i \in 1 .. Len(s) : s[i] \in Steps
  OBVIOUS
<1>2. InOrder(Tail(s))
  BY <1>1 DEF InOrder
<1>3. \A i \in 1 .. Len(s) - 1 : Tail(s)[i] \in After(Head(s)) /\ Tail(s)[i] # Head(s)
  <2> SUFFICES ASSUME NEW i \in 1 .. Len(s) - 1
               PROVE  Tail(s)[i] \in After(Head(s)) /\ Tail(s)[i] # Head(s)
    OBVIOUS
  <2>1. 1 \in DOMAIN s /\ i + 1 \in DOMAIN s /\ 1 < i + 1
    BY <1>1
  <2>2. s[i + 1] \in After(s[1])
    BY <2>1 DEF InOrder
  <2>3. QED
    BY <1>1, <2>2, NothingComesTwice
<1>4. Head(s) \in Elements(s)
  BY <1>1 DEF Elements
<1>5. ASSUME NEW x PROVE x \in Elements(Tail(s)) <=> x \in Elements(s) \ {Head(s)}
  <2>1. ASSUME x \in Elements(Tail(s)) PROVE x \in Elements(s) \ {Head(s)}
    BY <1>1, <1>3, <2>1 DEF Elements
  <2>2. ASSUME x \in Elements(s), x # Head(s) PROVE x \in Elements(Tail(s))
    <3>1. PICK i \in 1 .. Len(s) : x = s[i]
      BY <1>1, <2>2 DEF Elements
    <3>2. i - 1 \in 1 .. Len(s) - 1 /\ Tail(s)[i - 1] = x
      BY <1>1, <2>2, <3>1
    <3>3. QED
      BY <1>1, <3>2 DEF Elements
  <2>3. QED
    BY <2>1, <2>2
<1>6. /\ Elements(Tail(s)) \subseteq After(Head(s))
      /\ Elements(Tail(s)) = Elements(s) \ {Head(s)}
  <2>1. Elements(Tail(s)) = Elements(s) \ {Head(s)}
    BY <1>5
  <2>2. \A x \in Elements(Tail(s)) : x \in After(Head(s))
    BY <1>1, <1>3 DEF Elements
  <2>3. QED
    BY <2>1, <2>2
<1>7. Tail(s) = <<>> <=> Elements(Tail(s)) = {}
  BY <1>1, EmptyList
<1>8. QED
  BY <1>1, <1>2, <1>4, <1>6, <1>7

LEMMA JoinedLists ==
  ASSUME NEW a \in Seq(Steps), NEW b \in Seq(Steps), InOrder(a), InOrder(b),
         \A x \in Elements(a) : Elements(b) \subseteq After(x)
  PROVE  /\ a \o b \in Seq(Steps) /\ InOrder(a \o b)
         /\ Elements(a \o b) = Elements(a) \cup Elements(b)
         /\ a \o b = <<>> <=> Elements(a \o b) = {}
<1>1. /\ a \o b \in Seq(Steps) /\ Len(a \o b) = Len(a) + Len(b)
      /\ Len(a) \in Nat /\ Len(b) \in Nat
      /\ \A i \in 1 .. Len(a) + Len(b) : (a \o b)[i] = IF i <= Len(a) THEN a[i] ELSE b[i - Len(a)]
      /\ DOMAIN a = 1 .. Len(a) /\ DOMAIN b = 1 .. Len(b) /\ DOMAIN (a \o b) = 1 .. Len(a) + Len(b)
  OBVIOUS
<1>2. InOrder(a \o b)
  <2> SUFFICES ASSUME NEW i \in 1 .. Len(a) + Len(b), NEW j \in 1 .. Len(a) + Len(b), i < j
               PROVE  (a \o b)[j] \in After((a \o b)[i])
    BY <1>1 DEF InOrder
  <2>1. CASE j <= Len(a)
    BY <1>1, <2>1 DEF InOrder
  <2>2. CASE i > Len(a)
    <3>1. i - Len(a) \in DOMAIN b /\ j - Len(a) \in DOMAIN b /\ i - Len(a) < j - Len(a)
      BY <1>1, <2>2
    <3>2. b[j - Len(a)] \in After(b[i - Len(a)])
      BY <3>1 DEF InOrder
    <3>3. QED
      BY <1>1, <2>2, <3>2
  <2>3. CASE i <= Len(a) /\ j > Len(a)
    <3>1. a[i] \in Elements(a) /\ b[j - Len(a)] \in Elements(b)
      BY <1>1, <2>3 DEF Elements
    <3>2. QED
      BY <1>1, <2>3, <3>1
  <2>4. QED
    BY <1>1, <2>1, <2>2, <2>3
<1>3. ASSUME NEW x PROVE x \in Elements(a \o b) <=> x \in Elements(a) \cup Elements(b)
  <2>1. ASSUME x \in Elements(a \o b) PROVE x \in Elements(a) \cup Elements(b)
    <3>1. PICK i \in 1 .. Len(a) + Len(b) : x = (a \o b)[i]
      BY <1>1, <2>1 DEF Elements
    <3>2. CASE i <= Len(a)
      BY <1>1, <3>1, <3>2 DEF Elements
    <3>3. CASE i > Len(a)
      <4>1. i - Len(a) \in 1 .. Len(b)
        BY <1>1, <3>3
      <4>2. QED
        BY <1>1, <3>1, <3>3, <4>1 DEF Elements
    <3>4. QED
      BY <1>1, <3>2, <3>3
  <2>2. ASSUME x \in Elements(a) PROVE x \in Elements(a \o b)
    <3>1. PICK i \in 1 .. Len(a) : x = a[i]
      BY <1>1, <2>2 DEF Elements
    <3>2. (a \o b)[i] = x /\ i \in 1 .. Len(a) + Len(b)
      BY <1>1, <3>1
    <3>3. QED
      BY <1>1, <3>2 DEF Elements
  <2>3. ASSUME x \in Elements(b) PROVE x \in Elements(a \o b)
    <3>1. PICK i \in 1 .. Len(b) : x = b[i]
      BY <1>1, <2>3 DEF Elements
    <3>2. (a \o b)[i + Len(a)] = x /\ i + Len(a) \in 1 .. Len(a) + Len(b)
      BY <1>1, <3>1
    <3>3. QED
      BY <1>1, <3>2 DEF Elements
  <2>4. QED
    BY <2>1, <2>2, <2>3
<1>4. a \o b = <<>> <=> Elements(a \o b) = {}
  BY <1>1, EmptyList
<1>5. Elements(a \o b) = Elements(a) \cup Elements(b)
  BY <1>3
<1>6. QED
  BY <1>1, <1>2, <1>4, <1>5

LEMMA ShortLists ==
  /\ <<>> \in Seq(Steps) /\ InOrder(<<>>) /\ Elements(<<>>) = {}
  /\ \A x \in Steps : <<x>> \in Seq(Steps) /\ InOrder(<<x>>) /\ Elements(<<x>>) = {x} /\ <<x>> # <<>>
  /\ \A x, y \in Steps : y \in After(x) =>
       <<x, y>> \in Seq(Steps) /\ InOrder(<<x, y>>) /\ Elements(<<x, y>>) = {x, y} /\ <<x, y>> # <<>>
  /\ \A x, y, z \in Steps : y \in After(x) /\ z \in After(x) /\ z \in After(y) =>
       <<x, y, z>> \in Seq(Steps) /\ InOrder(<<x, y, z>>) /\ Elements(<<x, y, z>>) = {x, y, z} /\ <<x, y, z>> # <<>>
<1>1. <<>> \in Seq(Steps) /\ InOrder(<<>>) /\ Elements(<<>>) = {}
  BY DEF InOrder, Elements
<1>2. ASSUME NEW x \in Steps PROVE <<x>> \in Seq(Steps) /\ InOrder(<<x>>) /\ Elements(<<x>>) = {x} /\ <<x>> # <<>>
  BY DEF InOrder, Elements
<1>3. ASSUME NEW x \in Steps, NEW y \in Steps, y \in After(x)
      PROVE  <<x, y>> \in Seq(Steps) /\ InOrder(<<x, y>>) /\ Elements(<<x, y>>) = {x, y} /\ <<x, y>> # <<>>
  BY <1>3 DEF InOrder, Elements
<1>4. ASSUME NEW x \in Steps, NEW y \in Steps, NEW z \in Steps, y \in After(x), z \in After(x), z \in After(y)
      PROVE  <<x, y, z>> \in Seq(Steps) /\ InOrder(<<x, y, z>>) /\ Elements(<<x, y, z>>) = {x, y, z} /\ <<x, y, z>> # <<>>
  BY <1>4 DEF InOrder, Elements
<1>5. QED
  BY <1>1, <1>2, <1>3, <1>4

-----------------------------------------------------------------------------
(* Threads.  What a thread is at and still has to do, and what it may be.     *)

SubmitSteps  == {"admit", "admitted", "reserved", "abandon", "arm", "armed", "enqueue", "commit"}
RecoverSteps == {"reopen", "reconcile"}
PoolSteps    == {"retryFinalization", "finalize", "retain", "letGo"}
FinalSteps   == {"finalize", "retain", "letGo"}
EndSteps     == {"deliver", "tell", "close", "erase", "letGo", "confirm"}

CallResults == {Unknown, "InProgress", "NotFinalizing", "Retained", "Released"}
CallStates  == [plan : Plans \cup {Unknown}, todo : Seq(Steps), result : CallResults]
ThreadsTyped == thread \in [Threads -> CallStates]

(* A thread that may have the steps in `todo` on behalf of p. *)
MayHave(t, p, todo) ==
  /\ SubmitSteps \cap todo # {} => t = Submitter(p)
  /\ "settle" \in todo => t = Submitter(p) \/ t \in Recovering
  /\ RecoverSteps \cap todo # {} => t \in Recovering

ThreadsOK ==
  \A t \in Threads :
    /\ InOrder(thread[t].todo)
    /\ thread[t].todo = <<>> => thread[t] = Idle
    /\ thread[t].todo # <<>> => Plan(t) \in Plans /\ MayHave(t, Plan(t), Ahead(t))
    /\ thread[t].todo # <<>> => \A p \in Plans : t \in {Submitter(p), Worker(p)} => Plan(t) = p

(* Thread t has the steps in `todo` left of what it does for p; the others are *)
(* as they were.                                                              *)
LeftWith(t, p, todo) ==
  /\ \A u \in Threads : u # t => thread'[u] = thread[u]
  /\ Elements(thread'[t].todo) = todo
  /\ thread'[t].todo = <<>> <=> todo = {}
  /\ IF todo = {} THEN thread'[t] = Idle /\ thread'[t].result = Unknown ELSE thread'[t].plan = p

(* Thread t was at step and has only steps that may come after it besides. *)
IsAt(t, p, step) ==
  /\ p = Plan(t) /\ p \in Plans
  /\ thread[t].todo # <<>> /\ thread[t] # Idle
  /\ step \in Ahead(t) /\ Ahead(t) \subseteq {step} \cup After(step)
  /\ MayHave(t, p, Ahead(t))
  /\ Elements(Rest(t)) = Ahead(t) \ {step} /\ Rest(t) \in Seq(Steps) /\ InOrder(Rest(t))
  /\ \A q \in Plans : t \in {Submitter(q), Worker(q)} => q = p

LEMMA ThreadNames ==
  /\ \A p, q \in Plans : Submitter(p) # Worker(q) /\ (Submitter(p) = Submitter(q) => p = q)
                         /\ (Worker(p) = Worker(q) => p = q)
  /\ \A p \in Plans : Submitter(p) \in Threads /\ Worker(p) \in Threads
                      /\ Submitter(p) \notin Recovering \cup Releasing
                      /\ Worker(p) \notin Recovering \cup Releasing
  /\ Recovering \subseteq Threads /\ Releasing \subseteq Threads /\ Recovering \cap Releasing = {}
BY DEF Submitter, Worker, Recovering, Releasing, Threads

LEMMA IdleIsEmpty ==
  /\ Idle \in CallStates /\ Idle.plan = Unknown /\ Idle.todo = <<>> /\ Idle.result = Unknown
  /\ Elements(Idle.todo) = {}
BY ShortLists DEF Idle, CallStates, CallResults

LEMMA AtStep ==
  ASSUME ThreadsTyped, ThreadsOK, NEW t \in Threads, NEW step \in Steps, At(t, step)
  PROVE  IsAt(t, Plan(t), step)
<1>1. thread[t] \in CallStates
  BY DEF ThreadsTyped
<1>2. thread[t].todo \in Seq(Steps) /\ thread[t].todo # <<>> /\ Head(thread[t].todo) = step
  BY <1>1 DEF CallStates, At
<1>3. InOrder(thread[t].todo) /\ Plan(t) \in Plans /\ MayHave(t, Plan(t), Ahead(t))
      /\ \A p \in Plans : t \in {Submitter(p), Worker(p)} => Plan(t) = p
  BY <1>2 DEF ThreadsOK
<1>4. /\ Rest(t) \in Seq(Steps) /\ InOrder(Rest(t))
      /\ step \in Ahead(t)
      /\ Elements(Rest(t)) = Ahead(t) \ {step} /\ Elements(Rest(t)) \subseteq After(step)
  BY <1>2, <1>3, RestOfList DEF Rest, Ahead
<1>5. thread[t] # Idle
  BY <1>2, IdleIsEmpty
<1>6. QED
  BY <1>2, <1>3, <1>4, <1>5 DEF IsAt

(* A thread that is given a new list. *)
Becomes(t, new) == thread' = [thread EXCEPT ![t] = new]

MayBecome(t, p, new) ==
  /\ new \in CallStates /\ InOrder(new.todo)
  /\ new.todo = <<>> => new = Idle
  /\ new.todo # <<>> => /\ new.plan = p /\ MayHave(t, p, Elements(new.todo))
                        /\ \A q \in Plans : t \in {Submitter(q), Worker(q)} => p = q

LEMMA ListGiven ==
  ASSUME ThreadsTyped, ThreadsOK, NEW t \in Threads, NEW p \in Plans,
         NEW new, MayBecome(t, p, new), Becomes(t, new)
  PROVE  ThreadsTyped' /\ ThreadsOK' /\ LeftWith(t, p, Elements(new.todo)) /\ thread'[t] = new
<1>1. /\ thread' \in [Threads -> CallStates]
      /\ thread'[t] = new
      /\ \A u \in Threads : u # t => thread'[u] = thread[u]
  BY DEF ThreadsTyped, MayBecome, Becomes
<1>2. ThreadsTyped'
  BY <1>1 DEF ThreadsTyped
<1>3. new.todo \in Seq(Steps)
  BY DEF MayBecome, CallStates
<1>4. new.todo = <<>> <=> Elements(new.todo) = {}
  BY <1>3, EmptyList
<1>5. LeftWith(t, p, Elements(new.todo))
  BY <1>1, <1>4, IdleIsEmpty DEF LeftWith, MayBecome
<1>6. ThreadsOK'
  <2> SUFFICES ASSUME NEW u \in Threads
               PROVE  /\ InOrder(thread'[u].todo)
                      /\ thread'[u].todo = <<>> => thread'[u] = Idle
                      /\ thread'[u].todo # <<>> =>
                           thread'[u].plan \in Plans /\ MayHave(u, thread'[u].plan, Elements(thread'[u].todo))
                      /\ thread'[u].todo # <<>> =>
                           \A q \in Plans : u \in {Submitter(q), Worker(q)} => thread'[u].plan = q
    BY DEF ThreadsOK, Plan, Ahead
  <2>1. CASE u = t
    BY <1>1, <2>1 DEF MayBecome
  <2>2. CASE u # t
    <3>1. thread'[u] = thread[u]
      BY <1>1, <2>2
    <3>2. QED
      BY <3>1 DEF ThreadsOK, Plan, Ahead
  <2>3. QED
    BY <2>1, <2>2
<1>7. QED
  BY <1>1, <1>2, <1>5, <1>6

LEMMA StepDone ==
  ASSUME ThreadsTyped, ThreadsOK, NEW t \in Threads, NEW step \in Steps, At(t, step),
         NEW todo \in Seq(Steps), InOrder(todo), \A x \in Elements(todo) : After(step) \subseteq After(x),
         MayHave(t, Plan(t), Elements(todo)),
         Does(t, todo)
  PROVE  /\ ThreadsTyped' /\ ThreadsOK'
         /\ LeftWith(t, Plan(t), Elements(todo) \cup (Ahead(t) \ {step}))
         /\ thread'[t].result \in {Unknown, thread[t].result}
<1> DEFINE all == todo \o Rest(t)
           new == IF all = <<>> THEN Idle ELSE [thread[t] EXCEPT !.todo = all]
<1>1. IsAt(t, Plan(t), step)
  BY AtStep
<1>2. \A x \in Elements(todo) : Elements(Rest(t)) \subseteq After(x)
  BY <1>1 DEF IsAt
<1>3. /\ all \in Seq(Steps) /\ InOrder(all)
      /\ Elements(all) = Elements(todo) \cup (Ahead(t) \ {step})
  BY <1>1, <1>2, JoinedLists DEF IsAt
<1>4. MayHave(t, Plan(t), Elements(all))
  BY <1>1, <1>3 DEF IsAt, MayHave
<1>5. Becomes(t, new)
  BY DEF Does, Continues, Becomes
<1>6. thread[t] \in CallStates
  BY DEF ThreadsTyped
<1> HIDE DEF all
<1>7. /\ new \in CallStates /\ new.todo = all
      /\ all = <<>> => new = Idle
      /\ all # <<>> => new.plan = Plan(t) /\ new.result = thread[t].result
  BY <1>3, <1>6, IdleIsEmpty DEF CallStates, Plan
<1> HIDE DEF new
<1>8. MayBecome(t, Plan(t), new)
  BY <1>1, <1>3, <1>4, <1>7 DEF MayBecome, IsAt
<1>9. ThreadsTyped' /\ ThreadsOK' /\ LeftWith(t, Plan(t), Elements(new.todo)) /\ thread'[t] = new
  BY <1>1, <1>5, <1>8, ListGiven DEF IsAt
<1>10. new.result \in {Unknown, thread[t].result}
  BY <1>7, IdleIsEmpty
<1>11. QED
  BY <1>3, <1>7, <1>9, <1>10

LEMMA CallEnded ==
  ASSUME ThreadsTyped, ThreadsOK, NEW t \in Threads, thread[t].todo # <<>>, Ends(t)
  PROVE  /\ ThreadsTyped' /\ ThreadsOK' /\ LeftWith(t, Plan(t), {})
         /\ thread'[t].result \in {Unknown, thread[t].result}
<1>1. Plan(t) \in Plans
  BY DEF ThreadsOK
<1>2. MayBecome(t, Plan(t), Idle)
  BY IdleIsEmpty, ShortLists DEF MayBecome
<1>3. Becomes(t, Idle)
  BY DEF Ends, Becomes
<1>4. ThreadsTyped' /\ ThreadsOK' /\ LeftWith(t, Plan(t), Elements(Idle.todo)) /\ thread'[t] = Idle
  BY <1>1, <1>2, <1>3, ListGiven
<1>5. QED
  BY <1>4, IdleIsEmpty

(* The steps after this one are given up for others. *)
LEMMA CallContinued ==
  ASSUME ThreadsTyped, ThreadsOK, NEW t \in Threads, thread[t].todo # <<>>,
         NEW todo \in Seq(Steps), todo # <<>>, InOrder(todo), MayHave(t, Plan(t), Elements(todo)),
         Continues(t, todo)
  PROVE  /\ ThreadsTyped' /\ ThreadsOK' /\ LeftWith(t, Plan(t), Elements(todo))
         /\ thread'[t].result \in {Unknown, thread[t].result}
<1> DEFINE new == [thread[t] EXCEPT !.todo = todo]
<1>1. /\ Plan(t) \in Plans
      /\ \A q \in Plans : t \in {Submitter(q), Worker(q)} => Plan(t) = q
  BY DEF ThreadsOK
<1>2. thread[t] \in CallStates
  BY DEF ThreadsTyped
<1>3. new \in CallStates /\ new.todo = todo /\ new.plan = Plan(t) /\ new.result = thread[t].result
  BY <1>2 DEF CallStates, Plan
<1>4. Becomes(t, new)
  BY DEF Continues, Becomes
<1> HIDE DEF new
<1>5. MayBecome(t, Plan(t), new)
  BY <1>1, <1>3 DEF MayBecome
<1>6. ThreadsTyped' /\ ThreadsOK' /\ LeftWith(t, Plan(t), Elements(new.todo)) /\ thread'[t] = new
  BY <1>1, <1>4, <1>5, ListGiven
<1>7. QED
  BY <1>3, <1>6

LEMMA CallReported ==
  ASSUME ThreadsTyped, ThreadsOK, NEW t \in Threads, NEW step \in Steps, At(t, step),
         NEW result \in CallResults, Reports(t, result)
  PROVE  /\ ThreadsTyped' /\ ThreadsOK'
         /\ LeftWith(t, Plan(t), Ahead(t) \ {step})
         /\ thread'[t].result \in {Unknown, result}
<1> DEFINE rest == Rest(t)
           new == IF rest = <<>> THEN Idle ELSE [thread[t] EXCEPT !.todo = rest, !.result = result]
<1>1. IsAt(t, Plan(t), step)
  BY AtStep
<1>2. rest \in Seq(Steps) /\ InOrder(rest) /\ Elements(rest) = Ahead(t) \ {step}
  BY <1>1 DEF IsAt
<1>3. MayHave(t, Plan(t), Elements(rest))
  BY <1>1, <1>2 DEF IsAt, MayHave
<1>4. Becomes(t, new)
  BY DEF Reports, Becomes
<1>5. thread[t] \in CallStates
  BY DEF ThreadsTyped
<1> HIDE DEF rest
<1>6. /\ new \in CallStates /\ new.todo = rest
      /\ rest = <<>> => new = Idle
      /\ rest # <<>> => new.plan = Plan(t) /\ new.result = result
  <2>1. CASE rest = <<>>
    BY <2>1, IdleIsEmpty
  <2>2. CASE rest # <<>>
    BY <1>2, <1>5, <2>2 DEF CallStates, Plan
  <2>3. QED
    BY <2>1, <2>2
<1> HIDE DEF new
<1>7. MayBecome(t, Plan(t), new)
  BY <1>1, <1>2, <1>3, <1>6 DEF MayBecome, IsAt
<1>8. ThreadsTyped' /\ ThreadsOK' /\ LeftWith(t, Plan(t), Elements(new.todo)) /\ thread'[t] = new
  BY <1>1, <1>4, <1>7, ListGiven DEF IsAt
<1>9. new.result \in {Unknown, result}
  BY <1>6, IdleIsEmpty
<1>10. QED
  BY <1>2, <1>6, <1>8, <1>9

LEMMA CallBegun ==
  ASSUME ThreadsTyped, ThreadsOK, NEW t \in Threads, NEW p \in Plans,
         NEW todo \in Seq(Steps), todo # <<>>, InOrder(todo), MayHave(t, p, Elements(todo)),
         \A q \in Plans : t \in {Submitter(q), Worker(q)} => p = q,
         Begins(t, p, todo)
  PROVE  /\ ThreadsTyped' /\ ThreadsOK' /\ LeftWith(t, p, Elements(todo))
         /\ thread[t] = Idle /\ Ahead(t) = {}
         /\ thread'[t].result = Unknown
<1> DEFINE new == [Idle EXCEPT !.plan = p, !.todo = todo]
<1>1. thread[t] = Idle /\ Ahead(t) = {}
  BY IdleIsEmpty DEF Begins, Ahead
<1>2. new \in CallStates /\ new.todo = todo /\ new.plan = p /\ new.result = Unknown
  BY DEF Idle, CallStates, CallResults
<1>3. Becomes(t, new)
  BY DEF Begins, Becomes
<1> HIDE DEF new
<1>4. MayBecome(t, p, new)
  BY <1>2 DEF MayBecome
<1>5. ThreadsTyped' /\ ThreadsOK' /\ LeftWith(t, p, Elements(new.todo)) /\ thread'[t] = new
  BY <1>3, <1>4, ListGiven
<1>6. QED
  BY <1>1, <1>2, <1>5

-----------------------------------------------------------------------------
(* The entries and the slots.                                                 *)

EntryStates == {"None", "Admitted", "Running", "Interrupted"} \cup Terminal
SlotStates ==
  [phase : Phases, receipt : BOOLEAN, journal : BOOLEAN, evidence : Terminal \cup {Unknown},
   status : {Unknown, "TerminalConfirmed", "InterruptedConfirmed"},
   poolOwned : BOOLEAN, latched : BOOLEAN, delivered : BOOLEAN]

LEMMA SlotIsSet ==
  ASSUME slot \in [Plans -> SlotStates], NEW p \in Plans, NEW s \in SlotStates, SetSlot(p, s)
  PROVE  /\ slot' \in [Plans -> SlotStates] /\ slot'[p] = s
         /\ \A q \in Plans : q # p => slot'[q] = slot[q]
BY DEF SetSlot

(* A mutation changes the entry of its plan, if any, and only as it was asked. *)
Mutated(p, state, result) ==
  /\ entry' \in [Plans -> EntryStates]
  /\ journal \in {"open", "poisoned"} /\ journal' \in {"open", "poisoned"}
  /\ \A q \in Plans : q # p => entry'[q] = entry[q]
  /\ entry'[p] \in {entry[p], state}
  /\ result = "ok" => entry'[p] = state
  /\ result \in {"refused", "unusable"} => entry' = entry

LEMMA MutationIs ==
  ASSUME entry \in [Plans -> EntryStates], NEW p \in Plans, NEW state \in EntryStates,
         NEW result \in Results, Mutation(p, state, result)
  PROVE  Mutated(p, state, result)
<1>1. CASE result = "ok"
  BY <1>1 DEF Mutation, Mutated
<1>2. CASE result = "refused"
  BY <1>2 DEF Mutation, Mutated
<1>3. CASE result = "unusable"
  BY <1>3 DEF Mutation, Mutated
<1>4. CASE result = "uncertain"
  <2>1. journal = "open" /\ journal' = "poisoned" /\ entry' \in {entry, [entry EXCEPT ![p] = state]}
    BY <1>4 DEF Mutation
  <2>2. QED
    BY <1>4, <2>1 DEF Mutated
<1>5. QED
  BY <1>1, <1>2, <1>3, <1>4 DEF Results

-----------------------------------------------------------------------------
(* The inductive invariant.                                                   *)

Has(t, steps)     == \E step \in steps : step \in Ahead(t)
Submits(p, steps) == Has(Submitter(p), steps)

(* The journal has recorded how the plan ended, and the slot says the same. *)
IsSettled(p) == Recorded(entry[p]) # Unknown /\ Outcome(slot[p]) = entry[p]

Types ==
  /\ entry \in [Plans -> EntryStates]
  /\ journal \in {"open", "poisoned", "none"}
  /\ slot \in [Plans -> SlotStates]
  /\ slots \subseteq Plans /\ IsFiniteSet(slots) /\ Cardinality(slots) <= MaxPendingSlots
  /\ pool \in [Plans -> {"out", "listed", "finalizing", "busy", "gone"}]
  /\ poolAlive \in BOOLEAN
  /\ ThreadsTyped
  /\ told \in [Plans -> Seq(Terminal \cup {"Interrupted"})]
  /\ completed \subseteq Plans

(* How far a submission is, the journal, the slot and the pool agree on. *)
SubmissionOf(t) ==
  LET p == Plan(t)
  IN  /\ Has(t, {"admit"}) => entry[p] = "None"
      /\ Has(t, {"admitted", "reserved"}) => entry[p] = "Admitted"
      /\ Has(t, {"abandon"}) => entry[p] \in {"Admitted", "Running"}
      /\ Has(t, {"arm"}) => entry[p] = "Running"
      /\ Has(t, {"reserved", "abandon", "arm"}) => Phase(p) = "Reserved" /\ p \in slots /\ slot[p].journal
      /\ Has(t, {"enqueue"}) => Phase(p) = "EnqueueInProgress"
      /\ Has(t, SubmitSteps \ {"commit"}) => pool[p] = "out"
      /\ Has(t, {"commit"}) => pool[p] # "out"
      /\ Has(t, {"settle"}) => slot[p].evidence # Unknown /\ entry[p] \notin {"None", "Admitted"}

(* Work in custody is running, and what the slot has been told is recorded. *)
SlotOK(p) ==
  /\ slot[p].receipt <=> Phase(p) \in Custodial
  /\ slot[p].receipt => entry[p] = "Running" /\ p \in slots /\ slot[p].journal
  /\ Phase(p) \in Answered => slot[p].evidence # Unknown
  /\ Phase(p) \in {"Reconciled", "ReleaseInProgress"} => slot[p].status # Unknown /\ ~Submitting(p)
  /\ Phase(p) \notin {"Reconciled", "ReleaseInProgress", "Released"} => slot[p].status = Unknown
  /\ Phase(p) \in AlreadyConfirmed \/ slot[p].delivered => IsSettled(p)

(* Where the pool has the operation, as far as the slot can know. *)
Leaving(p) == \E t \in Threads : Plan(t) = p /\ Has(t, {"letGo"})

ResidenceOK(p) ==
  /\ entry[p] = "None" => pool[p] = "out"
  /\ Phase(p) \in {"Armed", "RetryRequired"} => pool[p] = "out"
  /\ Phase(p) = "EnqueueInProgress" => Submits(p, {"enqueue", "commit"})
  /\ Phase(p) = "PoolOwned" => slot[p].poolOwned
  /\ slot[p].poolOwned => pool[p] # "out"
  /\ Phase(p) \in {"ReconcileRequired", "Reconciled", "ReleaseInProgress"} =>
       /\ pool[p] # "listed"
       /\ pool[p] # "out" => slot[p].poolOwned \/ Submits(p, {"commit"})
  /\ Phase(p) = "Finalized" /\ pool[p] \notin {"out", "gone"} => Leaving(p)
  /\ Resident(p) /\ p \notin slots => Leaving(p)

(* The steps that end custody are taken only of what is recorded, without the *)
(* pool or by the one thread that finalizes for it.                           *)
EndingOf(t) ==
  LET p == Plan(t)
  IN  /\ Has(t, EndSteps) => IsSettled(p)
      /\ Has(t, {"close", "confirm"}) => ~Submitting(p)
      /\ Has(t, {"confirm"}) => pool[p] \notin {"out", "listed"}
      /\ thread[t].result \in {"Released", "NotFinalizing"} => pool[p] = "gone"
      /\ Has(t, {"deliver", "tell", "close"}) /\ ~Has(t, {"letGo"}) => pool[p] \in {"out", "gone"} \/ ~poolAlive
      /\ Has(t, {"erase"}) /\ ~Has(t, {"letGo"}) =>
           pool[p] \in {"out", "gone"} \/ ~poolAlive \/ Phase(p) = "Finalized"
      /\ Has(t, {"letGo"}) => \/ told[p] # <<>> \/ Has(t, {"tell"})
                              \/ Has(t, {"deliver"}) /\ ~slot[p].delivered /\ Confirmed(slot[p])
      /\ Has(t, FinalSteps) => pool[p] = "busy"
      /\ ~poolAlive => ~Has(t, PoolSteps)

(* Whoever takes the observer calls it. *)
TellingOf(t) == Has(t, {"tell"}) => slot[Plan(t)].delivered /\ told[Plan(t)] = <<>>

Telling(p) ==
  /\ told[p] # <<>> => slot[p].delivered
  /\ slot[p].delivered /\ told[p] = <<>> => \E t \in Threads : Plan(t) = p /\ Has(t, {"tell"})

(* One thread finalizes for the pool, and one calls the observer. *)
Alone ==
  \A t, u \in Threads : t # u /\ Plan(t) = Plan(u) =>
    /\ ~(Has(t, FinalSteps) /\ Has(u, FinalSteps))
    /\ ~(Has(t, {"tell"}) /\ Has(u, {"tell"}))

(* A journal that was given up was nobody's. *)
Sharing ==
  /\ journal = "none" => Holders = {}
  /\ \A t \in Threads : Has(t, {"reconcile"}) => \A p \in Plans : ~Submitting(p)

ThreadInv(t) == SubmissionOf(t) /\ EndingOf(t) /\ TellingOf(t)
PlanInv(p)   == SlotOK(p) /\ ResidenceOK(p) /\ Telling(p)

IInv ==
  /\ Types /\ ThreadsOK /\ Alone /\ Sharing
  /\ \A t \in Threads : ThreadInv(t)
  /\ \A p \in Plans : PlanInv(p)

-----------------------------------------------------------------------------
(* What a step of t for p leaves of the other threads, and of the other plans. *)
OnlyMoves(t, p) ==
  /\ \A u \in Threads : u # t => thread'[u] = thread[u]
  /\ \A q \in Plans : Submitter(q) # t => thread'[Submitter(q)] = thread[Submitter(q)]
  /\ \A q \in Plans : q # p => thread'[Submitter(q)] = thread[Submitter(q)]
  /\ thread[t] # Idle => \A q \in Plans : thread[Submitter(q)] = Idle => thread'[Submitter(q)] = Idle

OnlyChanges(p) ==
  /\ \A q \in Plans : q # p =>
       /\ slot'[q] = slot[q] /\ entry'[q] = entry[q] /\ pool'[q] = pool[q] /\ told'[q] = told[q]
       /\ q \in slots' <=> q \in slots
  /\ poolAlive' = poolAlive

LEMMA OneThreadMoves ==
  ASSUME NEW t \in Threads, NEW p \in Plans, NEW todo, LeftWith(t, p, todo),
         \A q \in Plans : t \in {Submitter(q), Worker(q)} => q = p
  PROVE  OnlyMoves(t, p)
BY ThreadNames DEF LeftWith, OnlyMoves

LEMMA BusyOrIdle ==
  ASSUME ThreadsTyped, ThreadsOK, NEW t \in Threads
  PROVE  \/ Plan(t) \in Plans /\ Ahead(t) # {} /\ thread[t] # Idle
         \/ thread[t] = Idle /\ Ahead(t) = {} /\ thread[t].result = Unknown
<1>1. thread[t].todo \in Seq(Steps)
  BY DEF ThreadsTyped, CallStates
<1>2. thread[t].todo = <<>> <=> Ahead(t) = {}
  BY <1>1, EmptyList DEF Ahead
<1>3. QED
  BY <1>2, IdleIsEmpty DEF ThreadsOK

(* Then only that thread, that plan and the threads of that plan can break the *)
(* invariant.                                                                 *)
LEMMA OneStep ==
  ASSUME IInv, Types', ThreadsOK', NEW t \in Threads, NEW p \in Plans, OnlyMoves(t, p), OnlyChanges(p),
         Plan(t) = p \/ Ahead(t) = {},
         \A u \in Threads : u = t \/ (Plan(u) = p /\ thread'[u] = thread[u]) => ThreadInv(u)',
         PlanInv(p)',
         Has(t, FinalSteps)' => Has(t, FinalSteps) \/ pool[p] # "busy",
         Has(t, {"tell"})' => Has(t, {"tell"}) \/ ~slot[p].delivered,
         Ahead(t)' # {} => Plan(t)' = p,
         Sharing'
  PROVE  IInv'
<1>1. \A u \in Threads : Plan(u) \in Plans \/ (Ahead(u) = {} /\ thread[u].result = Unknown)
  <2>1. ThreadsTyped /\ ThreadsOK
    BY DEF IInv, Types
  <2>2. QED
    BY <2>1, BusyOrIdle
<1>2. ASSUME NEW u \in Threads, u # t, Plan(u) # p PROVE ThreadInv(u)'
  <2>1. thread'[u] = thread[u]
    BY <1>2 DEF OnlyMoves
  <2>2. CASE Plan(u) \notin Plans
    <3>1. Ahead(u) = {} /\ thread[u].result = Unknown
      BY <1>1, <2>2
    <3>2. QED
      BY <2>1, <3>1 DEF ThreadInv, SubmissionOf, EndingOf, TellingOf, Has, Ahead, Unknown
  <2>3. CASE Plan(u) \in Plans
    <3>1. ThreadInv(u)
      BY DEF IInv
    <3>2. thread'[Submitter(Plan(u))] = thread[Submitter(Plan(u))]
      BY <1>2, <2>3 DEF OnlyMoves
    <3>3. SubmissionOf(u)'
      BY <1>2, <2>1, <2>3, <3>1 DEF ThreadInv, SubmissionOf, OnlyChanges, Has, Ahead, Plan, Phase
    <3>4. EndingOf(u)'
      BY <1>2, <2>1, <2>3, <3>1, <3>2 DEF ThreadInv, EndingOf, OnlyChanges, Has, Ahead, Plan, Phase,
                                          IsSettled, Submitting
    <3>5. TellingOf(u)'
      BY <1>2, <2>1, <2>3, <3>1 DEF ThreadInv, TellingOf, OnlyChanges, Has, Ahead, Plan
    <3>6. QED
      BY <3>3, <3>4, <3>5 DEF ThreadInv
  <2>4. QED
    BY <2>2, <2>3
<1>3. \A u \in Threads : ThreadInv(u)'
  <2>1. ASSUME NEW u \in Threads, u # t, Plan(u) = p PROVE thread'[u] = thread[u]
    BY <2>1 DEF OnlyMoves
  <2>2. QED
    BY <1>2, <2>1
<1>4. ASSUME NEW q \in Plans, q # p PROVE PlanInv(q)'
  <2>1. /\ slot'[q] = slot[q] /\ entry'[q] = entry[q] /\ pool'[q] = pool[q] /\ told'[q] = told[q]
        /\ q \in slots' <=> q \in slots
        /\ poolAlive' = poolAlive
        /\ thread'[Submitter(q)] = thread[Submitter(q)]
    BY <1>4 DEF OnlyChanges, OnlyMoves
  <2>2. PlanInv(q)
    BY DEF IInv
  <2>3. ASSUME NEW u \in Threads, Plan(u) = q, NEW steps, Has(u, steps)
        PROVE  thread'[u] = thread[u]
    <3>1. u # t
      BY <1>4, <2>3 DEF Has
    <3>2. QED
      BY <3>1 DEF OnlyMoves
  <2>4. SlotOK(q)'
    BY <2>1, <2>2 DEF PlanInv, SlotOK, Phase, IsSettled, Submitting
  <2>5. Leaving(q) => Leaving(q)'
    BY <2>3 DEF Leaving, Plan, Has, Ahead
  <2>6. ResidenceOK(q)'
    BY <2>1, <2>2, <2>5 DEF PlanInv, ResidenceOK, Phase, Submits, Has, Ahead, Resident
  <2>7. Telling(q)'
    <3>1. \A u \in Threads : Plan(u) = q /\ Has(u, {"tell"}) => (Plan(u) = q /\ Has(u, {"tell"}))'
      BY <2>3 DEF Plan, Has, Ahead
    <3>2. QED
      BY <2>1, <2>2, <3>1 DEF PlanInv, Telling
  <2>8. QED
    BY <2>4, <2>6, <2>7 DEF PlanInv
<1>5. Alone'
  <2> SUFFICES ASSUME NEW u \in Threads, NEW v \in Threads, u # v, Plan(u)' = Plan(v)'
               PROVE  /\ ~(Has(u, FinalSteps)' /\ Has(v, FinalSteps)')
                      /\ ~(Has(u, {"tell"})' /\ Has(v, {"tell"})')
    BY DEF Alone
  <2>1. CASE u # t /\ v # t
    <3>1. thread'[u] = thread[u] /\ thread'[v] = thread[v]
      BY <2>1 DEF OnlyMoves
    <3>2. QED
      BY <3>1 DEF IInv, Alone, Plan, Has, Ahead
  <2>2. ASSUME NEW w \in Threads, w # t, Plan(w)' = Plan(t)'
        PROVE  /\ ~(Has(t, FinalSteps)' /\ Has(w, FinalSteps)')
               /\ ~(Has(t, {"tell"})' /\ Has(w, {"tell"})')
    <3>1. thread'[w] = thread[w]
      BY <2>2 DEF OnlyMoves
    <3>2. ThreadInv(w)
      BY DEF IInv
    <3>3. Ahead(t)' # {} => Plan(w) = p
      BY <2>2, <3>1 DEF Plan
    <3>4. ASSUME Has(t, FinalSteps)', Has(w, FinalSteps)' PROVE FALSE
      <4>1. Has(w, FinalSteps) /\ Plan(w) = p
        BY <3>1, <3>3, <3>4 DEF Has, Ahead
      <4>2. pool[p] = "busy"
        BY <3>2, <4>1 DEF ThreadInv, EndingOf
      <4>3. Has(t, FinalSteps)
        BY <3>4, <4>2
      <4>4. Plan(t) = p
        BY <4>3 DEF Has
      <4>5. QED
        BY <2>2, <4>1, <4>3, <4>4 DEF IInv, Alone
    <3>5. ASSUME Has(t, {"tell"})', Has(w, {"tell"})' PROVE FALSE
      <4>1. Has(w, {"tell"}) /\ Plan(w) = p
        BY <3>1, <3>3, <3>5 DEF Has, Ahead
      <4>2. slot[p].delivered
        BY <3>2, <4>1 DEF ThreadInv, TellingOf
      <4>3. Has(t, {"tell"})
        BY <3>5, <4>2
      <4>4. Plan(t) = p
        BY <4>3 DEF Has
      <4>5. QED
        BY <2>2, <4>1, <4>3, <4>4 DEF IInv, Alone
    <3>6. QED
      BY <3>4, <3>5
  <2>3. QED
    BY <2>1, <2>2
<1>6. QED
  BY <1>3, <1>4, <1>5 DEF IInv
-----------------------------------------------------------------------------
(* A step of a thread, as the other lemmas want it.                           *)
Stepped(t, p, step, todo) ==
  /\ IsAt(t, p, step) /\ ThreadsTyped' /\ ThreadsOK'
  /\ LeftWith(t, p, todo) /\ OnlyMoves(t, p)

LEMMA DoesSteps ==
  ASSUME IInv, NEW t \in Threads, NEW step \in Steps, At(t, step),
         NEW todo \in Seq(Steps), InOrder(todo), \A x \in Elements(todo) : After(step) \subseteq After(x),
         Elements(todo) \cap (SubmitSteps \cup {"settle"}) # {} => step \in SubmitSteps,
         Elements(todo) \cap RecoverSteps # {} => step \in RecoverSteps,
         Does(t, todo)
  PROVE  /\ Stepped(t, Plan(t), step, Elements(todo) \cup (Ahead(t) \ {step}))
         /\ thread'[t].result \in {Unknown, thread[t].result}
<1>1. ThreadsTyped /\ ThreadsOK
  BY DEF IInv, Types
<1>2. IsAt(t, Plan(t), step)
  BY <1>1, AtStep
<1>3. MayHave(t, Plan(t), Elements(todo))
  BY <1>2 DEF IsAt, MayHave
<1>4. /\ ThreadsTyped' /\ ThreadsOK'
      /\ LeftWith(t, Plan(t), Elements(todo) \cup (Ahead(t) \ {step}))
      /\ thread'[t].result \in {Unknown, thread[t].result}
  BY <1>1, <1>3, StepDone
<1>5. OnlyMoves(t, Plan(t))
  BY <1>2, <1>4, OneThreadMoves DEF IsAt
<1>6. QED
  BY <1>2, <1>4, <1>5 DEF Stepped

LEMMA ShortSteps ==
  ASSUME IInv, NEW t \in Threads, NEW step \in Steps, At(t, step)
  PROVE  /\ Does(t, <<>>) =>
              /\ Stepped(t, Plan(t), step, Ahead(t) \ {step})
              /\ thread'[t].result \in {Unknown, thread[t].result}
         /\ \A x \in Steps :
              /\ After(step) \subseteq After(x)
              /\ x \in SubmitSteps \cup {"settle"} => step \in SubmitSteps
              /\ x \in RecoverSteps => step \in RecoverSteps
              /\ Does(t, <<x>>)
              => /\ Stepped(t, Plan(t), step, {x} \cup (Ahead(t) \ {step}))
                 /\ thread'[t].result \in {Unknown, thread[t].result}
<1>1. ASSUME Does(t, <<>>)
      PROVE  /\ Stepped(t, Plan(t), step, Ahead(t) \ {step})
             /\ thread'[t].result \in {Unknown, thread[t].result}
  <2>1. /\ Stepped(t, Plan(t), step, {} \cup (Ahead(t) \ {step}))
        /\ thread'[t].result \in {Unknown, thread[t].result}
    BY <1>1, DoesSteps, ShortLists
  <2>2. QED
    BY <2>1
<1>2. ASSUME NEW x \in Steps, After(step) \subseteq After(x),
             x \in SubmitSteps \cup {"settle"} => step \in SubmitSteps,
             x \in RecoverSteps => step \in RecoverSteps,
             Does(t, <<x>>)
      PROVE  /\ Stepped(t, Plan(t), step, {x} \cup (Ahead(t) \ {step}))
             /\ thread'[t].result \in {Unknown, thread[t].result}
  <2>1. <<x>> \in Seq(Steps) /\ InOrder(<<x>>) /\ Elements(<<x>>) = {x}
    BY ShortLists
  <2>2. /\ Elements(<<x>>) \cap (SubmitSteps \cup {"settle"}) # {} => step \in SubmitSteps
        /\ Elements(<<x>>) \cap RecoverSteps # {} => step \in RecoverSteps
        /\ \A y \in Elements(<<x>>) : After(step) \subseteq After(y)
    BY <1>2, <2>1
  <2>3. /\ Stepped(t, Plan(t), step, Elements(<<x>>) \cup (Ahead(t) \ {step}))
        /\ thread'[t].result \in {Unknown, thread[t].result}
    BY <1>2, <2>1, <2>2, DoesSteps
  <2>4. QED
    BY <2>1, <2>3
<1>3. QED
  BY <1>1, <1>2

LEMMA EndSteps_ ==
  ASSUME IInv, NEW t \in Threads, NEW step \in Steps, At(t, step), Ends(t)
  PROVE  /\ Stepped(t, Plan(t), step, {})
         /\ thread'[t].result \in {Unknown, thread[t].result}
<1>1. ThreadsTyped /\ ThreadsOK
  BY DEF IInv, Types
<1>2. IsAt(t, Plan(t), step)
  BY <1>1, AtStep
<1>3. /\ ThreadsTyped' /\ ThreadsOK' /\ LeftWith(t, Plan(t), {})
      /\ thread'[t].result \in {Unknown, thread[t].result}
  BY <1>1, <1>2, CallEnded DEF IsAt
<1>4. OnlyMoves(t, Plan(t))
  BY <1>2, <1>3, OneThreadMoves DEF IsAt
<1>5. QED
  BY <1>2, <1>3, <1>4 DEF Stepped

(* A step that is ahead of some thread of a plan still is. *)
LEMMA StillAhead ==
  ASSUME NEW t \in Threads, NEW p, NEW step, NEW todo, Stepped(t, p, step, todo),
         NEW x, x \in Ahead(t) => x \in todo, NEW q,
         \E u \in Threads : Plan(u) = q /\ Has(u, {x})
  PROVE  (\E u \in Threads : Plan(u) = q /\ Has(u, {x}))'
<1>1. PICK u \in Threads : Plan(u) = q /\ x \in Ahead(u)
  BY DEF Has
<1>2. CASE u = t
  BY <1>1, <1>2 DEF Stepped, IsAt, LeftWith, Ahead, Plan, Has
<1>3. CASE u # t
  BY <1>1, <1>3 DEF Stepped, OnlyMoves, Ahead, Plan, Has
<1>4. QED
  BY <1>2, <1>3

(* What the invariant says of a thread at a step, of its plan, and of the other *)
(* threads of the plan.                                                         *)
LEMMA BeforeStep ==
  ASSUME IInv
  PROVE  /\ \A t \in Threads :
              /\ ThreadInv(t)
              /\ Plan(t) \in Plans \/ (Ahead(t) = {} /\ thread[t].result = Unknown)
              /\ Has(t, SubmitSteps) => t = Submitter(Plan(t)) /\ Submitting(Plan(t))
              /\ Has(t, {"settle"}) => (t = Submitter(Plan(t)) /\ Submitting(Plan(t))) \/ t \in Recovering
              /\ Has(t, RecoverSteps) => t \in Recovering
         /\ \A p \in Plans : PlanInv(p)
<1>1. ThreadsTyped /\ ThreadsOK
  BY DEF IInv, Types
<1>2. ASSUME NEW t \in Threads
      PROVE  /\ Plan(t) \in Plans \/ (Ahead(t) = {} /\ thread[t].result = Unknown)
             /\ Ahead(t) # {} => thread[t] # Idle
             /\ Ahead(t) # {} => MayHave(t, Plan(t), Ahead(t))
  <2>1. Ahead(t) # {} => thread[t] # Idle
    BY <1>1, BusyOrIdle
  <2>2. thread[t].todo = <<>> => Ahead(t) = {}
    BY ShortLists DEF Ahead
  <2>3. QED
    BY <1>1, <2>1, <2>2, BusyOrIdle DEF ThreadsOK
<1>3. QED
  BY <1>2 DEF IInv, MayHave, Has, Submitting

LEMMA AfterStep ==
  ASSUME IInv, NEW t \in Threads, NEW p, NEW step, NEW todo, Stepped(t, p, step, todo),
         Types', OnlyChanges(p),
         \A u \in Threads : u = t \/ (Plan(u) = p /\ thread'[u] = thread[u]) => ThreadInv(u)',
         PlanInv(p)',
         Has(t, FinalSteps)' => Has(t, FinalSteps) \/ pool[p] # "busy",
         Has(t, {"tell"})' => Has(t, {"tell"}) \/ ~slot[p].delivered,
         Sharing'
  PROVE  IInv'
<1>1. p \in Plans /\ Plan(t) = p /\ OnlyMoves(t, p) /\ ThreadsOK'
  BY DEF Stepped, IsAt
<1>2. Ahead(t)' # {} => Plan(t)' = p
  BY DEF Stepped, LeftWith, Ahead, Plan
<1>3. QED
  BY <1>1, <1>2, OneStep

(* The invariant itself implies that the promise is kept, once what is        *)
(* recorded stays and nobody is told or let go.                               *)
Refines == [Promise!Next]_(Promise!vars)

LEMMA RecordingIsPromised ==
  ASSUME Types, Types',
         \A q \in Plans : Recorded(entry[q]) # Unknown => entry'[q] = entry[q],
         \A q \in Plans : pool'[q] = "gone" <=> pool[q] = "gone",
         UNCHANGED <<told, completed>>
  PROVE  Refines
<1> DEFINE outcome == [q \in Plans |-> Recorded(entry[q])]
           after   == [q \in Plans |-> Recorded(entry'[q])]
           results == Terminal \cup {"Interrupted"}
<1>1. after \in [Plans -> results \cup {Unknown}]
  BY DEF Recorded
<1>2. \A q \in Plans : outcome[q] # Unknown => after[q] = outcome[q]
  OBVIOUS
<1>3. {q \in Plans : pool'[q] = "gone"} = {q \in Plans : pool[q] = "gone"}
  OBVIOUS
<1>4. Promise!Record
  BY <1>1, <1>2, <1>3 DEF Promise!Record
<1>5. QED
  BY <1>4 DEF Refines, Promise!Next

LEMMA OneChange ==
  ASSUME IInv, NEW t \in Threads, NEW p \in Plans, OnlyMoves(t, p), ThreadsTyped',
         entry' \in [Plans -> EntryStates], \A q \in Plans : q # p => entry'[q] = entry[q],
         journal' \in {"open", "poisoned", "none"},
         slot' \in [Plans -> SlotStates], \A q \in Plans : q # p => slot'[q] = slot[q],
         UNCHANGED <<slots, pool, poolAlive, told, completed>>
  PROVE  Types' /\ OnlyChanges(p)
BY DEF IInv, Types, OnlyChanges

LEMMA FewerSlots ==
  ASSUME IInv, NEW p, slots' = slots \ {p}
  PROVE  IsFiniteSet(slots') /\ Cardinality(slots') <= MaxPendingSlots /\ slots' \subseteq Plans
<1>1. IsFiniteSet(slots) /\ slots \subseteq Plans /\ Cardinality(slots) <= MaxPendingSlots
  BY DEF IInv, Types
<1>2. slots' \subseteq slots
  OBVIOUS
<1>3. IsFiniteSet(slots') /\ Cardinality(slots') <= Cardinality(slots)
  BY <1>1, <1>2, FS_Subset
<1>4. Cardinality(slots) \in Nat /\ Cardinality(slots') \in Nat
  BY <1>1, <1>3, FS_CardinalityType
<1>5. QED
  BY <1>1, <1>2, <1>3, <1>4, CustodianAssumption

(* The step changes nothing but what its thread has still to do. *)
LEMMA ThreadStep ==
  ASSUME IInv, NEW t \in Threads, NEW p \in Plans, NEW step, NEW todo, Stepped(t, p, step, todo),
         UNCHANGED <<entry, journal, custody, pool, poolAlive, told, completed>>,
         ThreadInv(t)',
         {"letGo", "tell", "enqueue", "commit"} \cap Ahead(t) \subseteq todo,
         "reconcile" \in todo => "reconcile" \in Ahead(t),
         "tell" \in todo => "tell" \in Ahead(t),
         FinalSteps \cap todo # {} => Has(t, FinalSteps)
  PROVE  IInv' /\ Refines
<1>1. slot' = slot /\ UNCHANGED <<entry, journal, slots, pool, poolAlive, told, completed>>
  BY DEF custody
<1>2. OnlyMoves(t, p) /\ ThreadsTyped' /\ Ahead(t)' = todo /\ thread[t] # Idle /\ Plan(t) = p
  BY DEF Stepped, LeftWith, IsAt, Ahead
<1>3. Types' /\ OnlyChanges(p)
  BY <1>1, <1>2 DEF IInv, Types, OnlyChanges
<1>4. \A q \in Plans : Submitting(q)' => Submitting(q)
  BY <1>2 DEF OnlyMoves, Submitting
<1>5. ASSUME NEW u \in Threads, u # t, Plan(u) = p, thread'[u] = thread[u] PROVE ThreadInv(u)'
  <2>1. ThreadInv(u) /\ Ahead(u)' = Ahead(u) /\ Plan(u)' = p
    BY <1>5, BeforeStep DEF Ahead, Plan
  <2>2. SubmissionOf(u)'
    BY <1>1, <1>5, <2>1 DEF ThreadInv, SubmissionOf, Has, Phase
  <2>3. EndingOf(u)'
    BY <1>1, <1>4, <1>5, <2>1 DEF ThreadInv, EndingOf, Has, Phase, IsSettled
  <2>4. TellingOf(u)'
    BY <1>1, <1>5, <2>1 DEF ThreadInv, TellingOf, Has
  <2>5. QED
    BY <2>2, <2>3, <2>4 DEF ThreadInv
<1>6. PlanInv(p)'
  <2>1. PlanInv(p)
    BY BeforeStep
  <2>2. SlotOK(p)'
    BY <1>1, <1>4, <2>1 DEF PlanInv, SlotOK, Phase, IsSettled
  <2>3. Leaving(p) => Leaving(p)'
    BY StillAhead DEF Leaving
  <2>4. (\E u \in Threads : Plan(u) = p /\ Has(u, {"tell"})) => (\E u \in Threads : Plan(u) = p /\ Has(u, {"tell"}))'
    BY StillAhead
  <2>5. \A x \in {"enqueue", "commit"} : x \in Ahead(Submitter(p)) => x \in Ahead(Submitter(p))'
    BY <1>2, ThreadNames DEF OnlyMoves, Ahead
  <2>6. ResidenceOK(p)'
    BY <1>1, <2>1, <2>3, <2>5 DEF PlanInv, ResidenceOK, Phase, Resident, Submits, Has
  <2>7. Telling(p)'
    BY <1>1, <2>1, <2>4 DEF PlanInv, Telling
  <2>8. QED
    BY <2>2, <2>6, <2>7 DEF PlanInv
<1>7. Sharing'
  <2>1. ASSUME NEW u \in Threads, Has(u, {"reconcile"})' PROVE Has(u, {"reconcile"})
    BY <1>2, <2>1 DEF OnlyMoves, Has, Ahead
  <2>2. \A q \in Holders' : q \in Holders
    BY <1>1, <1>4 DEF Holders, Kept, Resident
  <2>3. QED
    BY <1>1, <1>4, <2>1, <2>2 DEF IInv, Sharing
<1>8. Refines
  BY <1>1, <1>3, RecordingIsPromised DEF IInv
<1>9. QED
  BY <1>1, <1>2, <1>3, <1>5, <1>6, <1>7, <1>8, AfterStep DEF Has

(* What the other threads of a plan rely on in its slot. *)
Respects(t, p, s) ==
  /\ IsSettled(p) => Outcome(s) = Outcome(slot[p])
  /\ slot[p].delivered => s.delivered
  /\ slot[p].evidence # Unknown => s.evidence # Unknown
  /\ Phase(p) = "Finalized" => s.phase = "Finalized" \/ pool[p] \in {"out", "gone"} \/ ~poolAlive
  /\ Confirmed(slot[p]) /\ ~slot[p].delivered =>
       \/ Confirmed(s) /\ ~s.delivered
       \/ pool[p] # "busy" \/ ~poolAlive \/ Has(t, FinalSteps)
  /\ \/ t = Submitter(p) \/ ~Submitting(p) \/ pool[p] # "out"
     \/ Phase(p) \notin {"Reserved", "EnqueueInProgress"}
     \/ s.phase = Phase(p) /\ s.journal = slot[p].journal

LEMMA OthersKeep ==
  ASSUME IInv, NEW t \in Threads, NEW p \in Plans, NEW step, NEW todo, Stepped(t, p, step, todo),
         NEW s, Respects(t, p, s), slot'[p] = s,
         entry'[p] = entry[p] \/ (slot[p].receipt /\ entry'[p] \notin {"None", "Admitted"}),
         UNCHANGED <<slots, pool, poolAlive, told>>,
         NEW u \in Threads, u # t, Plan(u) = p, thread'[u] = thread[u]
  PROVE  ThreadInv(u)'
<1>1. /\ ThreadInv(u) /\ Ahead(u)' = Ahead(u) /\ Plan(u)' = p /\ thread'[u].result = thread[u].result
      /\ Has(u, SubmitSteps) => u = Submitter(p) /\ Submitting(p)
      /\ PlanInv(p)
  BY BeforeStep DEF Ahead, Plan
<1>2. Submitting(p)' => Submitting(p)
  BY DEF Stepped, OnlyMoves, Submitting, IsAt
<1>3. slot[p].receipt => entry[p] = "Running" /\ Phase(p) \in Custodial
  BY <1>1 DEF PlanInv, SlotOK
<1>4. Has(t, FinalSteps) => ~Has(u, FinalSteps)
  BY DEF IInv, Alone, Stepped, IsAt
<1>5. IsSettled(p) => IsSettled(p)'
  BY <1>3 DEF IsSettled, Recorded, Terminal, Respects
<1>6. SubmissionOf(u)'
  <2>1. \A x \in {"reserved", "abandon", "arm"} : x \in Ahead(u) =>
           s.phase = "Reserved" /\ p \in slots /\ s.journal /\ entry'[p] = entry[p]
    BY <1>1, <1>3 DEF ThreadInv, SubmissionOf, Has, SubmitSteps, Respects, Phase, Custodial
  <2>2. "enqueue" \in Ahead(u) => s.phase = "EnqueueInProgress"
    BY <1>1 DEF ThreadInv, SubmissionOf, Has, SubmitSteps, Respects, Phase
  <2>3. \A x \in {"admit", "admitted"} : x \in Ahead(u) => entry'[p] = entry[p]
    BY <1>1, <1>3 DEF ThreadInv, SubmissionOf, Has
  <2>4. "settle" \in Ahead(u) => s.evidence # Unknown /\ entry'[p] \notin {"None", "Admitted"}
    BY <1>1 DEF ThreadInv, SubmissionOf, Has, Respects
  <2>5. QED
    BY <1>1, <2>1, <2>2, <2>3, <2>4 DEF ThreadInv, SubmissionOf, Has, Phase
<1>7. EndingOf(u)'
  BY <1>1, <1>2, <1>4, <1>5 DEF ThreadInv, EndingOf, Has, Phase, Respects, FinalSteps, PoolSteps
<1>8. TellingOf(u)'
  BY <1>1 DEF ThreadInv, TellingOf, Has, Respects
<1>9. QED
  BY <1>6, <1>7, <1>8 DEF ThreadInv

(* The step changes the slot, too, and what the journal has of work in custody. *)
LEMMA RecordStep ==
  ASSUME IInv, NEW t \in Threads, NEW p \in Plans, NEW step, NEW todo, Stepped(t, p, step, todo),
         NEW s \in SlotStates, SetSlot(p, s), Respects(t, p, s), s.journal => slot[p].journal,
         entry' \in [Plans -> EntryStates], \A q \in Plans : q # p => entry'[q] = entry[q],
         entry'[p] = entry[p] \/ (slot[p].receipt /\ entry'[p] \notin {"None", "Admitted"}),
         journal' \in {"open", "poisoned", "none"}, journal' = "none" => journal = "none",
         UNCHANGED <<slots, pool, poolAlive, told, completed>>,
         ThreadInv(t)', PlanInv(p)',
         "reconcile" \notin todo,
         "tell" \in todo => "tell" \in Ahead(t) \/ ~slot[p].delivered,
         FinalSteps \cap todo # {} => Has(t, FinalSteps)
  PROVE  IInv' /\ Refines
<1>1. slot' \in [Plans -> SlotStates] /\ slot'[p] = s /\ \A q \in Plans : q # p => slot'[q] = slot[q]
  BY SlotIsSet DEF IInv, Types
<1>2. OnlyMoves(t, p) /\ ThreadsTyped' /\ Ahead(t)' = todo /\ thread[t] # Idle /\ Plan(t) = p
  BY DEF Stepped, LeftWith, IsAt, Ahead
<1>3. Types' /\ OnlyChanges(p)
  BY <1>1, <1>2, OneChange
<1>4. \A u \in Threads : u = t \/ (Plan(u) = p /\ thread'[u] = thread[u]) => ThreadInv(u)'
  BY <1>1, OthersKeep
<1>5. Sharing'
  <2>1. \A q \in Plans : Submitting(q)' => Submitting(q)
    BY <1>2 DEF OnlyMoves, Submitting
  <2>2. ASSUME NEW u \in Threads, Has(u, {"reconcile"})' PROVE Has(u, {"reconcile"})
    BY <1>2, <2>2 DEF OnlyMoves, Has, Ahead
  <2>3. \A q \in Plans : slot'[q].journal => slot[q].journal
    BY <1>1
  <2>4. \A q \in Holders' : q \in Holders
    BY <2>1, <2>3 DEF Holders, Kept, Resident
  <2>5. QED
    BY <2>1, <2>2, <2>4 DEF IInv, Sharing
<1>6. Refines
  <2>1. \A q \in Plans : Recorded(entry[q]) # Unknown => entry'[q] = entry[q]
    <3>1. slot[p].receipt => Recorded(entry[p]) = Unknown
      BY BeforeStep DEF PlanInv, SlotOK, Recorded, Terminal
    <3>2. QED
      BY <3>1
  <2>2. QED
    BY <1>3, <2>1, RecordingIsPromised DEF IInv
<1>7. QED
  BY <1>2, <1>3, <1>4, <1>5, <1>6, AfterStep DEF Has

LEMMA SlotStep ==
  ASSUME IInv, NEW t \in Threads, NEW p \in Plans, NEW step, NEW todo, Stepped(t, p, step, todo),
         NEW s \in SlotStates, SetSlot(p, s), Respects(t, p, s), s.journal => slot[p].journal,
         UNCHANGED <<entry, journal, slots, pool, poolAlive, told, completed>>,
         ThreadInv(t)', PlanInv(p)',
         "reconcile" \notin todo,
         "tell" \in todo => "tell" \in Ahead(t) \/ ~slot[p].delivered,
         FinalSteps \cap todo # {} => Has(t, FinalSteps)
  PROVE  IInv' /\ Refines
<1>1. entry' \in [Plans -> EntryStates] /\ journal' \in {"open", "poisoned", "none"}
  BY DEF IInv, Types
<1>2. QED
  BY <1>1, RecordStep

(* What the thread itself has left of the invariant to show. *)
LEMMA OwnStep ==
  ASSUME NEW t \in Threads, NEW p \in Plans, NEW step, NEW todo, Stepped(t, p, step, todo)
  PROVE  /\ Ahead(t)' = todo
         /\ Plan(t)' = p \/ (todo = {} /\ thread'[t].result = Unknown)
         /\ Plan(t) = p /\ step \in Ahead(t) /\ Ahead(t) \subseteq {step} \cup After(step)
         /\ Submitting(p)' => Submitting(p)
         /\ \A q \in Plans : Submitter(q) # t => Ahead(Submitter(q))' = Ahead(Submitter(q))
BY DEF Stepped, LeftWith, IsAt, OnlyMoves, Ahead, Plan, Submitting

LEMMA StillLeaving ==
  ASSUME NEW t \in Threads, NEW p \in Plans, NEW step, NEW todo, Stepped(t, p, step, todo)
  PROVE  /\ ("letGo" \in Ahead(t) => "letGo" \in todo) /\ Leaving(p) => Leaving(p)'
         /\ ("tell" \in Ahead(t) => "tell" \in todo) =>
              (slot[p].delivered /\ told[p] = <<>> /\ Telling(p) =>
                 (\E u \in Threads : Plan(u) = p /\ Has(u, {"tell"}))')
  <1>1. ("letGo" \in Ahead(t) => "letGo" \in todo) /\ Leaving(p) => Leaving(p)'
    BY StillAhead DEF Leaving
  <1>2. ASSUME "tell" \in Ahead(t) => "tell" \in todo, slot[p].delivered, told[p] = <<>>, Telling(p)
        PROVE  (\E u \in Threads : Plan(u) = p /\ Has(u, {"tell"}))'
    <2>1. \E u \in Threads : Plan(u) = p /\ Has(u, {"tell"})
      BY <1>2 DEF Telling
    <2>2. QED
      BY <1>2, <2>1, StillAhead
  <1>3. QED
    BY <1>1, <1>2

-----------------------------------------------------------------------------
(* Submitting.                                                                *)

LEMMA IdleInv ==
  ASSUME NEW t \in Threads, NEW p, NEW step, Stepped(t, p, step, {})
  PROVE  ThreadInv(t)'
<1>1. Ahead(t)' = {} /\ thread'[t].result = Unknown
  BY DEF Stepped, LeftWith, Ahead
<1>2. QED
  BY <1>1 DEF ThreadInv, SubmissionOf, EndingOf, TellingOf, Has, Unknown

(* The thread of a submission has one step at a time. *)
SubmitsOn(t, p, step, todo) ==
  Stepped(t, p, step, todo) /\ (thread'[t].result \in {"Released", "NotFinalizing"} => pool[p] = "gone")

LEMMA SubmitStep ==
  ASSUME IInv, NEW t \in Threads, NEW p, p = Plan(t), NEW step \in SubmitSteps, At(t, step)
  PROVE  /\ p \in Plans /\ t = Submitter(p) /\ Submitting(p) /\ Ahead(t) = {step}
         /\ ThreadInv(t) /\ PlanInv(p) /\ slot[p] \in SlotStates
         /\ Does(t, <<>>) \/ Ends(t) => SubmitsOn(t, p, step, {})
         /\ \A x \in SubmitSteps \cup {"settle", "erase"} : Does(t, <<x>>) => SubmitsOn(t, p, step, {x})
<1>1. step \in Steps /\ After(step) = {}
  BY DEF Steps, SubmitSteps, After
<1>2. IsAt(t, p, step)
  BY <1>1, AtStep DEF IInv, Types
<1>3. Ahead(t) = {step}
  BY <1>1, <1>2 DEF IsAt
<1>4. t = Submitter(p) /\ Submitting(p) /\ ThreadInv(t) /\ p \in Plans /\ PlanInv(p)
  BY <1>2, <1>3, BeforeStep DEF IsAt, Has
<1>5. slot[p] \in SlotStates
  BY <1>4 DEF IInv, Types
<1>6. thread[t].result \in {"Released", "NotFinalizing"} => pool[p] = "gone"
  BY <1>4 DEF ThreadInv, EndingOf
<1>7. ASSUME Does(t, <<>>) \/ Ends(t) PROVE SubmitsOn(t, p, step, {})
  <2>1. /\ Stepped(t, p, step, {}) \/ Stepped(t, p, step, Ahead(t) \ {step})
        /\ thread'[t].result \in {Unknown, thread[t].result}
    BY <1>1, <1>7, ShortSteps, EndSteps_
  <2>2. Ahead(t) \ {step} = {}
    BY <1>3
  <2>3. QED
    BY <1>6, <2>1, <2>2 DEF SubmitsOn, Unknown
<1>8. ASSUME NEW x \in SubmitSteps \cup {"settle", "erase"}, Does(t, <<x>>) PROVE SubmitsOn(t, p, step, {x})
  <2>1. x \in Steps /\ x \notin RecoverSteps
    BY DEF Steps, SubmitSteps, RecoverSteps
  <2>2. /\ Stepped(t, p, step, {x} \cup (Ahead(t) \ {step}))
        /\ thread'[t].result \in {Unknown, thread[t].result}
    BY <1>1, <1>8, <2>1, ShortSteps
  <2>3. {x} \cup (Ahead(t) \ {step}) = {x}
    BY <1>3
  <2>4. QED
    BY <1>6, <2>2, <2>3 DEF SubmitsOn, Unknown
<1>9. QED
  BY <1>3, <1>4, <1>5, <1>7, <1>8

(* The receipt is in the slot and the pool has not got the operation yet. *)
LEMMA CustodyStep ==
  ASSUME IInv, NEW t \in Threads, NEW p \in Plans, p = Plan(t), NEW step \in SubmitSteps, At(t, step),
         NEW x \in {"armed", "enqueue", "settle"}, Does(t, <<x>>),
         NEW s \in SlotStates, SetSlot(p, s),
         UNCHANGED <<entry, journal, slots, pool, poolAlive, told, completed>>,
         entry[p] = "Running", p \in slots, slot[p].journal, pool[p] = "out",
         Phase(p) \in {"Reserved", "Armed", "EnqueueInProgress"},
         s.phase = IF x = "enqueue" THEN "EnqueueInProgress" ELSE "Armed",
         s.receipt, s.journal, s.status = slot[p].status,
         s.poolOwned = slot[p].poolOwned, s.delivered = slot[p].delivered,
         s.evidence = slot[p].evidence \/ s.evidence # Unknown, x = "settle" => s.evidence # Unknown
  PROVE  IInv' /\ Refines
<1>1. /\ t = Submitter(p) /\ Ahead(t) = {step} /\ ThreadInv(t) /\ PlanInv(p) /\ slot[p] \in SlotStates
      /\ SubmitsOn(t, p, step, {x})
  BY SubmitStep DEF SubmitSteps
<1>2. slot'[p] = s
  BY <1>1, SlotIsSet DEF IInv, Types
<1>3. ~IsSettled(p) /\ ~slot[p].delivered /\ slot[p].status = Unknown
  BY <1>1 DEF PlanInv, SlotOK, IsSettled, Recorded, Terminal
<1>4. Respects(t, p, s)
  BY <1>1, <1>3 DEF Respects, Phase, Confirmed
<1>5. Ahead(t)' = {x} /\ Plan(t)' = p
  BY <1>1, OwnStep DEF SubmitsOn
<1>6. ThreadInv(t)'
  <2>1. pool'[p] = "out" /\ thread'[t].result \notin {"Released", "NotFinalizing"}
    BY <1>1 DEF SubmitsOn
  <2>2. x = "enqueue" => Phase(p)' = "EnqueueInProgress"
    BY <1>2 DEF Phase
  <2>3. x = "settle" => slot'[p].evidence # Unknown /\ entry'[p] \notin {"None", "Admitted"}
    BY <1>2
  <2>4. QED
    BY <1>5, <2>1, <2>2, <2>3 DEF ThreadInv, SubmissionOf, EndingOf, TellingOf, Has, SubmitSteps, EndSteps, FinalSteps, PoolSteps
<1>7. PlanInv(p)'
  <2>1. SlotOK(p)'
    BY <1>2, <1>3 DEF SlotOK, Phase, Custodial, Answered, AlreadyConfirmed
  <2>2. x = "enqueue" => Submits(p, {"enqueue", "commit"})'
    BY <1>1, <1>5 DEF Submits, Has
  <2>3. ResidenceOK(p)'
    BY <1>1, <1>2, <1>3, <2>2 DEF PlanInv, ResidenceOK, Phase, Resident
  <2>4. Telling(p)'
    BY <1>1, <1>2, <1>3 DEF PlanInv, Telling
  <2>5. QED
    BY <2>1, <2>3, <2>4 DEF PlanInv
<1>8. QED
  BY <1>1, <1>4, <1>6, <1>7, SlotStep DEF SubmitsOn, FinalSteps

LEMMA InCustody ==
  ASSUME IInv, NEW p \in Plans
  PROVE  /\ slot[p] \in SlotStates
         /\ Phase(p) \in Custodial => slot[p].receipt /\ slot[p].journal /\ p \in slots /\ entry[p] = "Running"
BY BeforeStep DEF PlanInv, SlotOK, IInv, Types

LEMMA ArmIsSafe ==
  ASSUME IInv, NEW t \in Threads, NEW p \in Plans, p = Plan(t), Arm(t)
  PROVE  IInv' /\ Refines
<1> DEFINE s == [slot[p] EXCEPT !.phase = "Armed", !.receipt = TRUE]
<1>1. /\ At(t, "arm") /\ Does(t, <<"armed">>) /\ Phase(p) = "Reserved" /\ SetSlot(p, s)
      /\ UNCHANGED <<entry, journal, slots, pool, poolAlive, told, completed>>
  BY DEF Arm
<1>2. Ahead(t) = {"arm"} /\ ThreadInv(t) /\ slot[p] \in SlotStates
  BY <1>1, SubmitStep DEF SubmitSteps
<1>3. /\ s \in SlotStates /\ s.phase = "Armed" /\ s.receipt /\ s.journal = slot[p].journal
      /\ s.status = slot[p].status /\ s.poolOwned = slot[p].poolOwned /\ s.delivered = slot[p].delivered
      /\ s.evidence = slot[p].evidence
  BY <1>2 DEF SlotStates, Phases
<1> HIDE DEF s
<1>4. entry[p] = "Running" /\ p \in slots /\ slot[p].journal /\ pool[p] = "out"
  BY <1>2 DEF ThreadInv, SubmissionOf, Has, SubmitSteps
<1>5. QED
  BY <1>1, <1>3, <1>4, CustodyStep DEF SubmitSteps

LEMMA FinalizeBeforeEnqueueIsSafe ==
  ASSUME IInv, NEW t \in Threads, NEW p \in Plans, p = Plan(t), FinalizeBeforeEnqueue(t)
  PROVE  IInv' /\ Refines
<1>1. PICK evidence \in {"Cancelled", "Failed"} : SetSlot(p, [slot[p] EXCEPT !.evidence = evidence])
  BY DEF FinalizeBeforeEnqueue
<1> DEFINE s == [slot[p] EXCEPT !.evidence = evidence]
<1>2. /\ At(t, "armed") /\ Does(t, <<"settle">>) /\ Phase(p) = "Armed" /\ SetSlot(p, s)
      /\ UNCHANGED <<entry, journal, slots, pool, poolAlive, told, completed>>
  BY <1>1 DEF FinalizeBeforeEnqueue
<1>3. Ahead(t) = {"armed"} /\ ThreadInv(t)
  BY <1>2, SubmitStep DEF SubmitSteps
<1>4. slot[p] \in SlotStates /\ slot[p].receipt /\ slot[p].journal /\ p \in slots /\ entry[p] = "Running"
  BY <1>2, InCustody DEF Custodial
<1>5. /\ s \in SlotStates /\ s.phase = "Armed" /\ s.receipt /\ s.journal = slot[p].journal
      /\ s.status = slot[p].status /\ s.poolOwned = slot[p].poolOwned /\ s.delivered = slot[p].delivered
      /\ s.evidence # Unknown
  BY <1>2, <1>4 DEF SlotStates, Phase, Terminal, Unknown
<1> HIDE DEF s
<1>6. pool[p] = "out"
  BY <1>3 DEF ThreadInv, SubmissionOf, Has, SubmitSteps
<1>7. QED
  BY <1>2, <1>4, <1>5, <1>6, CustodyStep DEF SubmitSteps

LEMMA BeginEnqueueIsSafe ==
  ASSUME IInv, NEW t \in Threads, NEW p \in Plans, p = Plan(t), BeginEnqueue(t)
  PROVE  IInv' /\ Refines
<1> DEFINE s == [slot[p] EXCEPT !.phase = "EnqueueInProgress"]
<1>1. /\ At(t, "armed") /\ Does(t, <<"enqueue">>) /\ Phase(p) = "Armed" /\ SetSlot(p, s)
      /\ UNCHANGED <<entry, journal, slots, pool, poolAlive, told, completed>>
  BY DEF BeginEnqueue
<1>2. Ahead(t) = {"armed"} /\ ThreadInv(t)
  BY <1>1, SubmitStep DEF SubmitSteps
<1>3. slot[p] \in SlotStates /\ slot[p].receipt /\ slot[p].journal /\ p \in slots /\ entry[p] = "Running"
  BY <1>1, InCustody DEF Custodial
<1>4. /\ s \in SlotStates /\ s.phase = "EnqueueInProgress" /\ s.receipt /\ s.journal = slot[p].journal
      /\ s.status = slot[p].status /\ s.poolOwned = slot[p].poolOwned /\ s.delivered = slot[p].delivered
      /\ s.evidence = slot[p].evidence
  BY <1>3 DEF SlotStates, Phases
<1> HIDE DEF s
<1>5. pool[p] = "out"
  BY <1>2 DEF ThreadInv, SubmissionOf, Has, SubmitSteps
<1>6. QED
  BY <1>1, <1>3, <1>4, <1>5, CustodyStep DEF SubmitSteps

LEMMA RejectEnqueueIsSafe ==
  ASSUME IInv, NEW t \in Threads, NEW p \in Plans, p = Plan(t), RejectEnqueue(t)
  PROVE  IInv' /\ Refines
<1>1. PICK evidence \in {"Cancelled", "Failed"} :
        SetSlot(p, [slot[p] EXCEPT !.evidence = evidence, !.phase = "Armed"])
  BY DEF RejectEnqueue
<1> DEFINE s == [slot[p] EXCEPT !.evidence = evidence, !.phase = "Armed"]
<1>2. /\ At(t, "enqueue") /\ Does(t, <<"settle">>) /\ SetSlot(p, s)
      /\ UNCHANGED <<entry, journal, slots, pool, poolAlive, told, completed>>
  BY <1>1 DEF RejectEnqueue
<1>3. Ahead(t) = {"enqueue"} /\ ThreadInv(t)
  BY <1>2, SubmitStep DEF SubmitSteps
<1>4. Phase(p) = "EnqueueInProgress" /\ pool[p] = "out"
  BY <1>3 DEF ThreadInv, SubmissionOf, Has, SubmitSteps
<1>5. slot[p] \in SlotStates /\ slot[p].receipt /\ slot[p].journal /\ p \in slots /\ entry[p] = "Running"
  BY <1>4, InCustody DEF Custodial
<1>6. /\ s \in SlotStates /\ s.phase = "Armed" /\ s.receipt /\ s.journal = slot[p].journal
      /\ s.status = slot[p].status /\ s.poolOwned = slot[p].poolOwned /\ s.delivered = slot[p].delivered
      /\ s.evidence # Unknown
  <2>1. "Armed" \in Phases /\ evidence \in Terminal \cup {Unknown} /\ evidence # Unknown
    BY <1>1 DEF Phases, Terminal, Unknown
  <2>2. PICK old \in SlotStates : old = slot[p]
    BY <1>5
  <2>3. PICK new : new = [old EXCEPT !.evidence = evidence, !.phase = "Armed"]
    OBVIOUS
  <2>4. /\ new \in SlotStates /\ new.phase = "Armed" /\ new.evidence = evidence
        /\ new.receipt = old.receipt /\ new.journal = old.journal /\ new.status = old.status
        /\ new.poolOwned = old.poolOwned /\ new.delivered = old.delivered
    BY <2>1, <2>2, <2>3 DEF SlotStates
  <2>5. s = new
    BY <2>2, <2>3
  <2>6. QED
    BY <1>5, <2>1, <2>2, <2>4, <2>5
<1> HIDE DEF s
<1>7. QED
  BY <1>2, <1>4, <1>5, <1>6, CustodyStep DEF SubmitSteps

LEMMA CommitEnqueueIsSafe ==
  ASSUME IInv, NEW t \in Threads, NEW p \in Plans, p = Plan(t), CommitEnqueue(t)
  PROVE  IInv' /\ Refines
<1> DEFINE todo == IF Phase(p) = "Finalized" THEN {"erase"} ELSE {}
<1>1. /\ At(t, "commit") /\ Does(t, IF Phase(p) = "Finalized" THEN <<"erase">> ELSE <<>>)
      /\ UNCHANGED <<entry, journal, slots, pool, poolAlive, told, completed>>
  BY DEF CommitEnqueue
<1>2. /\ t = Submitter(p) /\ Submitting(p) /\ Ahead(t) = {"commit"} /\ ThreadInv(t) /\ PlanInv(p)
      /\ slot[p] \in SlotStates /\ slot \in [Plans -> SlotStates]
      /\ SubmitsOn(t, p, "commit", todo)
  <2>1. CASE Phase(p) = "Finalized"
    BY <1>1, <2>1, SubmitStep DEF SubmitSteps, IInv, Types
  <2>2. CASE Phase(p) # "Finalized"
    BY <1>1, <2>2, SubmitStep DEF SubmitSteps, IInv, Types
  <2>3. QED
    BY <2>1, <2>2
<1>3. PICK s \in SlotStates :
        /\ SetSlot(p, s)
        /\ s.phase = IF Phase(p) = "EnqueueInProgress" THEN "PoolOwned" ELSE Phase(p)
        /\ s.poolOwned = (slot[p].poolOwned \/ Phase(p) \in {"EnqueueInProgress", "Finalized", "ReconcileRequired"})
        /\ s.receipt = slot[p].receipt /\ s.journal = slot[p].journal /\ s.evidence = slot[p].evidence
        /\ s.status = slot[p].status /\ s.delivered = slot[p].delivered
  <2>1. CASE Phase(p) = "EnqueueInProgress"
    <3> DEFINE s == [slot[p] EXCEPT !.phase = "PoolOwned", !.poolOwned = TRUE]
    <3>1. /\ s \in SlotStates /\ s.phase = "PoolOwned" /\ s.poolOwned
          /\ s.receipt = slot[p].receipt /\ s.journal = slot[p].journal /\ s.evidence = slot[p].evidence
          /\ s.status = slot[p].status /\ s.delivered = slot[p].delivered
      BY <1>2 DEF SlotStates, Phases
    <3>2. SetSlot(p, s)
      BY <2>1 DEF CommitEnqueue
    <3> HIDE DEF s
    <3>3. QED
      BY <2>1, <3>1, <3>2 DEF SlotStates
  <2>2. CASE Phase(p) \in {"Finalized", "ReconcileRequired"}
    <3> DEFINE s == [slot[p] EXCEPT !.poolOwned = TRUE]
    <3>1. /\ s \in SlotStates /\ s.phase = Phase(p) /\ s.poolOwned
          /\ s.receipt = slot[p].receipt /\ s.journal = slot[p].journal /\ s.evidence = slot[p].evidence
          /\ s.status = slot[p].status /\ s.delivered = slot[p].delivered
      BY <1>2 DEF SlotStates, Phases, Phase
    <3>2. SetSlot(p, s)
      BY <2>2 DEF CommitEnqueue
    <3> HIDE DEF s
    <3>3. QED
      BY <2>2, <3>1, <3>2 DEF SlotStates
  <2>3. CASE Phase(p) \notin {"EnqueueInProgress", "Finalized", "ReconcileRequired"}
    <3>1. slot' = slot
      BY <2>3 DEF CommitEnqueue
    <3>2. SetSlot(p, slot[p])
      BY <1>2, <3>1 DEF SetSlot
    <3>3. QED
      BY <1>2, <2>3, <3>2 DEF SlotStates, Phase
  <2>4. QED
    BY <2>1, <2>2, <2>3
<1>4. slot'[p] = s
  BY <1>2, <1>3, SlotIsSet
<1>5. pool[p] # "out" /\ Phase(p) \notin {"Reconciled", "ReleaseInProgress"}
  BY <1>2 DEF ThreadInv, SubmissionOf, PlanInv, SlotOK, Has
<1>6. /\ Respects(t, p, s)
      /\ IsSettled(p) => IsSettled(p)'
  BY <1>1, <1>2, <1>3, <1>4 DEF Respects, Phase, Outcome, Confirmed, IsSettled
<1>7. ThreadInv(t)'
  <2>1. Ahead(t)' = todo /\ (Plan(t)' = p \/ todo = {})
    BY <1>2, OwnStep DEF SubmitsOn
  <2>2. CASE todo = {}
    BY <1>2, <2>2, IdleInv DEF SubmitsOn
  <2>3. CASE todo = {"erase"}
    <3>1. Phase(p)' = "Finalized" /\ IsSettled(p)' /\ Plan(t)' = p
      BY <1>2, <1>3, <1>4, <1>6, <2>1, <2>3 DEF Phase, PlanInv, SlotOK, AlreadyConfirmed
    <3>2. thread'[t].result \in {"Released", "NotFinalizing"} => pool'[p] = "gone"
      BY <1>1, <1>2 DEF SubmitsOn
    <3>3. QED
      BY <2>1, <2>3, <3>1, <3>2
         DEF ThreadInv, SubmissionOf, EndingOf, TellingOf, Has, SubmitSteps, EndSteps, FinalSteps, PoolSteps
  <2>4. QED
    BY <2>2, <2>3
<1>8. PlanInv(p)'
  <2>1. SlotOK(p)'
    BY <1>1, <1>2, <1>3, <1>4, <1>5, <1>6 DEF PlanInv, SlotOK, Phase, Custodial, Answered, AlreadyConfirmed
  <2>2. Leaving(p) => Leaving(p)'
    BY <1>2, StillLeaving DEF SubmitsOn
  <2>3. ResidenceOK(p)'
    BY <1>1, <1>2, <1>3, <1>4, <1>5, <2>2 DEF PlanInv, ResidenceOK, Phase, Resident
  <2>4. Telling(p)'
    BY <1>1, <1>2, <1>3, <1>4, StillLeaving DEF PlanInv, Telling, SubmitsOn
  <2>5. QED
    BY <2>1, <2>3, <2>4 DEF PlanInv
<1>9. QED
  BY <1>1, <1>2, <1>3, <1>6, <1>7, <1>8, SlotStep DEF SubmitsOn, FinalSteps

(* Of what is not recorded yet, nobody is told, and custody does not end. *)
LEMMA NotRecorded ==
  ASSUME IInv, NEW p \in Plans, entry[p] \in {"None", "Admitted", "Running"}
  PROVE  /\ Recorded(entry[p]) = Unknown /\ ~IsSettled(p)
         /\ ~slot[p].delivered /\ Phase(p) \notin AlreadyConfirmed /\ told[p] = <<>>
         /\ \A u \in Threads : Plan(u) = p => ~Has(u, EndSteps)
BY BeforeStep DEF ThreadInv, EndingOf, PlanInv, SlotOK, Telling, IsSettled, Recorded, Terminal

(* Before the receipt is in the slot, only the submission works for the plan. *)
LEMMA AloneBeforeCustody ==
  ASSUME IInv, NEW t \in Threads, NEW p \in Plans, NEW step, NEW todo, Stepped(t, p, step, todo),
         t = Submitter(p), entry[p] \in {"None", "Admitted", "Running"}, pool[p] = "out",
         UNCHANGED poolAlive,
         entry[p] = "Running" => slot'[p].evidence = slot[p].evidence /\ entry'[p] \notin {"None", "Admitted"},
         NEW u \in Threads, u # t, Plan(u) = p, thread'[u] = thread[u]
  PROVE  ThreadInv(u)'
<1>1. /\ ThreadInv(u) /\ ~Has(u, SubmitSteps) /\ ~Has(u, EndSteps) /\ ~Has(u, FinalSteps)
      /\ thread[u].result \notin {"Released", "NotFinalizing"}
      /\ ~poolAlive => ~Has(u, PoolSteps)
  BY BeforeStep, NotRecorded DEF ThreadInv, EndingOf
<1>2. Ahead(u)' = Ahead(u) /\ thread'[u].result = thread[u].result
  BY DEF Ahead
<1>3. Has(u, {"settle"}) => slot'[p].evidence # Unknown /\ entry'[p] \notin {"None", "Admitted"}
  BY <1>1 DEF ThreadInv, SubmissionOf
<1>4. Plan(u)' = p
  BY DEF Plan
<1>5. SubmissionOf(u)'
  BY <1>1, <1>2, <1>3, <1>4 DEF SubmissionOf, Has, SubmitSteps
<1>6. EndingOf(u)' /\ TellingOf(u)'
  BY <1>1, <1>2 DEF EndingOf, TellingOf, Has, EndSteps
<1>7. QED
  BY <1>5, <1>6 DEF ThreadInv

LEMMA SubmissionStep ==
  ASSUME IInv, NEW t \in Threads, NEW p \in Plans, NEW step, NEW todo, SubmitsOn(t, p, step, todo),
         t = Submitter(p), todo \subseteq SubmitSteps,
         entry[p] \in {"None", "Admitted", "Running"}, pool[p] = "out", pool'[p] # "gone",
         entry[p] = "Running" => slot'[p].evidence = slot[p].evidence /\ entry'[p] \notin {"None", "Admitted"},
         Types', OnlyChanges(p), journal' = "none" => journal = "none", UNCHANGED <<told, completed>>,
         ThreadInv(t)', PlanInv(p)'
  PROVE  IInv' /\ Refines
<1>1. Stepped(t, p, step, todo) /\ UNCHANGED poolAlive
  BY DEF SubmitsOn, OnlyChanges
<1>2. OnlyMoves(t, p) /\ Ahead(t)' = todo /\ Submitting(p) /\ Plan(t) = p
  BY <1>1 DEF Stepped, LeftWith, IsAt, Ahead, Submitting
<1>3. \A u \in Threads : u = t \/ (Plan(u) = p /\ thread'[u] = thread[u]) => ThreadInv(u)'
  BY <1>1, AloneBeforeCustody
<1>4. Sharing'
  <2>1. journal' # "none"
    BY <1>2 DEF IInv, Sharing, Holders
  <2>2. ASSUME NEW u \in Threads, Has(u, {"reconcile"})' PROVE FALSE
    <3>1. u # t
      BY <1>2, <2>2 DEF Has, SubmitSteps
    <3>2. Has(u, {"reconcile"})
      BY <1>2, <2>2, <3>1 DEF OnlyMoves, Has, Ahead
    <3>3. QED
      BY <1>2, <3>2 DEF IInv, Sharing
  <2>3. QED
    BY <2>1, <2>2 DEF Sharing
<1>5. Refines
  <2>1. \A q \in Plans : Recorded(entry[q]) # Unknown => entry'[q] = entry[q]
    BY NotRecorded DEF OnlyChanges
  <2>2. \A q \in Plans : pool'[q] = "gone" <=> pool[q] = "gone"
    BY DEF OnlyChanges
  <2>3. QED
    BY <2>1, <2>2, RecordingIsPromised DEF IInv
<1>6. "tell" \notin todo /\ FinalSteps \cap todo = {}
  BY DEF SubmitSteps, FinalSteps
<1>7. QED
  BY <1>1, <1>2, <1>3, <1>4, <1>5, <1>6, AfterStep DEF Has

LEMMA EntryStep ==
  ASSUME IInv, NEW t \in Threads, NEW p \in Plans, NEW step, NEW todo, SubmitsOn(t, p, step, todo),
         t = Submitter(p), todo \subseteq SubmitSteps,
         NEW state, NEW result, Mutated(p, state, result),
         entry[p] \in {"None", "Admitted"}, pool[p] = "out",
         UNCHANGED <<custody, pool, poolAlive, told, completed>>,
         ThreadInv(t)'
  PROVE  IInv' /\ Refines
<1>1. Stepped(t, p, step, todo) /\ UNCHANGED <<slot, slots, pool, poolAlive, told, completed>>
  BY DEF SubmitsOn, custody
<1>2. OnlyMoves(t, p) /\ ThreadsTyped'
  BY <1>1 DEF Stepped
<1>3. Types' /\ OnlyChanges(p)
  BY <1>1, <1>2, OneChange DEF Mutated, IInv, Types
<1>4. PlanInv(p) /\ slot[p].receipt = FALSE
  BY BeforeStep DEF PlanInv, SlotOK, IInv, Types, SlotStates
<1>5. PlanInv(p)'
  <2>1. SlotOK(p)'
    BY <1>1, <1>4, NotRecorded DEF PlanInv, SlotOK, Phase, AlreadyConfirmed, IsSettled
  <2>2. ResidenceOK(p)'
    BY <1>1, <1>4 DEF PlanInv, ResidenceOK, SlotOK, Phase, Resident, Custodial
  <2>3. Telling(p)'
    BY <1>1, <1>4, NotRecorded DEF PlanInv, Telling
  <2>4. QED
    BY <2>1, <2>2, <2>3 DEF PlanInv
<1>6. QED
  BY <1>1, <1>3, <1>5, SubmissionStep DEF Mutated

LEMMA AdmitIsSafe ==
  ASSUME IInv, NEW t \in Threads, NEW p \in Plans, p = Plan(t), Admit(t)
  PROVE  IInv' /\ Refines
<1>1. PICK result \in Results :
        /\ Mutation(p, "Admitted", result)
        /\ IF result = "ok" THEN Does(t, <<"admitted">>) ELSE Ends(t)
  BY DEF Admit
<1> DEFINE todo == IF result = "ok" THEN {"admitted"} ELSE {}
<1>2. At(t, "admit") /\ UNCHANGED <<custody, pool, poolAlive, told, completed>>
  BY DEF Admit
<1>3. t = Submitter(p) /\ Ahead(t) = {"admit"} /\ ThreadInv(t) /\ SubmitsOn(t, p, "admit", todo)
  BY <1>1, <1>2, SubmitStep DEF SubmitSteps
<1>4. entry[p] = "None" /\ pool[p] = "out"
  BY <1>3 DEF ThreadInv, SubmissionOf, Has, SubmitSteps
<1>5. Mutated(p, "Admitted", result)
  BY <1>1, MutationIs DEF IInv, Types, EntryStates
<1>6. ThreadInv(t)'
  <2>1. CASE result = "ok"
    <3>1. Ahead(t)' = {"admitted"} /\ Plan(t)' = p
      BY <1>3, <2>1, OwnStep DEF SubmitsOn
    <3>2. entry'[p] = "Admitted" /\ pool'[p] = "out" /\ thread'[t].result \notin {"Released", "NotFinalizing"}
      BY <1>2, <1>3, <1>4, <1>5, <2>1 DEF Mutated, SubmitsOn
    <3>3. QED
      BY <3>1, <3>2 DEF ThreadInv, SubmissionOf, EndingOf, TellingOf, Has, SubmitSteps, EndSteps, FinalSteps, PoolSteps
  <2>2. CASE result # "ok"
    BY <1>3, <2>2, IdleInv DEF SubmitsOn
  <2>3. QED
    BY <2>1, <2>2
<1>7. QED
  BY <1>2, <1>3, <1>4, <1>5, <1>6, EntryStep DEF SubmitSteps

LEMMA FinalizeAdmissionIsSafe ==
  ASSUME IInv, NEW t \in Threads, NEW p \in Plans, p = Plan(t), FinalizeAdmission(t)
  PROVE  IInv' /\ Refines
<1>1. PICK state \in {"Cancelled", "Failed"}, result \in Results : Mutation(p, state, result)
  BY DEF FinalizeAdmission
<1>2. At(t, "admitted") /\ Ends(t) /\ UNCHANGED <<custody, pool, poolAlive, told, completed>>
  BY DEF FinalizeAdmission
<1>3. t = Submitter(p) /\ Ahead(t) = {"admitted"} /\ ThreadInv(t) /\ SubmitsOn(t, p, "admitted", {})
  BY <1>2, SubmitStep DEF SubmitSteps
<1>4. entry[p] = "Admitted" /\ pool[p] = "out"
  BY <1>3 DEF ThreadInv, SubmissionOf, Has, SubmitSteps
<1>5. Mutated(p, state, result)
  BY <1>1, MutationIs DEF IInv, Types, EntryStates, Terminal
<1>6. ThreadInv(t)'
  BY <1>3, IdleInv DEF SubmitsOn
<1>7. QED
  BY <1>2, <1>3, <1>4, <1>5, <1>6, EntryStep

LEMMA TransitionToRunningIsSafe ==
  ASSUME IInv, NEW t \in Threads, NEW p \in Plans, p = Plan(t), TransitionToRunning(t)
  PROVE  IInv' /\ Refines
<1>1. PICK result \in Results :
        /\ Mutation(p, "Running", result)
        /\ Does(t, IF result = "ok" THEN <<"arm">> ELSE <<"abandon">>)
  BY DEF TransitionToRunning
<1> DEFINE next == IF result = "ok" THEN "arm" ELSE "abandon"
<1>2. At(t, "reserved") /\ UNCHANGED <<custody, pool, poolAlive, told, completed>>
  BY DEF TransitionToRunning
<1>3. t = Submitter(p) /\ Ahead(t) = {"reserved"} /\ ThreadInv(t) /\ SubmitsOn(t, p, "reserved", {next})
  <2>1. Does(t, <<next>>) /\ next \in SubmitSteps
    BY <1>1 DEF SubmitSteps
  <2>2. QED
    BY <1>2, <2>1, SubmitStep DEF SubmitSteps
<1>4. /\ entry[p] = "Admitted" /\ pool[p] = "out"
      /\ Phase(p) = "Reserved" /\ p \in slots /\ slot[p].journal
  BY <1>3 DEF ThreadInv, SubmissionOf, Has, SubmitSteps
<1>5. Mutated(p, "Running", result)
  BY <1>1, MutationIs DEF IInv, Types, EntryStates
<1>6. ThreadInv(t)'
  <2>1. Ahead(t)' = {next} /\ Plan(t)' = p
    BY <1>3, OwnStep DEF SubmitsOn
  <2>2. /\ entry'[p] \in {"Admitted", "Running"} /\ (next = "arm" => entry'[p] = "Running") /\ pool'[p] = "out"
        /\ Phase(p)' = "Reserved" /\ p \in slots' /\ slot'[p].journal
        /\ thread'[t].result \notin {"Released", "NotFinalizing"}
    BY <1>2, <1>3, <1>4, <1>5 DEF Mutated, SubmitsOn, Phase, custody
  <2>3. QED
    BY <2>1, <2>2 DEF ThreadInv, SubmissionOf, EndingOf, TellingOf, Has, SubmitSteps, EndSteps, FinalSteps, PoolSteps
<1>7. QED
  BY <1>2, <1>3, <1>4, <1>5, <1>6, EntryStep DEF SubmitSteps

LEMMA ReserveIsSafe ==
  ASSUME IInv, NEW t \in Threads, NEW p \in Plans, p = Plan(t), Reserve(t)
  PROVE  IInv' /\ Refines
<1>1. /\ At(t, "admitted") /\ Does(t, <<"reserved">>) /\ SetSlot(p, NewSlot) /\ slots' = slots \cup {p}
      /\ Cardinality(slots) < MaxPendingSlots /\ p \notin slots
      /\ UNCHANGED <<entry, journal, pool, poolAlive, told, completed>>
  BY DEF Reserve
<1>2. t = Submitter(p) /\ Ahead(t) = {"admitted"} /\ ThreadInv(t) /\ PlanInv(p) /\ SubmitsOn(t, p, "admitted", {"reserved"})
  BY <1>1, SubmitStep DEF SubmitSteps
<1>3. entry[p] = "Admitted" /\ pool[p] = "out" /\ told[p] = <<>>
  BY <1>2, NotRecorded DEF ThreadInv, SubmissionOf, Has, SubmitSteps
<1>4. /\ NewSlot \in SlotStates /\ NewSlot.phase = "Reserved" /\ ~NewSlot.receipt /\ NewSlot.journal
      /\ NewSlot.status = Unknown /\ ~NewSlot.poolOwned /\ ~NewSlot.delivered
  BY DEF NewSlot, SlotStates, Phases
<1>5. slot' \in [Plans -> SlotStates] /\ slot'[p] = NewSlot /\ \A q \in Plans : q # p => slot'[q] = slot[q]
  BY <1>1, <1>4, SlotIsSet DEF IInv, Types
<1>6. IsFiniteSet(slots') /\ Cardinality(slots') <= MaxPendingSlots /\ slots' \subseteq Plans
  <2>1. IsFiniteSet(slots) /\ slots \subseteq Plans
    BY DEF IInv, Types
  <2>2. IsFiniteSet(slots') /\ Cardinality(slots') = Cardinality(slots) + 1
    BY <1>1, <2>1, FS_AddElement
  <2>3. Cardinality(slots) \in Nat
    BY <2>1, FS_CardinalityType
  <2>4. QED
    BY <1>1, <2>1, <2>2, <2>3, CustodianAssumption
<1>7. Types' /\ OnlyChanges(p)
  BY <1>1, <1>2, <1>5, <1>6 DEF IInv, Types, OnlyChanges, SubmitsOn, Stepped
<1>8. ThreadInv(t)'
  <2>1. Ahead(t)' = {"reserved"} /\ Plan(t)' = p
    BY <1>2, OwnStep DEF SubmitsOn
  <2>2. /\ entry'[p] = "Admitted" /\ pool'[p] = "out" /\ Phase(p)' = "Reserved" /\ p \in slots' /\ slot'[p].journal
        /\ thread'[t].result \notin {"Released", "NotFinalizing"}
    BY <1>1, <1>2, <1>3, <1>4, <1>5 DEF SubmitsOn, Phase
  <2>3. QED
    BY <2>1, <2>2 DEF ThreadInv, SubmissionOf, EndingOf, TellingOf, Has, SubmitSteps, EndSteps, FinalSteps, PoolSteps
<1>9. PlanInv(p)'
  <2>1. SlotOK(p)'
    BY <1>4, <1>5 DEF SlotOK, Phase, Custodial, Answered, AlreadyConfirmed
  <2>2. ResidenceOK(p)'
    BY <1>1, <1>2, <1>3, <1>4, <1>5 DEF PlanInv, ResidenceOK, Phase, Resident
  <2>3. Telling(p)'
    BY <1>1, <1>3, <1>4, <1>5 DEF Telling
  <2>4. QED
    BY <2>1, <2>2, <2>3 DEF PlanInv
<1>10. QED
  BY <1>1, <1>2, <1>3, <1>7, <1>8, <1>9, SubmissionStep DEF SubmitSteps

LEMMA AbandonIsSafe ==
  ASSUME IInv, NEW t \in Threads, NEW p \in Plans, p = Plan(t), Abandon(t)
  PROVE  IInv' /\ Refines
<1> DEFINE s == [slot[p] EXCEPT !.phase = "Released"]
<1>1. PICK result \in Results : Mutation(p, "Failed", result)
  BY DEF Abandon
<1>2. /\ At(t, "abandon") /\ Ends(t) /\ SetSlot(p, s) /\ slots' = slots \ {p}
      /\ UNCHANGED <<pool, poolAlive, told, completed>>
  BY DEF Abandon
<1>3. /\ t = Submitter(p) /\ Ahead(t) = {"abandon"} /\ ThreadInv(t) /\ PlanInv(p) /\ SubmitsOn(t, p, "abandon", {})
      /\ slot[p] \in SlotStates
  BY <1>2, SubmitStep DEF SubmitSteps
<1>4. entry[p] \in {"Admitted", "Running"} /\ pool[p] = "out" /\ Phase(p) = "Reserved"
  BY <1>3 DEF ThreadInv, SubmissionOf, Has, SubmitSteps
<1>5. /\ s \in SlotStates /\ s.phase = "Released" /\ s.receipt = slot[p].receipt
      /\ s.poolOwned = slot[p].poolOwned /\ s.delivered = slot[p].delivered /\ s.evidence = slot[p].evidence
  BY <1>3 DEF SlotStates, Phases
<1> HIDE DEF s
<1>6. slot' \in [Plans -> SlotStates] /\ slot'[p] = s /\ \A q \in Plans : q # p => slot'[q] = slot[q]
  BY <1>2, <1>5, SlotIsSet DEF IInv, Types
<1>7. Mutated(p, "Failed", result)
  BY <1>1, MutationIs DEF IInv, Types, EntryStates, Terminal
<1>8. Types' /\ OnlyChanges(p)
  <2>1. IsFiniteSet(slots') /\ Cardinality(slots') <= MaxPendingSlots /\ slots' \subseteq Plans
    BY <1>2, FewerSlots
  <2>2. QED
    BY <1>2, <1>3, <1>6, <1>7, <2>1 DEF IInv, Types, OnlyChanges, Mutated, SubmitsOn, Stepped
<1>9. ThreadInv(t)'
  BY <1>3, IdleInv DEF SubmitsOn
<1>10. ~slot[p].receipt /\ ~slot[p].delivered /\ ~slot[p].poolOwned /\ told[p] = <<>>
  BY <1>3, <1>4, NotRecorded DEF PlanInv, SlotOK, ResidenceOK, Custodial, SlotStates
<1>11. PlanInv(p)'
  <2>1. SlotOK(p)'
    BY <1>5, <1>6, <1>10 DEF SlotOK, Phase, Custodial, Answered, AlreadyConfirmed
  <2>2. ResidenceOK(p)'
    BY <1>2, <1>4, <1>5, <1>6, <1>10 DEF ResidenceOK, Phase, Resident
  <2>3. Telling(p)'
    BY <1>2, <1>5, <1>6, <1>10 DEF Telling
  <2>4. QED
    BY <2>1, <2>2, <2>3 DEF PlanInv
<1>12. /\ journal' = "none" => journal = "none"
       /\ entry[p] = "Running" => slot'[p].evidence = slot[p].evidence /\ entry'[p] \notin {"None", "Admitted"}
  BY <1>5, <1>6, <1>7 DEF Mutated
<1>13. QED
  BY <1>2, <1>3, <1>4, <1>8, <1>9, <1>11, <1>12, SubmissionStep

LEMMA TryEnqueueIsSafe ==
  ASSUME IInv, NEW t \in Threads, NEW p \in Plans, p = Plan(t), TryEnqueue(t)
  PROVE  IInv' /\ Refines
<1>1. /\ At(t, "enqueue") /\ Does(t, <<"commit">>) /\ pool' = [pool EXCEPT ![p] = "listed"]
      /\ UNCHANGED <<entry, journal, slot, slots, poolAlive, told, completed>>
  BY DEF TryEnqueue, custody
<1>2. /\ t = Submitter(p) /\ Ahead(t) = {"enqueue"} /\ ThreadInv(t) /\ PlanInv(p) /\ SubmitsOn(t, p, "enqueue", {"commit"})
  BY <1>1, SubmitStep DEF SubmitSteps
<1>3. Phase(p) = "EnqueueInProgress" /\ pool[p] = "out"
  BY <1>2 DEF ThreadInv, SubmissionOf, Has, SubmitSteps
<1>4. p \in slots /\ entry[p] = "Running"
  BY <1>3, InCustody DEF Custodial
<1>5. Types' /\ OnlyChanges(p) /\ pool'[p] = "listed"
  BY <1>1, <1>2 DEF IInv, Types, OnlyChanges, SubmitsOn, Stepped
<1>6. Ahead(t)' = {"commit"} /\ Plan(t)' = p
  BY <1>2, OwnStep DEF SubmitsOn
<1>7. ThreadInv(t)'
  <2>1. thread'[t].result \notin {"Released", "NotFinalizing"}
    BY <1>2, <1>3 DEF SubmitsOn
  <2>2. QED
    BY <1>5, <1>6, <2>1 DEF ThreadInv, SubmissionOf, EndingOf, TellingOf, Has, SubmitSteps, EndSteps, FinalSteps, PoolSteps
<1>8. PlanInv(p)'
  <2>1. SlotOK(p)'
    BY <1>1, <1>2, <1>3 DEF PlanInv, SlotOK, Phase, IsSettled
  <2>2. Submits(p, {"enqueue", "commit"})'
    BY <1>2, <1>6 DEF Submits, Has
  <2>3. ResidenceOK(p)'
    BY <1>1, <1>3, <1>4, <1>5, <2>2 DEF ResidenceOK, Phase
  <2>4. Telling(p)'
    BY <1>1, <1>4, <1>2, NotRecorded DEF PlanInv, Telling
  <2>5. QED
    BY <2>1, <2>3, <2>4 DEF PlanInv
<1>9. QED
  BY <1>1, <1>2, <1>3, <1>4, <1>5, <1>7, <1>8, SubmissionStep DEF SubmitSteps

-----------------------------------------------------------------------------
(* Calls that begin.                                                          *)

Begun(t, p, todo) ==
  /\ ThreadsTyped' /\ ThreadsOK' /\ OnlyMoves(t, p)
  /\ Ahead(t) = {} /\ thread[t] = Idle
  /\ Ahead(t)' = todo /\ Plan(t)' = p /\ thread'[t].result = Unknown /\ thread'[t] # Idle

LEMMA BeginsCall ==
  ASSUME IInv, NEW t \in Threads, NEW p \in Plans, NEW todo \in Seq(Steps), todo # <<>>, InOrder(todo),
         MayHave(t, p, Elements(todo)), \A q \in Plans : t \in {Submitter(q), Worker(q)} => p = q,
         Begins(t, p, todo)
  PROVE  Begun(t, p, Elements(todo))
<1>1. ThreadsTyped /\ ThreadsOK /\ Elements(todo) # {}
  BY EmptyList DEF IInv, Types
<1>2. /\ ThreadsTyped' /\ ThreadsOK' /\ LeftWith(t, p, Elements(todo))
      /\ thread[t] = Idle /\ Ahead(t) = {} /\ thread'[t].result = Unknown
  BY <1>1, CallBegun
<1>3. Ahead(t)' = Elements(todo) /\ Plan(t)' = p /\ thread'[t] # Idle
  BY <1>1, <1>2, IdleIsEmpty DEF LeftWith, Ahead, Plan
<1>4. OnlyMoves(t, p)
  BY <1>2, OneThreadMoves
<1>5. QED
  BY <1>2, <1>3, <1>4 DEF Begun

LEMMA BeginStep ==
  ASSUME IInv, NEW t \in Threads, NEW p \in Plans, NEW todo, Begun(t, p, todo),
         \A q \in Plans : t # Submitter(q),
         todo \cap (SubmitSteps \cup EndSteps \cup FinalSteps \cup {"reconcile"}) = {},
         todo \cap PoolSteps # {} => poolAlive,
         "settle" \in todo => slot[p].evidence # Unknown /\ entry[p] \notin {"None", "Admitted"},
         UNCHANGED <<entry, journal, custody, poolAlive, told, completed>>,
         pool' = pool \/ (pool[p] = "listed" /\ poolAlive /\ pool' = [pool EXCEPT ![p] = "finalizing"])
  PROVE  IInv' /\ Refines
<1>1. UNCHANGED <<entry, journal, slot, slots, poolAlive, told, completed>>
  BY DEF custody
<1>2. OnlyMoves(t, p) /\ ThreadsOK' /\ Ahead(t) = {} /\ Ahead(t)' = todo /\ Plan(t)' = p
  BY DEF Begun
<1>3. /\ pool'[p] = pool[p] \/ (pool[p] = "listed" /\ pool'[p] = "finalizing" /\ poolAlive)
      /\ \A q \in Plans : q # p => pool'[q] = pool[q]
      /\ pool' \in [Plans -> {"out", "listed", "finalizing", "busy", "gone"}]
  BY DEF IInv, Types
<1>4. Types' /\ OnlyChanges(p)
  BY <1>1, <1>3 DEF IInv, Types, OnlyChanges, Begun
<1>5. \A q \in Plans : Submitting(q)' <=> Submitting(q)
  BY <1>2 DEF OnlyMoves, Submitting
<1>6. ThreadInv(t)'
  <2>1. /\ \A x \in todo : x \notin SubmitSteps /\ x \notin EndSteps /\ x \notin FinalSteps
        /\ (\E x \in PoolSteps : x \in todo) => poolAlive'
        /\ "settle" \in todo => slot'[p].evidence # Unknown /\ entry'[p] \notin {"None", "Admitted"}
    BY <1>1
  <2>2. SubmissionOf(t)'
    BY <1>2, <2>1 DEF SubmissionOf, Has, SubmitSteps
  <2>3. EndingOf(t)'
    BY <1>2, <2>1 DEF EndingOf, Has, EndSteps, FinalSteps, Begun, Unknown
  <2>4. TellingOf(t)'
    BY <1>2, <2>1 DEF TellingOf, Has, EndSteps
  <2>5. QED
    BY <2>2, <2>3, <2>4 DEF ThreadInv
<1>7. ASSUME NEW u \in Threads, u # t, Plan(u) = p, thread'[u] = thread[u] PROVE ThreadInv(u)'
  <2>1. ThreadInv(u) /\ Ahead(u)' = Ahead(u) /\ Plan(u)' = p
    BY <1>7, BeforeStep DEF Ahead, Plan
  <2>2. SubmissionOf(u)'
    BY <1>1, <1>3, <1>7, <2>1 DEF ThreadInv, SubmissionOf, Has, Phase
  <2>3. EndingOf(u)'
    BY <1>1, <1>3, <1>5, <1>7, <2>1 DEF ThreadInv, EndingOf, Has, Phase, IsSettled
  <2>4. TellingOf(u)'
    BY <1>1, <1>7, <2>1 DEF ThreadInv, TellingOf, Has
  <2>5. QED
    BY <2>2, <2>3, <2>4 DEF ThreadInv
<1>8. PlanInv(p)'
  <2>1. PlanInv(p)
    BY BeforeStep
  <2>2. SlotOK(p)'
    BY <1>1, <1>5, <2>1 DEF PlanInv, SlotOK, Phase, IsSettled
  <2>3. ASSUME NEW u \in Threads, NEW x, x \in Ahead(u) PROVE thread'[u] = thread[u]
    BY <1>2, <2>3 DEF OnlyMoves
  <2>4. Leaving(p) => Leaving(p)'
    BY <2>3 DEF Leaving, Has, Ahead, Plan
  <2>5. Ahead(Submitter(p))' = Ahead(Submitter(p))
    BY <1>2 DEF OnlyMoves, Ahead
  <2>6. ResidenceOK(p)'
    BY <1>1, <1>3, <2>1, <2>4, <2>5 DEF PlanInv, ResidenceOK, Phase, Resident, Submits, Has
  <2>7. Telling(p)'
    <3>1. ASSUME NEW u \in Threads, Plan(u) = p, Has(u, {"tell"}) PROVE Plan(u)' = p /\ Has(u, {"tell"})'
      BY <2>3, <3>1 DEF Has, Ahead, Plan
    <3>2. QED
      BY <1>1, <2>1, <3>1 DEF PlanInv, Telling
  <2>8. QED
    BY <2>2, <2>6, <2>7 DEF PlanInv
<1>9. Sharing'
  <2>1. ASSUME NEW u \in Threads, Has(u, {"reconcile"})' PROVE Has(u, {"reconcile"})
    BY <1>2, <2>1 DEF OnlyMoves, Has, Ahead
  <2>2. \A q \in Plans : Resident(q)' => Resident(q)
    BY <1>1, <1>3 DEF Resident
  <2>3. \A q \in Holders' : q \in Holders
    BY <1>1, <1>5, <2>2 DEF Holders, Kept
  <2>4. QED
    BY <1>1, <1>5, <2>1, <2>3 DEF IInv, Sharing
<1>10. Refines
  <2>1. \A q \in Plans : pool'[q] = "gone" <=> pool[q] = "gone"
    BY <1>3
  <2>2. QED
    BY <1>1, <1>4, <2>1, RecordingIsPromised DEF IInv
<1>11. "tell" \notin todo /\ FinalSteps \cap todo = {}
  BY DEF EndSteps
<1>12. QED
  BY <1>2, <1>4, <1>6, <1>7, <1>8, <1>9, <1>10, <1>11, OneStep DEF Has

LEMMA TakeJournalIsSafe ==
  ASSUME IInv, NEW p \in Plans, TakeJournal(p)
  PROVE  IInv' /\ Refines
<1> DEFINE t == Submitter(p)
<1>1. /\ Begins(t, p, <<"admit">>) /\ entry[p] = "None" /\ journal # "none" /\ poolAlive /\ ~Busy(Recovering)
      /\ UNCHANGED <<entry, journal, slot, slots, pool, poolAlive, told, completed>>
  BY DEF TakeJournal, custody
<1>2. t \in Threads /\ \A q \in Plans : t \in {Submitter(q), Worker(q)} => p = q
  BY ThreadNames
<1> HIDE DEF t
<1>3. Begun(t, p, {"admit"})
  <2>1. <<"admit">> \in Seq(Steps) /\ <<"admit">> # <<>> /\ InOrder(<<"admit">>) /\ Elements(<<"admit">>) = {"admit"}
    <3>1. "admit" \in Steps
      BY DEF Steps
    <3>2. QED
      BY <3>1, ShortLists
  <2>2. MayHave(t, p, {"admit"})
    BY DEF MayHave, SubmitSteps, RecoverSteps, t
  <2>3. QED
    BY <1>1, <1>2, <2>1, <2>2, BeginsCall
<1>4. PlanInv(p) /\ pool[p] = "out"
  BY <1>1, BeforeStep DEF PlanInv, ResidenceOK
<1>5. Types' /\ OnlyChanges(p)
  BY <1>1, <1>3 DEF IInv, Types, OnlyChanges, Begun
<1>6. ThreadInv(t)'
  BY <1>1, <1>3, <1>4 DEF Begun, ThreadInv, SubmissionOf, EndingOf, TellingOf, Has, SubmitSteps, EndSteps, FinalSteps, PoolSteps, Unknown
<1>7. ASSUME NEW u \in Threads, u # t, Plan(u) = p, thread'[u] = thread[u] PROVE ThreadInv(u)'
  <2>1. /\ ThreadInv(u) /\ ~Has(u, SubmitSteps) /\ ~Has(u, EndSteps) /\ ~Has(u, FinalSteps)
        /\ thread[u].result \notin {"Released", "NotFinalizing"} /\ ~Has(u, {"settle"})
    BY <1>1, <1>4, <1>7, BeforeStep, NotRecorded DEF ThreadInv, EndingOf, SubmissionOf, t
  <2>2. Ahead(u)' = Ahead(u) /\ thread'[u].result = thread[u].result
    BY <1>7 DEF Ahead
  <2>3. QED
    BY <1>1, <2>1, <2>2 DEF ThreadInv, SubmissionOf, EndingOf, TellingOf, Has, SubmitSteps, EndSteps
<1>8. PlanInv(p)'
  <2>1. SlotOK(p)'
    BY <1>1, <1>4, NotRecorded DEF PlanInv, SlotOK, Phase, IsSettled, AlreadyConfirmed
  <2>2. ResidenceOK(p)'
    BY <1>1, <1>4 DEF PlanInv, ResidenceOK, SlotOK, Phase, Resident, Custodial
  <2>3. Telling(p)'
    BY <1>1, <1>4, NotRecorded DEF PlanInv, Telling
  <2>4. QED
    BY <2>1, <2>2, <2>3 DEF PlanInv
<1>9. Sharing'
  <2>1. ASSUME NEW u \in Threads, Has(u, {"reconcile"})' PROVE FALSE
    <3>1. Has(u, {"reconcile"})
      BY <1>3, <2>1 DEF Begun, OnlyMoves, Has, Ahead
    <3>2. u \in Recovering /\ Ahead(u) # {}
      BY <3>1, BeforeStep DEF Has, RecoverSteps
    <3>3. thread[u] # Idle
      BY <3>2, BusyOrIdle DEF IInv, Types
    <3>4. QED
      BY <1>1, <3>2, <3>3 DEF Busy
  <2>2. QED
    BY <1>1, <2>1 DEF Sharing
<1>10. Refines
  BY <1>1, <1>5, RecordingIsPromised DEF IInv
<1>11. QED
  BY <1>2, <1>3, <1>5, <1>6, <1>7, <1>8, <1>9, <1>10, OneStep DEF Begun, Has, FinalSteps

LEMMA CallsAreSafe ==
  ASSUME IInv, NEW t \in Threads, NEW p \in Plans,
         \/ t \in Recovering /\ Service(t, p)
         \/ t \in Releasing /\ (CallReleaseReconciled(t, p) \/ CallRetryFinalization(t, p))
         \/ t = Worker(p) /\ OperationDidFinish(p)
  PROVE  IInv' /\ Refines
<1> DEFINE Fits(todo) ==
             /\ todo \in Seq(Steps) /\ todo # <<>> /\ InOrder(todo) /\ MayHave(t, p, Elements(todo))
             /\ Elements(todo) \cap (SubmitSteps \cup EndSteps \cup FinalSteps \cup {"reconcile"}) = {}
             /\ Elements(todo) \cap PoolSteps # {} => poolAlive
             /\ "settle" \in Elements(todo) => slot[p].evidence # Unknown /\ entry[p] \notin {"None", "Admitted"}
<1>1. /\ \A q \in Plans : t # Submitter(q)
      /\ \A q \in Plans : t = Worker(q) => p = q
  BY ThreadNames
<1>2. /\ UNCHANGED <<entry, journal, custody, poolAlive, told, completed>>
      /\ pool' = pool \/ (pool[p] = "listed" /\ poolAlive /\ pool' = [pool EXCEPT ![p] = "finalizing"])
  BY DEF Service, CallReleaseReconciled, CallRetryFinalization, OperationDidFinish
<1>3. /\ \A x \in {"release", "retryFinalization", "reopen"} :
           x \in Steps /\ <<x>> \in Seq(Steps) /\ InOrder(<<x>>) /\ Elements(<<x>>) = {x} /\ <<x>> # <<>>
      /\ <<"settle", "reopen">> \in Seq(Steps) /\ InOrder(<<"settle", "reopen">>)
      /\ Elements(<<"settle", "reopen">>) = {"settle", "reopen"} /\ <<"settle", "reopen">> # <<>>
  <2>1. \A x \in {"release", "retryFinalization", "reopen", "settle"} : x \in Steps
    BY DEF Steps
  <2>2. "reopen" \in After("settle")
    BY DEF After
  <2>3. \A x \in {"release", "retryFinalization", "reopen"} :
           x \in Steps /\ <<x>> \in Seq(Steps) /\ InOrder(<<x>>) /\ Elements(<<x>>) = {x} /\ <<x>> # <<>>
    BY <2>1, ShortLists
  <2>4. QED
    BY <2>1, <2>2, <2>3, ShortLists
<1>4. PICK todo : Fits(todo) /\ Begins(t, p, todo)
  <2>1. CASE t \in Recovering /\ Service(t, p)
    <3>1. (Begins(t, p, <<"settle", "reopen">>) /\ Phase(p) = "RetryRequired") \/ Begins(t, p, <<"reopen">>)
      BY <2>1 DEF Service
    <3>2. Phase(p) = "RetryRequired" => slot[p].evidence # Unknown /\ entry[p] = "Running"
      BY BeforeStep DEF PlanInv, SlotOK, Answered, Custodial
    <3>3. (Phase(p) = "RetryRequired" => Fits(<<"settle", "reopen">>)) /\ Fits(<<"reopen">>)
      BY <1>3, <2>1, <3>2 DEF MayHave, SubmitSteps, RecoverSteps, EndSteps, FinalSteps, PoolSteps
    <3>4. QED
      BY <3>1, <3>3
  <2>2. CASE t \in Releasing /\ CallReleaseReconciled(t, p)
    <3>1. Fits(<<"release">>)
      BY <1>3 DEF MayHave, SubmitSteps, RecoverSteps, EndSteps, FinalSteps, PoolSteps
    <3>2. QED
      BY <2>2, <3>1 DEF CallReleaseReconciled
  <2>3. CASE (t \in Releasing /\ CallRetryFinalization(t, p)) \/ (t = Worker(p) /\ OperationDidFinish(p))
    <3>1. poolAlive /\ Begins(t, p, <<"retryFinalization">>)
      BY <2>3 DEF CallRetryFinalization, OperationDidFinish
    <3>2. Fits(<<"retryFinalization">>)
      BY <1>3, <3>1 DEF MayHave, SubmitSteps, RecoverSteps, EndSteps, FinalSteps, PoolSteps
    <3>3. QED
      BY <3>1, <3>2
  <2>4. QED
    BY <2>1, <2>2, <2>3
<1>5. Begun(t, p, Elements(todo))
  BY <1>1, <1>4, BeginsCall
<1>6. QED
  BY <1>1, <1>2, <1>4, <1>5, BeginStep

-----------------------------------------------------------------------------
(* Telling, and the end of custody.                                           *)

LEMMA ThreadAt ==
  ASSUME IInv, NEW t \in Threads, NEW p, p = Plan(t), NEW step \in Steps, At(t, step)
  PROVE  /\ p \in Plans /\ step \in Ahead(t) /\ Ahead(t) \subseteq {step} \cup After(step)
         /\ ThreadInv(t) /\ PlanInv(p) /\ slot[p] \in SlotStates
         /\ step \in EndSteps => IsSettled(p)
<1>1. IsAt(t, p, step)
  BY AtStep DEF IInv, Types
<1>2. p \in Plans /\ step \in Ahead(t) /\ Ahead(t) \subseteq {step} \cup After(step)
  BY <1>1 DEF IsAt
<1>3. ThreadInv(t) /\ PlanInv(p) /\ slot[p] \in SlotStates
  BY <1>2, BeforeStep DEF IInv, Types
<1>4. step \in EndSteps => IsSettled(p)
  BY <1>2, <1>3 DEF ThreadInv, EndingOf, Has
<1>5. QED
  BY <1>2, <1>3, <1>4

LEMMA CloseIsSafe ==
  ASSUME IInv, NEW t \in Threads, NEW p \in Plans, p = Plan(t), Close(t)
  PROVE  IInv' /\ Refines
<1> DEFINE s    == [slot[p] EXCEPT !.phase = "Released"]
           todo == Ahead(t) \ {"close"}
<1>1. /\ At(t, "close") /\ Does(t, <<>>) /\ SetSlot(p, s)
      /\ UNCHANGED <<entry, journal, slots, pool, poolAlive, told, completed>>
  BY DEF Close
<1>2. Stepped(t, p, "close", todo) /\ thread'[t].result \in {Unknown, thread[t].result}
  BY <1>1, ShortSteps DEF Steps
<1>3. /\ "close" \in Ahead(t) /\ Ahead(t) \subseteq {"close", "erase"} /\ ThreadInv(t) /\ PlanInv(p)
      /\ slot[p] \in SlotStates /\ IsSettled(p)
  BY <1>1, ThreadAt DEF Steps, After, EndSteps
<1>4. ~Submitting(p) /\ (pool[p] \in {"out", "gone"} \/ ~poolAlive)
  BY <1>3 DEF ThreadInv, EndingOf, Has
<1>5. /\ s \in SlotStates /\ s.phase = "Released"
      /\ s.receipt = slot[p].receipt /\ s.journal = slot[p].journal /\ s.evidence = slot[p].evidence
      /\ s.status = slot[p].status /\ s.poolOwned = slot[p].poolOwned /\ s.delivered = slot[p].delivered
  BY <1>3 DEF SlotStates, Phases
<1> HIDE DEF s
<1>6. slot'[p] = s
  BY <1>1, <1>5, SlotIsSet DEF IInv, Types
<1>7. slot[p].receipt = FALSE
  BY <1>3 DEF PlanInv, SlotOK, IsSettled, Recorded, Terminal, SlotStates
<1>8. IsSettled(p)'
  BY <1>1, <1>3, <1>5, <1>6 DEF IsSettled, Outcome
<1>9. Respects(t, p, s)
  <2>1. pool[p] # "busy" \/ ~poolAlive
    BY <1>4
  <2>2. QED
    BY <1>4, <1>5, <2>1 DEF Respects, Outcome
<1>10. Ahead(t)' = todo /\ (Plan(t)' = p \/ (todo = {} /\ thread'[t].result = Unknown)) /\ ~Submitting(p)'
  BY <1>2, <1>4, OwnStep
<1>11. ThreadInv(t)'
  <2>1. Ahead(t)' \subseteq {"erase"}
    BY <1>3, <1>10
  <2>2. thread'[t].result \in {"Released", "NotFinalizing"} => Plan(t)' = p /\ pool'[p] = "gone"
    BY <1>1, <1>2, <1>3, <1>10 DEF ThreadInv, EndingOf, Unknown
  <2>3. QED
    BY <1>1, <1>4, <1>8, <1>10, <2>1, <2>2
       DEF ThreadInv, SubmissionOf, EndingOf, TellingOf, Has, SubmitSteps, EndSteps, FinalSteps, PoolSteps
<1>12. PlanInv(p)'
  <2>1. SlotOK(p)'
    BY <1>5, <1>6, <1>7, <1>8 DEF SlotOK, Phase, Custodial, Answered, AlreadyConfirmed
  <2>2. Leaving(p) => Leaving(p)'
    BY <1>2, StillLeaving
  <2>3. ResidenceOK(p)'
    BY <1>1, <1>3, <1>5, <1>6, <2>2 DEF PlanInv, ResidenceOK, Phase, Resident
  <2>4. Telling(p)'
    BY <1>1, <1>2, <1>3, <1>5, <1>6, StillLeaving DEF PlanInv, Telling
  <2>5. QED
    BY <2>1, <2>3, <2>4 DEF PlanInv
<1>13. "reconcile" \notin todo /\ "tell" \notin todo /\ FinalSteps \cap todo = {}
  BY <1>3 DEF FinalSteps
<1>14. QED
  BY <1>1, <1>2, <1>5, <1>9, <1>11, <1>12, <1>13, SlotStep

LEMMA DeliverTerminalOutcomeIsSafe ==
  ASSUME IInv, NEW t \in Threads, NEW p \in Plans, p = Plan(t), DeliverTerminalOutcome(t)
  PROVE  IInv' /\ Refines
<1>1. At(t, "deliver") /\ UNCHANGED <<entry, journal, slots, pool, poolAlive, told, completed>>
  BY DEF DeliverTerminalOutcome
<1>2. /\ "deliver" \in Ahead(t) /\ Ahead(t) \subseteq {"deliver", "close", "erase", "letGo", "confirm"}
      /\ ThreadInv(t) /\ PlanInv(p) /\ slot[p] \in SlotStates /\ IsSettled(p)
  BY <1>1, ThreadAt DEF Steps, After, EndSteps
<1>3. CASE slot[p].delivered \/ ~Confirmed(slot[p])
  <2> DEFINE todo == Ahead(t) \ {"deliver"}
  <2>1. Does(t, <<>>) /\ UNCHANGED slot
    BY <1>3 DEF DeliverTerminalOutcome
  <2>2. Stepped(t, p, "deliver", todo) /\ thread'[t].result \in {Unknown, thread[t].result}
    BY <1>1, <2>1, ShortSteps DEF Steps
  <2>3. Ahead(t)' = todo /\ (Plan(t)' = p \/ (todo = {} /\ thread'[t].result = Unknown))
        /\ (Submitting(p)' => Submitting(p))
    BY <2>2, OwnStep
  <2>4. ThreadInv(t)'
    <3>1. Ahead(t)' \subseteq Ahead(t) \ {"deliver", "tell"}
      BY <1>2, <2>3
    <3>2. thread'[t].result \in {"Released", "NotFinalizing"} => Plan(t)' = p /\ pool'[p] = "gone"
      BY <1>1, <1>2, <2>2, <2>3 DEF ThreadInv, EndingOf, Unknown
    <3>3. SubmissionOf(t)' /\ TellingOf(t)'
      BY <1>2, <3>1 DEF SubmissionOf, TellingOf, Has, SubmitSteps
    <3>4. Plan(t)' = p => EndingOf(t)'
      BY <1>1, <1>2, <1>3, <2>1, <2>3, <3>2 DEF ThreadInv, EndingOf, Has, FinalSteps, PoolSteps, EndSteps, IsSettled, Phase
    <3>5. Plan(t)' # p => EndingOf(t)'
      BY <2>3, <3>2 DEF EndingOf, Has
    <3>6. QED
      BY <3>3, <3>4, <3>5 DEF ThreadInv
  <2>5. /\ {"letGo", "tell", "enqueue", "commit"} \cap Ahead(t) \subseteq todo
        /\ "reconcile" \in todo => "reconcile" \in Ahead(t)
        /\ "tell" \in todo => "tell" \in Ahead(t)
        /\ FinalSteps \cap todo # {} => Has(t, FinalSteps)
    BY DEF Has
  <2>6. QED
    BY <1>1, <2>1, <2>2, <2>4, <2>5, ThreadStep DEF custody
<1>4. CASE ~slot[p].delivered /\ Confirmed(slot[p])
  <2> DEFINE s    == [slot[p] EXCEPT !.delivered = TRUE]
             todo == {"tell"} \cup (Ahead(t) \ {"deliver"})
  <2>1. Does(t, <<"tell">>) /\ SetSlot(p, s)
    BY <1>4 DEF DeliverTerminalOutcome
  <2>2. Stepped(t, p, "deliver", todo) /\ thread'[t].result \in {Unknown, thread[t].result}
    <3>1. After("deliver") \subseteq After("tell") /\ "tell" \notin SubmitSteps \cup {"settle"} \cup RecoverSteps
      BY DEF After, SubmitSteps, RecoverSteps
    <3>2. "deliver" \in Steps /\ "tell" \in Steps
      BY DEF Steps
    <3>3. QED
      BY <1>1, <2>1, <3>1, <3>2, ShortSteps
  <2>3. /\ s \in SlotStates /\ s.delivered
        /\ s.phase = slot[p].phase /\ s.receipt = slot[p].receipt /\ s.journal = slot[p].journal
        /\ s.evidence = slot[p].evidence /\ s.status = slot[p].status /\ s.poolOwned = slot[p].poolOwned
    BY <1>2 DEF SlotStates
  <2> HIDE DEF s
  <2>4. slot'[p] = s
    BY <2>1, <2>3, SlotIsSet DEF IInv, Types
  <2>5. IsSettled(p)' /\ told[p] = <<>>
    BY <1>1, <1>2, <1>4, <2>3, <2>4 DEF IsSettled, Outcome, PlanInv, Telling
  <2>6. Respects(t, p, s)
    <3>1. pool[p] # "busy" \/ ~poolAlive \/ Has(t, FinalSteps)
      BY <1>2 DEF ThreadInv, EndingOf, Has, FinalSteps
    <3>2. QED
      BY <2>3, <3>1 DEF Respects, Outcome, Phase
  <2>7. Ahead(t)' = todo /\ Plan(t)' = p /\ (Submitting(p)' => Submitting(p))
    BY <2>2, OwnStep
  <2>8. ThreadInv(t)'
    <3>1. Ahead(t)' \subseteq {"tell", "close", "erase", "letGo", "confirm"} /\ "tell" \in Ahead(t)'
          /\ \A x \in {"close", "erase", "letGo", "confirm"} : x \in Ahead(t)' <=> x \in Ahead(t)
      BY <1>2, <2>7
    <3>2. SubmissionOf(t)'
      BY <3>1 DEF SubmissionOf, Has, SubmitSteps
    <3>3. TellingOf(t)'
      BY <1>1, <2>3, <2>4, <2>5, <2>7 DEF TellingOf
    <3>4. thread'[t].result \in {"Released", "NotFinalizing"} => pool'[p] = "gone"
      BY <1>1, <1>2, <2>2 DEF ThreadInv, EndingOf, Unknown
    <3>5. EndingOf(t)'
      BY <1>1, <1>2, <2>3, <2>4, <2>5, <2>7, <3>1, <3>4 DEF ThreadInv, EndingOf, Has, FinalSteps, PoolSteps, EndSteps, Phase
    <3>6. QED
      BY <3>2, <3>3, <3>5 DEF ThreadInv
  <2>9. PlanInv(p)'
    <3>1. SlotOK(p)'
      BY <1>1, <1>2, <2>3, <2>4, <2>5, <2>7 DEF PlanInv, SlotOK, Phase
    <3>2. Leaving(p) => Leaving(p)'
      BY <2>2, StillLeaving
    <3>3. Submits(p, {"enqueue", "commit"}) => Submits(p, {"enqueue", "commit"})'
      BY <1>2, <2>2, OwnStep DEF Submits, Has
    <3>4. Submits(p, {"commit"}) => Submits(p, {"commit"})'
      BY <1>2, <2>2, OwnStep DEF Submits, Has
    <3>5. ResidenceOK(p)'
      BY <1>1, <1>2, <2>3, <2>4, <3>2, <3>3, <3>4 DEF PlanInv, ResidenceOK, Phase, Resident
    <3>6. Telling(p)'
      BY <2>3, <2>4, <2>7 DEF Telling, Has
    <3>7. QED
      BY <3>1, <3>5, <3>6 DEF PlanInv
  <2>10. "reconcile" \notin todo /\ (FinalSteps \cap todo # {} => Has(t, FinalSteps))
    BY <1>2 DEF FinalSteps, Has
  <2>11. QED
    BY <1>1, <1>4, <2>1, <2>2, <2>3, <2>6, <2>8, <2>9, <2>10, SlotStep
<1>5. QED
  BY <1>3, <1>4

LEMMA TellIsSafe ==
  ASSUME IInv, NEW t \in Threads, NEW p \in Plans, p = Plan(t), Tell(t)
  PROVE  IInv' /\ Refines
<1> DEFINE todo == Ahead(t) \ {"tell"}
<1>1. /\ At(t, "tell") /\ Does(t, <<>>) /\ told' = [told EXCEPT ![p] = Append(@, Outcome(slot[p]))]
      /\ UNCHANGED <<entry, journal, slot, slots, pool, poolAlive, completed>>
  BY DEF Tell, custody
<1>2. Stepped(t, p, "tell", todo) /\ thread'[t].result \in {Unknown, thread[t].result}
  BY <1>1, ShortSteps DEF Steps
<1>3. /\ "tell" \in Ahead(t) /\ Ahead(t) \subseteq {"tell", "close", "erase", "letGo", "confirm"}
      /\ ThreadInv(t) /\ PlanInv(p) /\ IsSettled(p)
  BY <1>1, ThreadAt DEF Steps, After, EndSteps
<1>4. told[p] = <<>> /\ slot[p].delivered
  BY <1>3 DEF ThreadInv, TellingOf, Has
<1>5. Outcome(slot[p]) = entry[p] /\ entry[p] \in Terminal \cup {"Interrupted"} /\ Recorded(entry[p]) = entry[p]
  BY <1>3 DEF IsSettled, Recorded
<1>6. /\ told' = [told EXCEPT ![p] = <<entry[p]>>] /\ told'[p] = <<entry[p]>> /\ told'[p] # <<>>
      /\ \A q \in Plans : q # p => told'[q] = told[q]
      /\ told' \in [Plans -> Seq(Terminal \cup {"Interrupted"})]
  <2>1. told \in [Plans -> Seq(Terminal \cup {"Interrupted"})]
    BY DEF IInv, Types
  <2>2. Append(told[p], Outcome(slot[p])) = <<entry[p]>>
    BY <1>4, <1>5
  <2>3. <<entry[p]>> \in Seq(Terminal \cup {"Interrupted"}) /\ <<entry[p]>> # <<>>
    BY <1>5
  <2>4. QED
    BY <1>1, <2>1, <2>2, <2>3
<1>7. OnlyMoves(t, p) /\ ThreadsTyped' /\ Ahead(t)' = todo /\ Plan(t) = p /\ (Submitting(p)' => Submitting(p))
      /\ (Plan(t)' = p \/ (todo = {} /\ thread'[t].result = Unknown))
  BY <1>2, OwnStep DEF Stepped
<1>8. Types' /\ OnlyChanges(p)
  BY <1>1, <1>6, <1>7 DEF IInv, Types, OnlyChanges
<1>9. ThreadInv(t)'
  <2>1. SubmissionOf(t)' /\ TellingOf(t)'
    BY <1>3, <1>7 DEF SubmissionOf, TellingOf, Has, SubmitSteps
  <2>2. thread'[t].result \in {"Released", "NotFinalizing"} => Plan(t)' = p /\ pool'[p] = "gone"
    BY <1>1, <1>2, <1>3, <1>7 DEF ThreadInv, EndingOf, Unknown
  <2>3. Plan(t)' = p => EndingOf(t)'
    BY <1>1, <1>3, <1>6, <1>7, <2>2 DEF ThreadInv, EndingOf, Has, FinalSteps, PoolSteps, EndSteps, IsSettled, Phase
  <2>4. Plan(t)' # p => EndingOf(t)'
    BY <1>7, <2>2 DEF EndingOf, Has
  <2>5. QED
    BY <2>1, <2>3, <2>4 DEF ThreadInv
<1>10. ASSUME NEW u \in Threads, u # t, Plan(u) = p, thread'[u] = thread[u] PROVE ThreadInv(u)'
  <2>1. ThreadInv(u) /\ Ahead(u)' = Ahead(u) /\ Plan(u)' = p
    BY <1>10, BeforeStep DEF Ahead, Plan
  <2>2. ~Has(u, {"tell"})
    BY <1>3, <1>7, <1>10 DEF IInv, Alone, Has
  <2>3. SubmissionOf(u)'
    BY <1>1, <1>10, <2>1 DEF ThreadInv, SubmissionOf, Has, Phase
  <2>4. EndingOf(u)'
    BY <1>1, <1>6, <1>7, <1>10, <2>1 DEF ThreadInv, EndingOf, Has, Phase, IsSettled
  <2>5. TellingOf(u)'
    BY <2>1, <2>2 DEF TellingOf, Has
  <2>6. QED
    BY <2>3, <2>4, <2>5 DEF ThreadInv
<1>11. PlanInv(p)'
  <2>1. SlotOK(p)'
    BY <1>1, <1>3, <1>7 DEF PlanInv, SlotOK, Phase, IsSettled
  <2>2. Leaving(p) => Leaving(p)'
    BY <1>2, StillLeaving
  <2>3. Submits(p, {"enqueue", "commit"}) => Submits(p, {"enqueue", "commit"})'
    BY <1>3, <1>2, OwnStep DEF Submits, Has
  <2>4. Submits(p, {"commit"}) => Submits(p, {"commit"})'
    BY <1>3, <1>2, OwnStep DEF Submits, Has
  <2>5. ResidenceOK(p)'
    BY <1>1, <1>3, <2>2, <2>3, <2>4 DEF PlanInv, ResidenceOK, Phase, Resident
  <2>6. Telling(p)'
    BY <1>1, <1>4, <1>6 DEF Telling
  <2>7. QED
    BY <2>1, <2>5, <2>6 DEF PlanInv
<1>12. Sharing'
  <2>1. ASSUME NEW u \in Threads, Has(u, {"reconcile"})' PROVE Has(u, {"reconcile"})
    BY <1>7, <2>1 DEF OnlyMoves, Has, Ahead
  <2>2. \A q \in Plans : Submitting(q)' => Submitting(q)
    BY <1>2 DEF Stepped, IsAt, OnlyMoves, Submitting
  <2>3. \A q \in Holders' : q \in Holders
    BY <1>1, <2>2 DEF Holders, Kept, Resident
  <2>4. QED
    BY <1>1, <2>1, <2>2, <2>3 DEF IInv, Sharing
<1>13. Refines
  <2> DEFINE outcome == [q \in Plans |-> Recorded(entry[q])]
  <2>1. outcome[p] = entry[p] /\ outcome[p] # Unknown
    BY <1>5 DEF Terminal, Unknown
  <2>2. Promise!Tell(p)
    BY <1>1, <1>4, <1>6, <2>1 DEF Promise!Tell
  <2>3. QED
    BY <2>2 DEF Refines, Promise!Next
<1>14. FinalSteps \cap todo # {} => Has(t, FinalSteps)
  BY DEF Has
<1>15. QED
  BY <1>2, <1>7, <1>8, <1>9, <1>10, <1>11, <1>12, <1>13, <1>14, AfterStep DEF Has

LEMMA EraseIsSafe ==
  ASSUME IInv, NEW t \in Threads, NEW p \in Plans, p = Plan(t), Erase(t)
  PROVE  IInv' /\ Refines
<1> DEFINE todo == Ahead(t) \ {"erase"}
<1>1. /\ At(t, "erase") /\ Does(t, <<>>) /\ slots' = slots \ {p}
      /\ UNCHANGED <<entry, journal, slot, pool, poolAlive, told, completed>>
  BY DEF Erase
<1>2. Stepped(t, p, "erase", todo) /\ thread'[t].result \in {Unknown, thread[t].result}
  BY <1>1, ShortSteps DEF Steps
<1>3. /\ "erase" \in Ahead(t) /\ Ahead(t) \subseteq {"erase", "letGo", "confirm"}
      /\ ThreadInv(t) /\ PlanInv(p) /\ IsSettled(p)
  BY <1>1, ThreadAt DEF Steps, After, EndSteps
<1>4. entry[p] \notin {"None", "Admitted", "Running"} /\ ~slot[p].receipt
  BY <1>3 DEF PlanInv, SlotOK, IsSettled, Recorded, Terminal
<1>5. OnlyMoves(t, p) /\ ThreadsTyped' /\ Ahead(t)' = todo /\ Plan(t) = p /\ (Submitting(p)' => Submitting(p))
      /\ (Plan(t)' = p \/ (todo = {} /\ thread'[t].result = Unknown))
  BY <1>2, OwnStep DEF Stepped
<1>6. Types' /\ OnlyChanges(p)
  <2>1. IsFiniteSet(slots') /\ Cardinality(slots') <= MaxPendingSlots /\ slots' \subseteq Plans
    BY <1>1, FewerSlots
  <2>2. QED
    BY <1>1, <1>5, <2>1 DEF IInv, Types, OnlyChanges
<1>7. ThreadInv(t)'
  <2>1. SubmissionOf(t)' /\ TellingOf(t)'
    BY <1>3, <1>5 DEF SubmissionOf, TellingOf, Has, SubmitSteps
  <2>2. thread'[t].result \in {"Released", "NotFinalizing"} => Plan(t)' = p /\ pool'[p] = "gone"
    BY <1>1, <1>2, <1>3, <1>5 DEF ThreadInv, EndingOf, Unknown
  <2>3. Plan(t)' = p => EndingOf(t)'
    BY <1>1, <1>3, <1>5, <2>2 DEF ThreadInv, EndingOf, Has, FinalSteps, PoolSteps, EndSteps, IsSettled, Phase
  <2>4. Plan(t)' # p => EndingOf(t)'
    BY <1>5, <2>2 DEF EndingOf, Has
  <2>5. QED
    BY <2>1, <2>3, <2>4 DEF ThreadInv
<1>8. ASSUME NEW u \in Threads, u # t, Plan(u) = p, thread'[u] = thread[u] PROVE ThreadInv(u)'
  <2>1. ThreadInv(u) /\ Ahead(u)' = Ahead(u) /\ Plan(u)' = p
    BY <1>8, BeforeStep DEF Ahead, Plan
  <2>2. ~Has(u, {"reserved", "abandon", "arm"})
    BY <1>4, <1>8, <2>1 DEF ThreadInv, SubmissionOf, Has
  <2>3. SubmissionOf(u)'
    BY <1>1, <1>8, <2>1, <2>2 DEF ThreadInv, SubmissionOf, Has, Phase
  <2>4. EndingOf(u)'
    BY <1>1, <1>5, <1>8, <2>1 DEF ThreadInv, EndingOf, Has, Phase, IsSettled
  <2>5. TellingOf(u)'
    BY <1>1, <1>8, <2>1 DEF ThreadInv, TellingOf, Has
  <2>6. QED
    BY <2>3, <2>4, <2>5 DEF ThreadInv
<1>9. PlanInv(p)'
  <2>1. SlotOK(p)'
    BY <1>1, <1>3, <1>4, <1>5 DEF PlanInv, SlotOK, Phase, IsSettled
  <2>2. Leaving(p) => Leaving(p)'
    BY <1>2, StillLeaving
  <2>3. Submits(p, {"enqueue", "commit"}) => Submits(p, {"enqueue", "commit"})'
    BY <1>3, <1>2, OwnStep DEF Submits, Has
  <2>4. Submits(p, {"commit"}) => Submits(p, {"commit"})'
    BY <1>3, <1>2, OwnStep DEF Submits, Has
  <2>5. Resident(p) => Leaving(p)
    <3>1. Has(t, {"letGo"}) => Leaving(p)
      BY <1>5 DEF Leaving
    <3>2. ~Has(t, {"letGo"}) => pool[p] \in {"out", "gone"} \/ ~poolAlive \/ Phase(p) = "Finalized"
      BY <1>3 DEF ThreadInv, EndingOf, Has
    <3>3. QED
      BY <1>3, <3>1, <3>2 DEF PlanInv, ResidenceOK, Resident
  <2>6. ResidenceOK(p)'
    BY <1>1, <1>3, <2>2, <2>3, <2>4, <2>5 DEF PlanInv, ResidenceOK, Phase, Resident
  <2>7. Telling(p)'
    BY <1>1, <1>2, <1>3, StillLeaving DEF PlanInv, Telling
  <2>8. QED
    BY <2>1, <2>6, <2>7 DEF PlanInv
<1>10. Sharing'
  <2>1. ASSUME NEW u \in Threads, Has(u, {"reconcile"})' PROVE Has(u, {"reconcile"})
    BY <1>5, <2>1 DEF OnlyMoves, Has, Ahead
  <2>2. \A q \in Plans : Submitting(q)' => Submitting(q)
    BY <1>2 DEF Stepped, IsAt, OnlyMoves, Submitting
  <2>3. \A q \in Holders' : q \in Holders
    BY <1>1, <2>2 DEF Holders, Kept, Resident
  <2>4. QED
    BY <1>1, <2>1, <2>2, <2>3 DEF IInv, Sharing
<1>11. Refines
  BY <1>1, <1>6, RecordingIsPromised DEF IInv
<1>12. FinalSteps \cap todo # {} => Has(t, FinalSteps)
  BY DEF Has
<1>13. QED
  BY <1>2, <1>5, <1>6, <1>7, <1>8, <1>9, <1>10, <1>11, <1>12, AfterStep DEF Has

-----------------------------------------------------------------------------
(* The pool: of an operation that is over, one thread runs the finalizer.     *)

LEMMA ReportsStep ==
  ASSUME IInv, NEW t \in Threads, NEW step \in Steps, At(t, step),
         NEW result \in CallResults, Reports(t, result)
  PROVE  Stepped(t, Plan(t), step, Ahead(t) \ {step}) /\ thread'[t].result \in {Unknown, result}
<1>1. ThreadsTyped /\ ThreadsOK
  BY DEF IInv, Types
<1>2. IsAt(t, Plan(t), step)
  BY <1>1, AtStep
<1>3. /\ ThreadsTyped' /\ ThreadsOK' /\ LeftWith(t, Plan(t), Ahead(t) \ {step})
      /\ thread'[t].result \in {Unknown, result}
  BY <1>1, CallReported
<1>4. OnlyMoves(t, Plan(t))
  BY <1>2, <1>3, OneThreadMoves DEF IsAt
<1>5. QED
  BY <1>2, <1>3, <1>4 DEF Stepped

LEMMA PoolStep ==
  ASSUME IInv, NEW t \in Threads, NEW p \in Plans, NEW step, NEW todo, Stepped(t, p, step, todo),
         NEW state \in {"finalizing", "busy", "gone"}, pool' = [pool EXCEPT ![p] = state],
         poolAlive, pool[p] = "finalizing" \/ (pool[p] = "busy" /\ Has(t, FinalSteps)),
         UNCHANGED <<entry, journal, custody, poolAlive, told>>, completed' \subseteq Plans,
         ThreadInv(t)', Ahead(t) \subseteq PoolSteps \cup {"confirm"},
         todo \subseteq PoolSteps \cup {"confirm"},
         state = "gone" \/ "letGo" \notin Ahead(t),
         Refines
  PROVE  IInv' /\ Refines
<1>1. /\ UNCHANGED <<entry, journal, slot, slots, poolAlive, told>>
      /\ pool'[p] = state /\ \A q \in Plans : q # p => pool'[q] = pool[q]
      /\ pool' \in [Plans -> {"out", "listed", "finalizing", "busy", "gone"}]
  BY DEF custody, IInv, Types
<1>2. /\ OnlyMoves(t, p) /\ ThreadsTyped' /\ Ahead(t)' = todo /\ Plan(t) = p /\ thread[t] # Idle
  BY DEF Stepped, LeftWith, IsAt, Ahead
<1>3. Types' /\ OnlyChanges(p)
  BY <1>1, <1>2 DEF IInv, Types, OnlyChanges
<1>4. \A q \in Plans : Submitting(q)' => Submitting(q)
  BY <1>2 DEF OnlyMoves, Submitting
<1>5. ASSUME NEW u \in Threads, u # t, Plan(u) = p, thread'[u] = thread[u] PROVE ThreadInv(u)'
  <2>1. ThreadInv(u) /\ Ahead(u)' = Ahead(u) /\ Plan(u)' = p
    BY <1>5, BeforeStep DEF Ahead, Plan
  <2>2. ~Has(u, FinalSteps)
    BY <1>2, <1>5, <2>1 DEF ThreadInv, EndingOf, IInv, Alone
  <2>3. SubmissionOf(u)'
    BY <1>1, <1>5, <2>1 DEF ThreadInv, SubmissionOf, Has, Phase
  <2>4. EndingOf(u)'
    BY <1>1, <1>4, <1>5, <2>1, <2>2 DEF ThreadInv, EndingOf, Has, Phase, IsSettled
  <2>5. TellingOf(u)'
    BY <1>1, <1>5, <2>1 DEF ThreadInv, TellingOf, Has
  <2>6. QED
    BY <2>3, <2>4, <2>5 DEF ThreadInv
<1>6. PlanInv(p)'
  <2>1. PlanInv(p)
    BY BeforeStep
  <2>2. SlotOK(p)'
    BY <1>1, <1>4, <2>1 DEF PlanInv, SlotOK, Phase, IsSettled
  <2>3. pool'[p] = "gone" \/ (Leaving(p) => Leaving(p)')
    BY <1>1, StillAhead DEF Leaving
  <2>4. Submits(p, {"enqueue", "commit"}) => Submits(p, {"enqueue", "commit"})'
    BY OwnStep DEF Submits, Has, PoolSteps
  <2>5. Submits(p, {"commit"}) => Submits(p, {"commit"})'
    BY OwnStep DEF Submits, Has, PoolSteps
  <2>6. ResidenceOK(p)'
    BY <1>1, <2>1, <2>3, <2>4, <2>5 DEF PlanInv, ResidenceOK, Phase, Resident
  <2>7. "tell" \notin Ahead(t)
    BY DEF PoolSteps
  <2>8. Telling(p)'
    BY <1>1, <2>1, <2>7, StillLeaving DEF PlanInv, Telling
  <2>9. QED
    BY <2>2, <2>6, <2>8 DEF PlanInv
<1>7. Sharing'
  <2>1. "reconcile" \notin todo
    BY DEF PoolSteps
  <2>2. ASSUME NEW u \in Threads, Has(u, {"reconcile"})' PROVE Has(u, {"reconcile"})
    BY <1>2, <2>1, <2>2 DEF OnlyMoves, Has, Ahead
  <2>3. \A q \in Plans : Resident(q)' => Resident(q)
    BY <1>1 DEF Resident
  <2>4. \A q \in Holders' : q \in Holders
    BY <1>1, <1>4, <2>3 DEF Holders, Kept
  <2>5. QED
    BY <1>1, <1>4, <2>2, <2>4 DEF IInv, Sharing
<1>8. "tell" \notin todo
  BY DEF PoolSteps
<1>9. QED
  BY <1>2, <1>3, <1>5, <1>6, <1>7, <1>8, AfterStep DEF Has

LEMMA RetryFinalizationIsSafe ==
  ASSUME IInv, NEW t \in Threads, NEW p \in Plans, p = Plan(t), RetryFinalization(t)
  PROVE  IInv' /\ Refines
<1>1. At(t, "retryFinalization") /\ UNCHANGED <<entry, journal, custody, poolAlive, told, completed>>
  BY DEF RetryFinalization
<1>2. /\ "retryFinalization" \in Ahead(t) /\ Ahead(t) \subseteq {"retryFinalization", "confirm"}
      /\ ThreadInv(t) /\ PlanInv(p)
  BY <1>1, ThreadAt DEF Steps, After
<1>3. UNCHANGED <<slot, slots>> /\ poolAlive
  BY <1>1, <1>2 DEF custody, ThreadInv, EndingOf, Has, PoolSteps
<1>4. CASE pool[p] = "finalizing"
  <2> DEFINE todo == {"finalize"} \cup (Ahead(t) \ {"retryFinalization"})
  <2>1. Does(t, <<"finalize">>) /\ pool' = [pool EXCEPT ![p] = "busy"]
    BY <1>4 DEF RetryFinalization
  <2>2. Stepped(t, p, "retryFinalization", todo) /\ thread'[t].result \in {Unknown, thread[t].result}
    <3>1. /\ After("retryFinalization") \subseteq After("finalize")
          /\ "finalize" \notin SubmitSteps \cup {"settle"} \cup RecoverSteps
      BY DEF After, SubmitSteps, RecoverSteps
    <3>2. "retryFinalization" \in Steps /\ "finalize" \in Steps
      BY DEF Steps
    <3>3. QED
      BY <1>1, <2>1, <3>1, <3>2, ShortSteps
  <2>3. pool'[p] = "busy" /\ \A q \in Plans : pool'[q] = "gone" <=> pool[q] = "gone"
    BY <1>4, <2>1 DEF IInv, Types
  <2>4. Ahead(t)' = todo /\ Plan(t)' = p /\ (Submitting(p)' => Submitting(p))
    BY <2>2, OwnStep
  <2>5. ThreadInv(t)'
    <3>1. Ahead(t)' \subseteq {"finalize", "confirm"} /\ ("confirm" \in Ahead(t)' <=> "confirm" \in Ahead(t))
      BY <1>2, <2>4
    <3>2. thread'[t].result \notin {"Released", "NotFinalizing"}
      BY <1>2, <1>4, <2>2 DEF ThreadInv, EndingOf, Unknown
    <3>3. SubmissionOf(t)' /\ TellingOf(t)'
      BY <3>1 DEF SubmissionOf, TellingOf, Has, SubmitSteps
    <3>4. EndingOf(t)'
      BY <1>1, <1>2, <1>3, <2>3, <2>4, <3>1, <3>2 DEF ThreadInv, EndingOf, Has, EndSteps, IsSettled
    <3>5. QED
      BY <3>3, <3>4 DEF ThreadInv
  <2>6. Refines
    <3>1. Types'
      BY <1>1, <1>3, <2>1, <2>2 DEF IInv, Types, Stepped
    <3>2. QED
      BY <1>1, <2>3, <3>1, RecordingIsPromised DEF IInv
  <2>7. /\ Ahead(t) \subseteq PoolSteps \cup {"confirm"} /\ todo \subseteq PoolSteps \cup {"confirm"}
        /\ "letGo" \notin Ahead(t) /\ completed' \subseteq Plans
    BY <1>1, <1>2 DEF PoolSteps, IInv, Types
  <2>8. QED
    BY <1>1, <1>3, <1>4, <2>1, <2>2, <2>5, <2>6, <2>7, PoolStep
<1>5. CASE pool[p] # "finalizing"
  <2> DEFINE todo == Ahead(t) \ {"retryFinalization"}
  <2>1. PICK result \in {"InProgress", "NotFinalizing"} :
          /\ Reports(t, result) /\ UNCHANGED pool
          /\ result = "NotFinalizing" => pool[p] # "busy"
    BY <1>5 DEF RetryFinalization
  <2>2. Stepped(t, p, "retryFinalization", todo) /\ thread'[t].result \in {Unknown, result}
    BY <1>1, <2>1, ReportsStep DEF Steps, CallResults
  <2>3. Ahead(t)' = todo /\ (Plan(t)' = p \/ (todo = {} /\ thread'[t].result = Unknown))
        /\ (Submitting(p)' => Submitting(p))
    BY <2>2, OwnStep
  <2>4. ThreadInv(t)'
    <3>1. Ahead(t)' \subseteq {"confirm"} /\ Ahead(t)' \subseteq Ahead(t)
      BY <1>2, <2>3
    <3>2. ASSUME "confirm" \in Ahead(t)'
          PROVE  Plan(t)' = p /\ (thread'[t].result \in {"Released", "NotFinalizing"} => pool'[p] = "gone")
      <4>1. pool[p] \notin {"out", "listed"}
        BY <1>2, <3>1, <3>2 DEF ThreadInv, EndingOf, Has
      <4>2. pool[p] \in {"out", "listed", "finalizing", "busy", "gone"}
        BY DEF IInv, Types
      <4>3. QED
        BY <1>5, <2>1, <2>2, <2>3, <3>2, <4>1, <4>2 DEF Unknown
    <3>3. ASSUME "confirm" \notin Ahead(t)' PROVE Ahead(t)' = {} /\ thread'[t].result = Unknown
      BY <2>2, <2>3, <3>1, <3>3 DEF Stepped, LeftWith
    <3>4. SubmissionOf(t)' /\ TellingOf(t)'
      BY <3>1 DEF SubmissionOf, TellingOf, Has, SubmitSteps
    <3>5. EndingOf(t)'
      <4>1. CASE "confirm" \in Ahead(t)'
        BY <1>1, <1>2, <1>3, <2>1, <2>3, <3>1, <3>2, <4>1
           DEF ThreadInv, EndingOf, Has, EndSteps, FinalSteps, PoolSteps, IsSettled
      <4>2. CASE "confirm" \notin Ahead(t)'
        BY <3>3, <4>2 DEF EndingOf, Has, Unknown
      <4>3. QED
        BY <4>1, <4>2
    <3>6. QED
      BY <3>4, <3>5 DEF ThreadInv
  <2>5. /\ {"letGo", "tell", "enqueue", "commit"} \cap Ahead(t) \subseteq todo
        /\ "reconcile" \in todo => "reconcile" \in Ahead(t)
        /\ "tell" \in todo => "tell" \in Ahead(t)
        /\ FinalSteps \cap todo # {} => Has(t, FinalSteps)
    BY DEF Has
  <2>6. QED
    BY <1>1, <2>1, <2>2, <2>4, <2>5, ThreadStep
<1>6. QED
  BY <1>4, <1>5

LEMMA RetainIsSafe ==
  ASSUME IInv, NEW t \in Threads, NEW p \in Plans, p = Plan(t), Retain(t)
  PROVE  IInv' /\ Refines
<1> DEFINE todo == Ahead(t) \ {"retain"}
<1>1. /\ At(t, "retain") /\ Reports(t, "Retained") /\ pool' = [pool EXCEPT ![p] = "finalizing"]
      /\ UNCHANGED <<entry, journal, custody, poolAlive, told, completed>>
  BY DEF Retain
<1>2. /\ "retain" \in Ahead(t) /\ Ahead(t) \subseteq {"retain", "confirm"}
      /\ ThreadInv(t) /\ PlanInv(p)
  BY <1>1, ThreadAt DEF Steps, After
<1>3. UNCHANGED <<slot, slots>> /\ poolAlive /\ pool[p] = "busy" /\ Has(t, FinalSteps)
  BY <1>1, <1>2 DEF custody, ThreadInv, EndingOf, Has, PoolSteps, FinalSteps
<1>4. Stepped(t, p, "retain", todo) /\ thread'[t].result \in {Unknown, "Retained"}
  BY <1>1, ReportsStep DEF Steps, CallResults
<1>5. pool'[p] = "finalizing" /\ \A q \in Plans : pool'[q] = "gone" <=> pool[q] = "gone"
  BY <1>1, <1>3 DEF IInv, Types
<1>6. Ahead(t)' = todo /\ (Plan(t)' = p \/ todo = {}) /\ (Submitting(p)' => Submitting(p))
  BY <1>4, OwnStep
<1>7. ThreadInv(t)'
  <2>1. Ahead(t)' \subseteq {"confirm"} /\ Ahead(t)' \subseteq Ahead(t)
    BY <1>2, <1>6
  <2>2. SubmissionOf(t)' /\ TellingOf(t)'
    BY <2>1 DEF SubmissionOf, TellingOf, Has, SubmitSteps
  <2>3. EndingOf(t)'
    BY <1>1, <1>2, <1>3, <1>4, <1>5, <1>6, <2>1
       DEF ThreadInv, EndingOf, Has, EndSteps, FinalSteps, PoolSteps, IsSettled, Unknown
  <2>4. QED
    BY <2>2, <2>3 DEF ThreadInv
<1>8. Refines
  <2>1. Types'
    BY <1>1, <1>3, <1>4 DEF IInv, Types, Stepped
  <2>2. QED
    BY <1>1, <1>5, <2>1, RecordingIsPromised DEF IInv
<1>9. /\ Ahead(t) \subseteq PoolSteps \cup {"confirm"} /\ todo \subseteq PoolSteps \cup {"confirm"}
      /\ "letGo" \notin Ahead(t) /\ completed' \subseteq Plans
  BY <1>1, <1>2 DEF PoolSteps, IInv, Types
<1>10. QED
  BY <1>1, <1>3, <1>4, <1>7, <1>8, <1>9, PoolStep

LEMMA LetGoIsSafe ==
  ASSUME IInv, NEW t \in Threads, NEW p \in Plans, p = Plan(t), LetGo(t)
  PROVE  IInv' /\ Refines
<1> DEFINE todo == Ahead(t) \ {"letGo"}
<1>1. /\ At(t, "letGo") /\ Reports(t, "Released") /\ pool' = [pool EXCEPT ![p] = "gone"]
      /\ completed' = IF Outcome(slot[p]) = "Completed" THEN completed \cup {p} ELSE completed
      /\ UNCHANGED <<entry, journal, custody, poolAlive, told>>
  BY DEF LetGo
<1>2. /\ "letGo" \in Ahead(t) /\ Ahead(t) \subseteq {"letGo", "confirm"}
      /\ ThreadInv(t) /\ PlanInv(p) /\ IsSettled(p)
  BY <1>1, ThreadAt DEF Steps, After, EndSteps
<1>3. /\ UNCHANGED <<slot, slots>> /\ poolAlive /\ pool[p] = "busy" /\ Has(t, FinalSteps)
      /\ told[p] # <<>>
  BY <1>1, <1>2 DEF custody, ThreadInv, EndingOf, Has, PoolSteps, FinalSteps
<1>4. Stepped(t, p, "letGo", todo) /\ thread'[t].result \in {Unknown, "Released"}
  BY <1>1, ReportsStep DEF Steps, CallResults
<1>5. pool'[p] = "gone" /\ \A q \in Plans : q # p => pool'[q] = pool[q]
  BY <1>1 DEF IInv, Types
<1>6. Ahead(t)' = todo /\ (Plan(t)' = p \/ (todo = {} /\ thread'[t].result = Unknown)) /\ (Submitting(p)' => Submitting(p))
  BY <1>4, OwnStep
<1>7. ThreadInv(t)'
  <2>1. Ahead(t)' \subseteq {"confirm"} /\ Ahead(t)' \subseteq Ahead(t)
    BY <1>2, <1>6
  <2>2. SubmissionOf(t)' /\ TellingOf(t)'
    BY <2>1 DEF SubmissionOf, TellingOf, Has, SubmitSteps
  <2>3. EndingOf(t)'
    BY <1>1, <1>2, <1>3, <1>4, <1>5, <1>6, <2>1
       DEF ThreadInv, EndingOf, Has, EndSteps, FinalSteps, PoolSteps, IsSettled, Unknown
  <2>4. QED
    BY <2>2, <2>3 DEF ThreadInv
<1>8. Refines
  <2> DEFINE outcome == [q \in Plans |-> Recorded(entry[q])]
  <2>1. outcome[p] = Outcome(slot[p])
    BY <1>2 DEF IsSettled, Recorded
  <2>2. {q \in Plans : pool'[q] = "gone"} = {q \in Plans : pool[q] = "gone"} \cup {p}
    BY <1>5
  <2>3. p \notin {q \in Plans : pool[q] = "gone"}
    BY <1>3
  <2>4. Promise!LetGo(p)
    BY <1>1, <1>3, <2>1, <2>2, <2>3 DEF Promise!LetGo
  <2>5. QED
    BY <2>4 DEF Refines, Promise!Next
<1>9. /\ Ahead(t) \subseteq PoolSteps \cup {"confirm"} /\ todo \subseteq PoolSteps \cup {"confirm"}
      /\ completed' \subseteq Plans
  BY <1>1, <1>2 DEF PoolSteps, IInv, Types
<1>10. QED
  BY <1>1, <1>3, <1>4, <1>7, <1>8, <1>9, PoolStep

-----------------------------------------------------------------------------
(* Finalization.                                                              *)

(* What the answer of the journal makes of the slot s0, and of the entry. *)
AnswerIs(p, s0, s, retained, result) ==
  /\ s \in SlotStates /\ SetSlot(p, s)
  /\ s.evidence = s0.evidence /\ s.status = s0.status
  /\ s.poolOwned = s0.poolOwned /\ s.delivered = s0.delivered
  /\ result = "ok" => s.phase = "Finalized" /\ ~s.receipt /\ entry'[p] = s0.evidence
  /\ result \in {"uncertain", "unusable"} => s.phase = "ReconcileRequired" /\ ~s.receipt
  /\ result \in {"contract", "refused"} =>
       /\ s.phase = IF result = "contract" THEN "ContractViolation" ELSE retained
       /\ s.receipt /\ s.journal /\ entry' = entry
  /\ entry' \in [Plans -> EntryStates] /\ entry'[p] \in {entry[p], s0.evidence}
  /\ \A q \in Plans : q # p => entry'[q] = entry[q]
  /\ journal' \in {"open", "poisoned"}

LEMMA FinalizeAnswers ==
  ASSUME IInv, NEW p \in Plans, NEW s0 \in SlotStates, s0.evidence \in Terminal, s0.receipt, s0.journal,
         NEW retained \in Phases, NEW result \in FinalizeResults, Finalize(p, s0, retained, result)
  PROVE  \E s : AnswerIs(p, s0, s, retained, result)
<1> DEFINE s == Settled(s0, result, retained)
<1>1. /\ s \in SlotStates
      /\ s.evidence = s0.evidence /\ s.status = s0.status
      /\ s.poolOwned = s0.poolOwned /\ s.delivered = s0.delivered
      /\ result = "ok" => s.phase = "Finalized" /\ ~s.receipt
      /\ result \in {"uncertain", "unusable"} => s.phase = "ReconcileRequired" /\ ~s.receipt
      /\ result \in {"contract", "refused"} =>
           /\ s.phase = IF result = "contract" THEN "ContractViolation" ELSE retained
           /\ s.receipt /\ s.journal
  <2>1. CASE result = "ok"
    BY <2>1 DEF Settled, SlotStates, Phases
  <2>2. CASE result \in {"uncertain", "unusable"}
    BY <2>2 DEF Settled, SlotStates, Phases
  <2>3. CASE result = "contract"
    BY <2>3 DEF Settled, SlotStates, Phases
  <2>4. CASE result = "refused"
    BY <2>4 DEF Settled, SlotStates, Phases
  <2>5. QED
    BY <2>1, <2>2, <2>3, <2>4 DEF FinalizeResults, Results
<1>2. SetSlot(p, s)
  BY DEF Finalize
<1> HIDE DEF s
<1>3. entry \in [Plans -> EntryStates]
  BY DEF IInv, Types
<1>4. CASE result = "contract"
  <2>1. journal' = "open" /\ entry' = entry
    BY <1>4 DEF Finalize
  <2>2. QED
    BY <1>1, <1>2, <1>3, <1>4, <2>1 DEF AnswerIs
<1>5. CASE result # "contract"
  <2>1. Mutated(p, s0.evidence, result) /\ result \in Results
    BY <1>3, <1>5, MutationIs DEF Finalize, FinalizeResults, EntryStates
  <2>2. QED
    BY <1>1, <1>2, <1>5, <2>1 DEF AnswerIs, Mutated, Results
<1>6. QED
  BY <1>4, <1>5

(* Of work in custody, whoever finalizes it. *)
LEMMA FinalizationStep ==
  ASSUME IInv, NEW t \in Threads, NEW p \in Plans, NEW step \in {"settle", "finalize"}, NEW todo, Stepped(t, p, step, todo),
         NEW s0, NEW s, NEW retained, NEW result \in FinalizeResults, AnswerIs(p, s0, s, retained, result),
         Phase(p) \in Custodial, s0.evidence \in Terminal,
         s0.status = slot[p].status, s0.poolOwned = slot[p].poolOwned, s0.delivered = slot[p].delivered,
         slot[p].evidence # Unknown => s0.evidence = slot[p].evidence,
         \/ pool[p] = "out" /\ Phase(p) \in {"Armed", "RetryRequired"} /\ retained = "RetryRequired"
         \/ pool[p] = "busy" /\ Phase(p) \in {"EnqueueInProgress", "PoolOwned"} /\ retained = Phase(p),
         UNCHANGED <<slots, pool, poolAlive, told, completed>>,
         thread'[t].result \in {"Released", "NotFinalizing"} => pool[p] = "gone",
         todo \subseteq IF result = "ok" THEN {"deliver", "erase", "letGo"}
                        ELSE IF pool[p] = "busy" THEN {"retain"} ELSE {"reopen"},
         result = "ok" => "deliver" \in todo /\ ("letGo" \in todo <=> pool[p] = "busy"),
         step = "finalize" <=> pool[p] = "busy",
         poolAlive \/ pool[p] # "busy"
  PROVE  IInv' /\ Refines
<1>1. /\ ThreadInv(t) /\ PlanInv(p) /\ step \in Ahead(t) /\ Ahead(t) \subseteq {"settle", "reopen", "finalize", "confirm"}
      /\ Ahead(t)' = todo /\ (Plan(t)' = p \/ todo = {}) /\ (Submitting(p)' => Submitting(p))
  BY OwnStep, BeforeStep DEF After
<1>2. /\ s \in SlotStates /\ SetSlot(p, s)
      /\ s.evidence = s0.evidence /\ s.status = Unknown /\ s.poolOwned = slot[p].poolOwned /\ ~s.delivered
      /\ ~slot[p].delivered /\ told[p] = <<>> /\ entry[p] = "Running" /\ slot[p].receipt /\ slot[p].journal /\ p \in slots
      /\ ~IsSettled(p) /\ Phase(p) \notin AlreadyConfirmed
  BY <1>1, InCustody, NotRecorded DEF AnswerIs, PlanInv, SlotOK, Custodial
<1>3. slot'[p] = s
  BY <1>2, SlotIsSet DEF IInv, Types
<1>4. Respects(t, p, s)
  BY <1>2 DEF Respects, Confirmed, Phase, AlreadyConfirmed, AnswerIs, Custodial
<1>5. result = "ok" => IsSettled(p)'
  BY <1>2, <1>3 DEF AnswerIs, IsSettled, Recorded, Outcome, Terminal, Unknown
<1>6. ThreadInv(t)'
  <2>1. SubmissionOf(t)' /\ TellingOf(t)'
    <3>1. \A x \in todo : x \in {"deliver", "erase", "letGo", "retain", "reopen"}
      OBVIOUS
    <3>2. QED
      BY <1>1, <3>1 DEF SubmissionOf, TellingOf, Has, SubmitSteps
  <2>2. CASE result = "ok"
    <3>1. Confirmed(s) /\ ~s.delivered
      BY <1>2, <2>2 DEF Confirmed, AnswerIs, Terminal, Unknown
    <3>2. EndingOf(t)'
      BY <1>1, <1>3, <1>5, <2>2, <3>1 DEF EndingOf, Has, EndSteps, FinalSteps, PoolSteps
    <3>3. QED
      BY <2>1, <3>2 DEF ThreadInv
  <2>3. CASE result # "ok"
    <3>1. \A x \in todo : x = "reopen" \/ (x = "retain" /\ pool[p] = "busy")
      BY <2>3
    <3>2. EndingOf(t)'
      BY <1>1, <3>1 DEF EndingOf, Has, EndSteps, FinalSteps, PoolSteps
    <3>3. QED
      BY <2>1, <3>2 DEF ThreadInv
  <2>4. QED
    BY <2>2, <2>3
<1>7. PlanInv(p)'
  <2>1. SlotOK(p)'
    <3>1. CASE result = "ok"
      BY <1>2, <1>3, <1>5, <3>1 DEF AnswerIs, SlotOK, Phase, Custodial, Answered, Terminal, Unknown
    <3>2. CASE result \in {"uncertain", "unusable"}
      BY <1>2, <1>3, <3>2 DEF AnswerIs, SlotOK, Phase, Custodial, Answered, AlreadyConfirmed, Terminal, Unknown
    <3>3. CASE result \in {"contract", "refused"}
      BY <1>2, <1>3, <3>3 DEF AnswerIs, SlotOK, Phase, Custodial, Answered, AlreadyConfirmed, Terminal, Unknown
    <3>4. QED
      BY <3>1, <3>2, <3>3 DEF FinalizeResults, Results
  <2>2. pool[p] = "busy" => ("commit" \in Ahead(Submitter(p)) => "commit" \in Ahead(Submitter(p))')
    BY <1>1, OwnStep
  <2>3. Phase(p) = "EnqueueInProgress" => Submits(p, {"commit"})
    <3>1. Submitter(p) \in Threads
      BY ThreadNames
    <3>2. Has(Submitter(p), {"enqueue"}) => Plan(Submitter(p)) = p
      BY <3>1, ThreadNames, BeforeStep DEF Has, SubmitSteps
    <3>3. Has(Submitter(p), {"enqueue"}) => pool[p] = "out"
      BY <3>1, <3>2, BeforeStep DEF ThreadInv, SubmissionOf, Has, SubmitSteps
    <3>4. QED
      BY <1>1, <3>3 DEF PlanInv, ResidenceOK, Submits, Has
  <2>4. Leaving(p) => Leaving(p)'
    BY <1>1, StillLeaving
  <2>5. result = "ok" /\ pool[p] = "busy" => Leaving(p)'
    BY <1>1 DEF Leaving, Has
  <2>6. ResidenceOK(p)'
    <3>1. ResidenceOK(p) /\ entry'[p] # "None" /\ (poolAlive' => poolAlive) /\ p \in slots'
      BY <1>1, <1>2 DEF PlanInv, AnswerIs, Terminal
    <3>2. CASE result = "ok"
      BY <1>2, <1>3, <2>5, <3>1, <3>2 DEF AnswerIs, ResidenceOK, Phase
    <3>3. CASE result \in {"uncertain", "unusable"}
      <4>1. pool'[p] # "out" => slot'[p].poolOwned \/ Submits(p, {"commit"})'
        BY <1>2, <1>3, <2>2, <2>3, <3>1 DEF ResidenceOK, Phase, Submits, Has
      <4>2. QED
        BY <1>2, <1>3, <3>1, <3>3, <4>1 DEF AnswerIs, ResidenceOK, Phase
    <3>4. CASE result = "contract"
      BY <1>2, <1>3, <3>1, <3>4 DEF AnswerIs, ResidenceOK, Phase
    <3>5. CASE result = "refused"
      <4>1. Phase(p)' = retained
        BY <1>3, <3>5 DEF AnswerIs, Phase
      <4>2. Phase(p) = "EnqueueInProgress" /\ pool[p] = "busy" => Submits(p, {"enqueue", "commit"})'
        BY <2>2, <2>3 DEF Submits, Has
      <4>3. QED
        BY <1>2, <1>3, <3>1, <4>1, <4>2 DEF ResidenceOK, Phase
    <3>6. QED
      BY <3>2, <3>3, <3>4, <3>5 DEF FinalizeResults, Results
  <2>7. Telling(p)'
    BY <1>2, <1>3 DEF Telling
  <2>8. QED
    BY <2>1, <2>6, <2>7 DEF PlanInv
<1>8. /\ entry' \in [Plans -> EntryStates] /\ \A q \in Plans : q # p => entry'[q] = entry[q]
      /\ entry'[p] = entry[p] \/ (slot[p].receipt /\ entry'[p] \notin {"None", "Admitted"})
      /\ journal' \in {"open", "poisoned", "none"} /\ journal' # "none"
  BY <1>2 DEF AnswerIs, Terminal
<1>9. /\ "reconcile" \notin todo /\ "tell" \notin todo
      /\ FinalSteps \cap todo # {} => Has(t, FinalSteps)
  BY <1>1 DEF FinalSteps, Has
<1>10. QED
  BY <1>2, <1>4, <1>6, <1>7, <1>8, <1>9, RecordStep

LEMMA FinalizeCustodiedSlotIsSafe ==
  ASSUME IInv, NEW t \in Threads, NEW p \in Plans, p = Plan(t), FinalizeCustodiedSlot(t)
  PROVE  IInv' /\ Refines
<1>1. At(t, "settle") /\ "settle" \in Steps /\ UNCHANGED <<slots, pool, poolAlive, told, completed>>
  BY DEF FinalizeCustodiedSlot, Steps
<1>2. /\ "settle" \in Ahead(t) /\ Ahead(t) \subseteq {"settle", "reopen"} /\ ThreadInv(t) /\ PlanInv(p)
      /\ slot[p] \in SlotStates
  BY <1>1, ThreadAt DEF After
<1>3. CASE Phase(p) \notin {"Armed", "RetryRequired"}
  <2>1. Ends(t) /\ UNCHANGED <<entry, journal, slot>>
    BY <1>3 DEF FinalizeCustodiedSlot
  <2>2. Stepped(t, p, "settle", {})
    BY <1>1, <2>1, EndSteps_
  <2>3. ThreadInv(t)'
    BY <2>2, IdleInv
  <2>4. {"letGo", "tell", "enqueue", "commit"} \cap Ahead(t) \subseteq {}
    BY <1>2
  <2>5. QED
    BY <1>1, <2>1, <2>2, <2>3, <2>4, ThreadStep DEF custody
<1>4. CASE Phase(p) \in {"Armed", "RetryRequired"}
  <2>1. PICK result \in FinalizeResults :
          /\ Finalize(p, slot[p], "RetryRequired", result)
          /\ CASE result = "ok" -> Continues(t, <<"deliver", "erase">>)
               [] result \in {"uncertain", "unusable"} -> Does(t, <<>>)
               [] OTHER -> Ends(t)
    BY <1>4 DEF FinalizeCustodiedSlot
  <2>2. pool[p] = "out" /\ slot[p].evidence \in Terminal /\ slot[p].receipt /\ slot[p].journal
    BY <1>2, <1>4, InCustody DEF PlanInv, ResidenceOK, ThreadInv, SubmissionOf, Has, SlotStates, Custodial
  <2>3. PICK s : AnswerIs(p, slot[p], s, "RetryRequired", result)
    BY <1>2, <2>1, <2>2, FinalizeAnswers DEF Phases
  <2> DEFINE Left(todo) == Stepped(t, p, "settle", todo) /\ thread'[t].result \in {Unknown, thread[t].result}
  <2>4. PICK todo : Left(todo) /\ IF result = "ok" THEN todo = {"deliver", "erase"} ELSE todo \subseteq {"reopen"}
    <3>1. CASE result = "ok"
      <4>1. Continues(t, <<"deliver", "erase">>)
        BY <2>1, <3>1
      <4>2. /\ <<"deliver", "erase">> \in Seq(Steps) /\ InOrder(<<"deliver", "erase">>) /\ <<"deliver", "erase">> # <<>>
            /\ Elements(<<"deliver", "erase">>) = {"deliver", "erase"}
        <5>1. "deliver" \in Steps /\ "erase" \in Steps /\ "erase" \in After("deliver")
          BY DEF Steps, After
        <5>2. QED
          BY <5>1, ShortLists
      <4>3. MayHave(t, p, {"deliver", "erase"})
        BY DEF MayHave, SubmitSteps, RecoverSteps
      <4>4. IsAt(t, p, "settle") /\ ThreadsTyped /\ ThreadsOK
        BY <1>1, AtStep DEF IInv, Types
      <4>5. /\ ThreadsTyped' /\ ThreadsOK' /\ LeftWith(t, p, {"deliver", "erase"})
            /\ thread'[t].result \in {Unknown, thread[t].result}
        BY <4>1, <4>2, <4>3, <4>4, CallContinued DEF IsAt
      <4>6. Left({"deliver", "erase"})
        BY <4>4, <4>5, OneThreadMoves DEF Stepped, IsAt
      <4>7. QED
        BY <3>1, <4>6
    <3>2. CASE result \in {"uncertain", "unusable"}
      <4>1. Left(Ahead(t) \ {"settle"})
        BY <1>1, <2>1, <3>2, ShortSteps
      <4>2. QED
        BY <1>2, <3>2, <4>1
    <3>3. CASE result \in {"contract", "refused"}
      <4>1. Left({})
        BY <1>1, <2>1, <3>3, EndSteps_
      <4>2. QED
        BY <3>3, <4>1
    <3>4. QED
      BY <3>1, <3>2, <3>3 DEF FinalizeResults, Results
  <2>5. /\ thread'[t].result \in {"Released", "NotFinalizing"} => pool[p] = "gone"
        /\ todo \subseteq IF result = "ok" THEN {"deliver", "erase", "letGo"}
                          ELSE IF pool[p] = "busy" THEN {"retain"} ELSE {"reopen"}
        /\ result = "ok" => "deliver" \in todo /\ ("letGo" \in todo <=> pool[p] = "busy")
    BY <1>2, <2>2, <2>4 DEF ThreadInv, EndingOf, Unknown
  <2>6. Phase(p) \in Custodial
    BY <1>4 DEF Custodial
  <2>7. QED
    BY <1>1, <1>4, <2>2, <2>3, <2>4, <2>5, <2>6, FinalizationStep
<1>5. QED
  BY <1>3, <1>4

(* A finalizer goes on with x after it. *)
LEMMA FinalizerDoes ==
  ASSUME IInv, NEW t \in Threads, NEW p \in Plans, p = Plan(t), At(t, "finalize")
  PROVE  /\ "finalize" \in Ahead(t) /\ Ahead(t) \subseteq {"finalize", "confirm"}
         /\ ThreadInv(t) /\ PlanInv(p) /\ slot[p] \in SlotStates
         /\ pool[p] = "busy" /\ poolAlive /\ Has(t, FinalSteps)
         /\ thread[t].result \notin {"Released", "NotFinalizing"}
         /\ Phase(p) \in Custodial => Ahead(t) = {"finalize"}
         /\ \A x \in {"retain"} : Does(t, <<x>>) =>
              /\ Stepped(t, p, "finalize", {x} \cup (Ahead(t) \ {"finalize"}))
              /\ thread'[t].result \in {Unknown, thread[t].result}
<1>1. /\ "finalize" \in Ahead(t) /\ Ahead(t) \subseteq {"finalize", "confirm"} /\ ThreadInv(t) /\ PlanInv(p)
      /\ slot[p] \in SlotStates
  BY ThreadAt DEF Steps, After
<1>2. /\ pool[p] = "busy" /\ poolAlive /\ Has(t, FinalSteps)
      /\ thread[t].result \notin {"Released", "NotFinalizing"}
  BY <1>1 DEF ThreadInv, EndingOf, Has, FinalSteps, PoolSteps
<1>3. Phase(p) \in Custodial => ~Has(t, EndSteps)
  BY <1>1, InCustody, NotRecorded
<1>4. Phase(p) \in Custodial => Ahead(t) = {"finalize"}
  BY <1>1, <1>3 DEF Has, EndSteps
<1>5. /\ "finalize" \in Steps /\ "retain" \in Steps /\ After("finalize") \subseteq After("retain")
      /\ "retain" \notin SubmitSteps \cup {"settle"} \cup RecoverSteps
  BY DEF Steps, After, SubmitSteps, RecoverSteps
<1>6. QED
  BY <1>1, <1>2, <1>4, <1>5, ShortSteps

LEMMA FinalizePoolSlotIsSafe ==
  ASSUME IInv, NEW t \in Threads, NEW p \in Plans, p = Plan(t), FinalizePoolSlot(t)
  PROVE  IInv' /\ Refines
<1>1. /\ At(t, "finalize") /\ AwaitsResult(slot[p]) /\ UNCHANGED <<slots, pool, poolAlive, told, completed>>
  BY DEF FinalizePoolSlot
<1>2. PICK evidence \in IF slot[p].evidence = Unknown THEN Outcomes ELSE {slot[p].evidence},
           result \in FinalizeResults :
        /\ Finalize(p, [slot[p] EXCEPT !.evidence = evidence], slot[p].phase, result)
        /\ Does(t, IF result = "ok" THEN <<"deliver", "erase", "letGo">> ELSE <<"retain">>)
  BY DEF FinalizePoolSlot
<1>3. /\ Phase(p) \in {"EnqueueInProgress", "PoolOwned"} /\ Phase(p) \in Custodial
      /\ slot[p].receipt /\ slot[p].journal
  BY <1>1 DEF AwaitsResult, Phase, Custodial
<1>4. /\ Ahead(t) = {"finalize"} /\ ThreadInv(t) /\ PlanInv(p) /\ slot[p] \in SlotStates
      /\ pool[p] = "busy" /\ poolAlive /\ Has(t, FinalSteps)
      /\ thread[t].result \notin {"Released", "NotFinalizing"}
  BY <1>1, <1>3, FinalizerDoes
<1> DEFINE s0 == [slot[p] EXCEPT !.evidence = evidence]
<1>5. evidence \in Terminal
  BY <1>2, <1>4, CustodianAssumption DEF SlotStates
<1>6. /\ s0 \in SlotStates /\ s0.evidence = evidence /\ s0.receipt /\ s0.journal
      /\ s0.status = slot[p].status /\ s0.poolOwned = slot[p].poolOwned /\ s0.delivered = slot[p].delivered
  BY <1>3, <1>4, <1>5 DEF SlotStates
<1>7. Finalize(p, s0, Phase(p), result)
  BY <1>2 DEF Phase
<1> HIDE DEF s0
<1>8. PICK s : AnswerIs(p, s0, s, Phase(p), result)
  <2>1. Phase(p) \in Phases
    BY <1>3 DEF Phases
  <2>2. QED
    BY <1>5, <1>6, <1>7, <2>1, FinalizeAnswers
<1> DEFINE Left(todo) == Stepped(t, p, "finalize", todo) /\ thread'[t].result \in {Unknown, thread[t].result}
<1>9. PICK todo : Left(todo) /\ todo = IF result = "ok" THEN {"deliver", "erase", "letGo"} ELSE {"retain"}
  <2>1. CASE result = "ok"
    <3>1. Does(t, <<"deliver", "erase", "letGo">>)
      BY <1>2, <2>1
    <3>2. /\ <<"deliver", "erase", "letGo">> \in Seq(Steps) /\ InOrder(<<"deliver", "erase", "letGo">>)
          /\ Elements(<<"deliver", "erase", "letGo">>) = {"deliver", "erase", "letGo"}
      <4>1. /\ "deliver" \in Steps /\ "erase" \in Steps /\ "letGo" \in Steps
            /\ "erase" \in After("deliver") /\ "letGo" \in After("deliver") /\ "letGo" \in After("erase")
        BY DEF Steps, After
      <4>2. QED
        BY <4>1, ShortLists
    <3>3. /\ \A x \in {"deliver", "erase", "letGo"} : After("finalize") \subseteq After(x)
          /\ {"deliver", "erase", "letGo"} \cap (SubmitSteps \cup {"settle"}) = {}
          /\ {"deliver", "erase", "letGo"} \cap RecoverSteps = {}
          /\ "finalize" \in Steps
      BY DEF After, SubmitSteps, RecoverSteps, Steps
    <3>4. Left({"deliver", "erase", "letGo"} \cup (Ahead(t) \ {"finalize"}))
      BY <1>1, <3>1, <3>2, <3>3, DoesSteps
    <3>5. {"deliver", "erase", "letGo"} \cup (Ahead(t) \ {"finalize"}) = {"deliver", "erase", "letGo"}
      BY <1>4
    <3>6. QED
      BY <2>1, <3>4, <3>5
  <2>2. CASE result # "ok"
    <3>1. Left({"retain"} \cup (Ahead(t) \ {"finalize"}))
      BY <1>1, <1>2, <2>2, FinalizerDoes
    <3>2. {"retain"} \cup (Ahead(t) \ {"finalize"}) = {"retain"}
      BY <1>4
    <3>3. QED
      BY <2>2, <3>1, <3>2
  <2>3. QED
    BY <2>1, <2>2
<1>10. /\ thread'[t].result \in {"Released", "NotFinalizing"} => pool[p] = "gone"
       /\ todo \subseteq IF result = "ok" THEN {"deliver", "erase", "letGo"}
                         ELSE IF pool[p] = "busy" THEN {"retain"} ELSE {"reopen"}
       /\ result = "ok" => "deliver" \in todo /\ ("letGo" \in todo <=> pool[p] = "busy")
  BY <1>4, <1>9 DEF Unknown
<1>11. slot[p].evidence # Unknown => s0.evidence = slot[p].evidence
  BY <1>2, <1>6
<1>12. QED
  BY <1>1, <1>3, <1>4, <1>5, <1>6, <1>8, <1>9, <1>10, <1>11, FinalizationStep

LEMMA FinalizeNothingIsSafe ==
  ASSUME IInv, NEW t \in Threads, NEW p \in Plans, p = Plan(t), FinalizeNothing(t)
  PROVE  IInv' /\ Refines
<1> DEFINE todo == {"retain"} \cup (Ahead(t) \ {"finalize"})
<1>1. /\ At(t, "finalize") /\ Does(t, <<"retain">>)
      /\ UNCHANGED <<entry, journal, custody, pool, poolAlive, told, completed>>
  BY DEF FinalizeNothing
<1>2. /\ Ahead(t) \subseteq {"finalize", "confirm"} /\ ThreadInv(t)
      /\ pool[p] = "busy" /\ poolAlive /\ Has(t, FinalSteps)
      /\ thread[t].result \notin {"Released", "NotFinalizing"}
      /\ Stepped(t, p, "finalize", todo) /\ thread'[t].result \in {Unknown, thread[t].result}
  BY <1>1, FinalizerDoes
<1>3. Ahead(t)' = todo /\ Plan(t)' = p /\ (Submitting(p)' => Submitting(p))
  BY <1>2, OwnStep
<1>4. ThreadInv(t)'
  <2>1. Ahead(t)' \subseteq {"retain", "confirm"} /\ ("confirm" \in Ahead(t)' <=> "confirm" \in Ahead(t))
    BY <1>2, <1>3
  <2>2. SubmissionOf(t)' /\ TellingOf(t)'
    BY <2>1 DEF SubmissionOf, TellingOf, Has, SubmitSteps
  <2>3. IsSettled(p) => IsSettled(p)'
    BY <1>1 DEF IsSettled, custody
  <2>4. EndingOf(t)'
    BY <1>1, <1>2, <1>3, <2>1, <2>3 DEF ThreadInv, EndingOf, Has, EndSteps, FinalSteps, PoolSteps, Unknown
  <2>5. QED
    BY <2>2, <2>4 DEF ThreadInv
<1>5. /\ {"letGo", "tell", "enqueue", "commit"} \cap Ahead(t) \subseteq todo
      /\ "reconcile" \in todo => "reconcile" \in Ahead(t)
      /\ "tell" \in todo => "tell" \in Ahead(t)
  BY <1>2
<1>6. QED
  BY <1>1, <1>2, <1>4, <1>5, ThreadStep

LEMMA FinalizeInconsistentIsSafe ==
  ASSUME IInv, NEW t \in Threads, NEW p \in Plans, p = Plan(t), FinalizeInconsistent(t)
  PROVE  IInv' /\ Refines
<1> DEFINE s    == [slot[p] EXCEPT !.phase = "ContractViolation"]
           todo == {"retain"} \cup (Ahead(t) \ {"finalize"})
<1>1. /\ At(t, "finalize") /\ Does(t, <<"retain">>) /\ SetSlot(p, s)
      /\ Phase(p) \in Custodial
      /\ UNCHANGED <<entry, journal, slots, pool, poolAlive, told, completed>>
  BY DEF FinalizeInconsistent, AwaitsResult, Phase, Custodial
<1>2. /\ Ahead(t) = {"finalize"} /\ PlanInv(p) /\ slot[p] \in SlotStates
      /\ pool[p] = "busy" /\ poolAlive /\ Has(t, FinalSteps)
      /\ thread[t].result \notin {"Released", "NotFinalizing"}
      /\ Stepped(t, p, "finalize", todo) /\ thread'[t].result \in {Unknown, thread[t].result}
  BY <1>1, FinalizerDoes
<1>3. todo = {"retain"}
  BY <1>2
<1>4. Ahead(t)' = {"retain"} /\ Plan(t)' = p
  BY <1>2, <1>3, OwnStep
<1>5. /\ s \in SlotStates /\ s.phase = "ContractViolation"
      /\ s.receipt = slot[p].receipt /\ s.journal = slot[p].journal /\ s.evidence = slot[p].evidence
      /\ s.status = slot[p].status /\ s.poolOwned = slot[p].poolOwned /\ s.delivered = slot[p].delivered
  BY <1>2 DEF SlotStates, Phases
<1> HIDE DEF s, todo
<1>6. slot'[p] = s
  BY <1>1, <1>5, SlotIsSet DEF IInv, Types
<1>7. /\ slot[p].receipt /\ slot[p].journal /\ p \in slots /\ entry[p] = "Running"
      /\ ~slot[p].delivered /\ told[p] = <<>> /\ ~IsSettled(p) /\ Phase(p) \notin AlreadyConfirmed
  BY <1>1, InCustody, NotRecorded
<1>8. slot[p].status = Unknown
  BY <1>1, <1>2 DEF PlanInv, SlotOK, Custodial
<1>9. Respects(t, p, s)
  BY <1>2, <1>5, <1>7 DEF Respects, Confirmed, Phase, AlreadyConfirmed
<1>10. ThreadInv(t)'
  BY <1>1, <1>2, <1>4 DEF ThreadInv, SubmissionOf, EndingOf, TellingOf, Has, SubmitSteps, EndSteps, FinalSteps, PoolSteps, Unknown
<1>11. PlanInv(p)'
  <2>1. SlotOK(p)'
    BY <1>1, <1>5, <1>6, <1>7, <1>8 DEF SlotOK, Phase, Custodial, Answered, AlreadyConfirmed
  <2>2. ResidenceOK(p)'
    BY <1>1, <1>2, <1>5, <1>6, <1>7 DEF PlanInv, ResidenceOK, Phase
  <2>3. Telling(p)'
    BY <1>1, <1>5, <1>6, <1>7 DEF Telling
  <2>4. QED
    BY <2>1, <2>2, <2>3 DEF PlanInv
<1>12. QED
  BY <1>1, <1>2, <1>3, <1>5, <1>9, <1>10, <1>11, SlotStep

LEMMA FinalizeReconciledIsSafe ==
  ASSUME IInv, NEW t \in Threads, NEW p \in Plans, p = Plan(t), FinalizeReconciled(t)
  PROVE  IInv' /\ Refines
<1> DEFINE s    == [slot[p] EXCEPT !.latched = @ \/ Phase(p) # "Finalized"]
           todo == {"deliver", "letGo"} \cup (Ahead(t) \ {"finalize"})
<1>1. /\ At(t, "finalize") /\ Phase(p) \in AlreadyConfirmed /\ SetSlot(p, s) /\ Does(t, <<"deliver", "letGo">>)
      /\ UNCHANGED <<entry, journal, slots, pool, poolAlive, told, completed>>
  BY DEF FinalizeReconciled
<1>2. /\ "finalize" \in Ahead(t) /\ Ahead(t) \subseteq {"finalize", "confirm"} /\ ThreadInv(t) /\ PlanInv(p)
      /\ slot[p] \in SlotStates
      /\ pool[p] = "busy" /\ poolAlive /\ Has(t, FinalSteps)
      /\ thread[t].result \notin {"Released", "NotFinalizing"}
  BY <1>1, FinalizerDoes
<1>3. Stepped(t, p, "finalize", todo) /\ thread'[t].result \in {Unknown, thread[t].result}
  <2>1. /\ <<"deliver", "letGo">> \in Seq(Steps) /\ InOrder(<<"deliver", "letGo">>)
        /\ Elements(<<"deliver", "letGo">>) = {"deliver", "letGo"}
    <3>1. "deliver" \in Steps /\ "letGo" \in Steps /\ "letGo" \in After("deliver")
      BY DEF Steps, After
    <3>2. QED
      BY <3>1, ShortLists
  <2>2. /\ \A x \in {"deliver", "letGo"} : After("finalize") \subseteq After(x)
        /\ {"deliver", "letGo"} \cap (SubmitSteps \cup {"settle"}) = {}
        /\ {"deliver", "letGo"} \cap RecoverSteps = {}
        /\ "finalize" \in Steps
    BY DEF After, SubmitSteps, RecoverSteps, Steps
  <2>3. QED
    BY <1>1, <2>1, <2>2, DoesSteps
<1>4. /\ s \in SlotStates /\ s.phase = slot[p].phase
      /\ s.receipt = slot[p].receipt /\ s.journal = slot[p].journal /\ s.evidence = slot[p].evidence
      /\ s.status = slot[p].status /\ s.poolOwned = slot[p].poolOwned /\ s.delivered = slot[p].delivered
  BY <1>2 DEF SlotStates
<1> HIDE DEF s
<1>5. slot'[p] = s
  BY <1>1, <1>4, SlotIsSet DEF IInv, Types
<1>6. IsSettled(p) /\ IsSettled(p)' /\ Confirmed(s)
  BY <1>1, <1>2, <1>4, <1>5 DEF PlanInv, SlotOK, IsSettled, Outcome, Confirmed, AlreadyConfirmed, Answered, Phase
<1>7. Respects(t, p, s)
  BY <1>4, <1>6 DEF Respects, Outcome, Confirmed, Phase
<1>8. Ahead(t)' = todo /\ Plan(t)' = p /\ Plan(t) = p /\ (Submitting(p)' => Submitting(p))
  BY <1>3, OwnStep
(* Nobody else is about to tell: with an operation in the finalizer, whoever  *)
(* tells has letGo ahead, and only one thread finalizes.                       *)
<1>9. slot[p].delivered => told[p] # <<>>
  <2> SUFFICES ASSUME slot[p].delivered, told[p] = <<>> PROVE FALSE
    OBVIOUS
  <2>1. PICK u \in Threads : Plan(u) = p /\ Has(u, {"tell"})
    BY <1>2 DEF PlanInv, Telling
  <2>2. u # t
    BY <1>2, <2>1 DEF Has
  <2>3. Has(u, {"letGo"})
    BY <1>2, <2>1, BeforeStep DEF ThreadInv, EndingOf, Has
  <2>4. Has(u, FinalSteps)
    BY <2>3 DEF Has, FinalSteps
  <2>5. QED
    BY <1>2, <1>8, <2>1, <2>2, <2>4 DEF IInv, Alone
<1>10. ThreadInv(t)'
  <2>1. Ahead(t)' \subseteq {"deliver", "letGo", "confirm"} /\ {"deliver", "letGo"} \subseteq Ahead(t)'
        /\ ("confirm" \in Ahead(t)' <=> "confirm" \in Ahead(t))
    BY <1>2, <1>8
  <2>2. SubmissionOf(t)' /\ TellingOf(t)'
    BY <2>1 DEF SubmissionOf, TellingOf, Has, SubmitSteps
  <2>3. told'[p] # <<>> \/ (~slot'[p].delivered /\ Confirmed(slot'[p]))
    BY <1>1, <1>4, <1>5, <1>6, <1>9
  <2>4. EndingOf(t)'
    BY <1>1, <1>2, <1>3, <1>6, <1>8, <2>1, <2>3 DEF ThreadInv, EndingOf, Has, EndSteps, FinalSteps, PoolSteps, Unknown
  <2>5. QED
    BY <2>2, <2>4 DEF ThreadInv
<1>11. PlanInv(p)'
  <2>1. SlotOK(p)'
    BY <1>1, <1>2, <1>4, <1>5, <1>6, <1>8 DEF PlanInv, SlotOK, Phase
  <2>2. Leaving(p)'
    BY <1>8 DEF Leaving, Has
  <2>3. Submits(p, {"enqueue", "commit"}) => Submits(p, {"enqueue", "commit"})'
    BY <1>2, <1>3, OwnStep DEF Submits, Has
  <2>4. Submits(p, {"commit"}) => Submits(p, {"commit"})'
    BY <1>2, <1>3, OwnStep DEF Submits, Has
  <2>5. ResidenceOK(p)'
    BY <1>1, <1>2, <1>4, <1>5, <2>2, <2>3, <2>4 DEF PlanInv, ResidenceOK, Phase
  <2>6. "tell" \in Ahead(t) => "tell" \in todo
    BY <1>2
  <2>7. Telling(p)'
    BY <1>1, <1>2, <1>3, <1>4, <1>5, <2>6, StillLeaving DEF PlanInv, Telling
  <2>8. QED
    BY <2>1, <2>5, <2>7 DEF PlanInv
<1>12. "reconcile" \notin todo /\ "tell" \notin todo
  BY <1>2
<1>13. QED
  BY <1>1, <1>2, <1>3, <1>4, <1>7, <1>10, <1>11, <1>12, SlotStep

-----------------------------------------------------------------------------
(* Recovery and release.                                                      *)

(* Nothing follows `reopen`, `reconcile`, `release` and `confirm`. *)
LEMMA LastStep ==
  ASSUME IInv, NEW t \in Threads, NEW p \in Plans, p = Plan(t),
         NEW step \in {"reopen", "reconcile", "release", "confirm"}, At(t, step)
  PROVE  /\ step \in Steps /\ Ahead(t) = {step} /\ ThreadInv(t) /\ PlanInv(p) /\ slot[p] \in SlotStates
         /\ thread[t].result \in {"Released", "NotFinalizing"} => pool[p] = "gone"
         /\ Ends(t) => Stepped(t, p, step, {})
         /\ Ends(t) /\ UNCHANGED <<entry, journal, custody, pool, poolAlive, told, completed>> => IInv' /\ Refines
<1>1. step \in Steps /\ After(step) = {}
  BY DEF Steps, After
<1>2. /\ Ahead(t) = {step} /\ ThreadInv(t) /\ PlanInv(p) /\ slot[p] \in SlotStates
      /\ thread[t].result \in {"Released", "NotFinalizing"} => pool[p] = "gone"
  BY <1>1, ThreadAt DEF ThreadInv, EndingOf
<1>3. Ends(t) => Stepped(t, p, step, {})
  BY <1>1, EndSteps_
<1>4. ASSUME Ends(t), UNCHANGED <<entry, journal, custody, pool, poolAlive, told, completed>>
      PROVE  IInv' /\ Refines
  <2>1. Stepped(t, p, step, {})
    BY <1>3, <1>4
  <2>2. ThreadInv(t)'
    BY <2>1, IdleInv
  <2>3. {"letGo", "tell", "enqueue", "commit"} \cap Ahead(t) \subseteq {}
    BY <1>2
  <2>4. QED
    BY <1>4, <2>1, <2>2, <2>3, ThreadStep
<1>5. QED
  BY <1>1, <1>2, <1>3, <1>4

(* It goes on with the end of custody. *)
EndLists == {<<"deliver", "close", "erase">>, <<"retryFinalization", "confirm">>, <<"close", "erase">>, <<"release">>}

LEMMA GoesOn ==
  ASSUME IInv, NEW t \in Threads, NEW p \in Plans, p = Plan(t),
         NEW step \in {"reopen", "reconcile", "release", "confirm"}, At(t, step)
  PROVE  /\ Does(t, <<"deliver", "close", "erase">>) => Stepped(t, p, step, {"deliver", "close", "erase"})
         /\ Does(t, <<"retryFinalization", "confirm">>) => Stepped(t, p, step, {"retryFinalization", "confirm"})
         /\ Does(t, <<"close", "erase">>) => Stepped(t, p, step, {"close", "erase"})
         /\ Does(t, <<"release">>) => Stepped(t, p, step, {"release"})
         /\ \A todo \in EndLists : Does(t, todo) => thread'[t].result \in {Unknown, thread[t].result}
<1>1. step \in Steps /\ After(step) = {} /\ Ahead(t) = {step}
  BY LastStep DEF After
<1>2. /\ \A x \in {"deliver", "close", "erase", "retryFinalization", "confirm", "release"} :
           x \in Steps /\ x \notin SubmitSteps \cup {"settle"} /\ x \notin RecoverSteps
      /\ "close" \in After("deliver") /\ "erase" \in After("deliver") /\ "erase" \in After("close")
      /\ "confirm" \in After("retryFinalization")
  BY DEF Steps, After, SubmitSteps, RecoverSteps
<1>3. \A todo \in EndLists : todo \in Seq(Steps) /\ InOrder(todo)
  <2>1. <<"deliver", "close", "erase">> \in Seq(Steps) /\ InOrder(<<"deliver", "close", "erase">>)
    BY <1>2, ShortLists
  <2>2. <<"retryFinalization", "confirm">> \in Seq(Steps) /\ InOrder(<<"retryFinalization", "confirm">>)
    BY <1>2, ShortLists
  <2>3. /\ <<"close", "erase">> \in Seq(Steps) /\ InOrder(<<"close", "erase">>)
        /\ <<"release">> \in Seq(Steps) /\ InOrder(<<"release">>)
    BY <1>2, ShortLists
  <2>4. QED
    BY <2>1, <2>2, <2>3 DEF EndLists
<1>4. /\ Elements(<<"deliver", "close", "erase">>) = {"deliver", "close", "erase"}
      /\ Elements(<<"retryFinalization", "confirm">>) = {"retryFinalization", "confirm"}
      /\ Elements(<<"close", "erase">>) = {"close", "erase"}
      /\ Elements(<<"release">>) = {"release"}
  BY <1>2, ShortLists
<1>5. ASSUME NEW todo \in EndLists, Does(t, todo)
      PROVE  Stepped(t, p, step, Elements(todo)) /\ thread'[t].result \in {Unknown, thread[t].result}
  <2>1. Elements(todo) \subseteq {"deliver", "close", "erase", "retryFinalization", "confirm", "release"}
    BY <1>4 DEF EndLists
  <2>2. /\ Stepped(t, p, step, Elements(todo) \cup (Ahead(t) \ {step}))
        /\ thread'[t].result \in {Unknown, thread[t].result}
    BY <1>1, <1>2, <1>3, <1>5, <2>1, DoesSteps
  <2>3. Elements(todo) \cup (Ahead(t) \ {step}) = Elements(todo)
    BY <1>1
  <2>4. QED
    BY <2>2, <2>3
<1>6. QED
  BY <1>4, <1>5 DEF EndLists

(* The phase of a slot the journal has answered for moves on to a confirmed one. *)
LEMMA ConfirmedStep ==
  ASSUME IInv, NEW t \in Threads, NEW p \in Plans, NEW step \in {"reconcile", "release", "confirm"}, NEW todo,
         Stepped(t, p, step, todo), thread'[t].result \in {Unknown, thread[t].result},
         NEW s \in SlotStates, SetSlot(p, s),
         UNCHANGED <<entry, journal, slots, pool, poolAlive, told, completed>>,
         Phase(p) \in {"ReconcileRequired", "Reconciled", "ReleaseInProgress"},
         s.phase \in {"Reconciled", "ReleaseInProgress"}, s.status # Unknown,
         Outcome(s) = entry[p], Recorded(entry[p]) # Unknown,
         s.receipt = slot[p].receipt, s.journal = slot[p].journal, s.evidence = slot[p].evidence,
         s.poolOwned = slot[p].poolOwned, s.delivered = slot[p].delivered,
         ~Submitting(p),
         todo \subseteq {"release", "retryFinalization", "confirm", "deliver", "close", "erase"},
         "deliver" \in todo => pool[p] = "out" \/ ~poolAlive,
         "erase" \in todo \/ "close" \in todo => "deliver" \in todo,
         "confirm" \in todo => pool[p] \notin {"out", "listed"},
         "retryFinalization" \in todo => poolAlive
  PROVE  IInv' /\ Refines
<1>1. ThreadInv(t) /\ PlanInv(p) /\ slot[p] \in SlotStates
  BY BeforeStep DEF Stepped, IsAt, IInv, Types
<1>2. slot'[p] = s
  BY SlotIsSet DEF IInv, Types
<1>3. ~slot[p].receipt /\ slot[p].evidence # Unknown /\ IsSettled(p)'
  BY <1>1, <1>2 DEF PlanInv, SlotOK, Phase, Custodial, Answered, IsSettled
<1>4. Respects(t, p, s)
  BY <1>3 DEF Respects, Confirmed, Phase, IsSettled
<1>5. Ahead(t)' = todo /\ (Plan(t)' = p \/ (todo = {} /\ thread'[t].result = Unknown)) /\ ~Submitting(p)'
  BY OwnStep
<1>6. thread'[t].result \in {"Released", "NotFinalizing"} => Plan(t)' = p /\ pool'[p] = "gone"
  BY <1>1, <1>5 DEF ThreadInv, EndingOf, Unknown, Stepped, IsAt
<1>7. ThreadInv(t)'
  <2>1. \A x \in todo : x \notin SubmitSteps \cup {"settle", "tell"} /\ x \notin FinalSteps
    BY DEF SubmitSteps, FinalSteps
  <2>2. SubmissionOf(t)' /\ TellingOf(t)'
    BY <1>5, <2>1 DEF SubmissionOf, TellingOf, Has, SubmitSteps
  <2>3. EndingOf(t)'
    BY <1>3, <1>5, <1>6, <2>1 DEF EndingOf, Has, EndSteps, FinalSteps, PoolSteps
  <2>4. QED
    BY <2>2, <2>3 DEF ThreadInv
<1>8. SlotOK(p)'
  BY <1>2, <1>3, <1>5 DEF SlotOK, Phase, Custodial, AlreadyConfirmed
<1>9. Ahead(t) = {step}
  BY DEF Stepped, IsAt, After
<1>10. (Leaving(p) => Leaving(p)') /\ (Submits(p, {"commit"}) => Submits(p, {"commit"})')
  BY <1>9, StillLeaving, OwnStep DEF Submits, Has
<1>11. ResidenceOK(p)'
  BY <1>1, <1>2, <1>10 DEF PlanInv, ResidenceOK, Phase, Resident
<1>12. Telling(p)'
  BY <1>1, <1>2, <1>9, StillLeaving DEF PlanInv, Telling
<1>13. PlanInv(p)'
  BY <1>8, <1>11, <1>12 DEF PlanInv
<1>14. "reconcile" \notin todo /\ "tell" \notin todo /\ FinalSteps \cap todo = {}
  BY DEF FinalSteps
<1>15. QED
  BY <1>4, <1>7, <1>13, <1>14, SlotStep

LEMMA ReconcileIsSafe ==
  ASSUME IInv, NEW t \in Threads, NEW p \in Plans, p = Plan(t), Reconcile(t)
  PROVE  IInv' /\ Refines
<1>1. At(t, "reconcile") /\ UNCHANGED <<entry, journal, slots, pool, poolAlive, told, completed>>
  BY DEF Reconcile
<1>2. Ahead(t) = {"reconcile"} /\ ThreadInv(t) /\ PlanInv(p) /\ slot[p] \in SlotStates
  BY <1>1, LastStep
<1>3. CASE Ends(t) /\ UNCHANGED slot
  BY <1>1, <1>3, LastStep DEF custody
<1>4. CASE ~(Ends(t) /\ UNCHANGED slot)
  <2> DEFINE s    == [slot[p] EXCEPT !.phase = "Reconciled", !.status = Confirmation(p)]
             todo == IF slot[p].poolOwned THEN {"release"} ELSE {"deliver", "close", "erase"}
  <2>1. /\ p \in slots /\ Phase(p) = "ReconcileRequired" /\ Confirmation(p) # "Mismatch" /\ SetSlot(p, s)
        /\ Does(t, IF slot[p].poolOwned THEN <<"release">> ELSE <<"deliver", "close", "erase">>)
    BY <1>4 DEF Reconcile
  <2>2. /\ \/ Confirmation(p) = "TerminalConfirmed" /\ entry[p] = slot[p].evidence
           \/ Confirmation(p) = "InterruptedConfirmed" /\ entry[p] = "Interrupted"
        /\ slot[p].evidence \in Terminal
    BY <1>2, <2>1 DEF Confirmation, PlanInv, SlotOK, Answered, SlotStates
  <2>3. /\ s \in SlotStates /\ s.phase = "Reconciled" /\ s.status = Confirmation(p)
        /\ s.receipt = slot[p].receipt /\ s.journal = slot[p].journal /\ s.evidence = slot[p].evidence
        /\ s.poolOwned = slot[p].poolOwned /\ s.delivered = slot[p].delivered
    BY <1>2, <2>2 DEF SlotStates, Phases
  <2> HIDE DEF s
  <2>4. s.status # Unknown /\ Outcome(s) = entry[p] /\ Recorded(entry[p]) # Unknown
    BY <2>2, <2>3 DEF Outcome, Recorded, Terminal, Unknown
  <2>5. ~Submitting(p)
    BY <1>2, BeforeStep DEF IInv, Sharing, Has
  <2>6. ~slot[p].poolOwned => pool[p] = "out"
    <3>1. ~Has(Submitter(p), {"commit"})
      <4>1. Submitter(p) \in Threads
        BY ThreadNames
      <4>2. Ahead(Submitter(p)) = {}
        BY <2>5, <4>1, BusyOrIdle DEF IInv, Types, Submitting
      <4>3. QED
        BY <4>2 DEF Has
    <3>2. QED
      BY <1>2, <2>1, <3>1 DEF PlanInv, ResidenceOK, Submits
  <2>7. Stepped(t, p, "reconcile", todo) /\ thread'[t].result \in {Unknown, thread[t].result}
    <3>1. CASE slot[p].poolOwned
      BY <1>1, <2>1, <3>1, GoesOn DEF EndLists
    <3>2. CASE ~slot[p].poolOwned
      BY <1>1, <2>1, <3>2, GoesOn DEF EndLists
    <3>3. QED
      BY <3>1, <3>2
  <2>8. QED
    BY <1>1, <2>1, <2>3, <2>4, <2>5, <2>6, <2>7, ConfirmedStep
<1>5. QED
  BY <1>3, <1>4

LEMMA ReleaseReconciledIsSafe ==
  ASSUME IInv, NEW t \in Threads, NEW p \in Plans, p = Plan(t), ReleaseReconciled(t)
  PROVE  IInv' /\ Refines
<1>1. At(t, "release") /\ UNCHANGED <<entry, journal, slots, pool, poolAlive, told, completed>>
  BY DEF ReleaseReconciled
<1>2. PlanInv(p) /\ slot[p] \in SlotStates
  BY <1>1, LastStep
<1>3. CASE Ends(t) /\ UNCHANGED slot
  BY <1>1, <1>3, LastStep DEF custody
<1>4. CASE ~(Ends(t) /\ UNCHANGED slot)
  <2> DEFINE s    == [slot[p] EXCEPT !.phase = "ReleaseInProgress"]
             todo == IF poolAlive THEN {"retryFinalization", "confirm"} ELSE {"deliver", "close", "erase"}
  <2>1. /\ Phase(p) = "Reconciled" /\ slot[p].poolOwned /\ SetSlot(p, s)
        /\ Does(t, IF poolAlive THEN <<"retryFinalization", "confirm">> ELSE <<"deliver", "close", "erase">>)
    BY <1>4 DEF ReleaseReconciled
  <2>2. /\ s \in SlotStates /\ s.phase = "ReleaseInProgress" /\ s.status = slot[p].status
        /\ s.receipt = slot[p].receipt /\ s.journal = slot[p].journal /\ s.evidence = slot[p].evidence
        /\ s.poolOwned = slot[p].poolOwned /\ s.delivered = slot[p].delivered
    BY <1>2 DEF SlotStates, Phases
  <2> HIDE DEF s
  <2>3. s.status # Unknown /\ ~Submitting(p) /\ Outcome(s) = entry[p] /\ Recorded(entry[p]) # Unknown
    BY <1>2, <2>1, <2>2 DEF PlanInv, SlotOK, AlreadyConfirmed, IsSettled, Outcome
  <2>4. pool[p] \notin {"out", "listed"}
    BY <1>2, <2>1 DEF PlanInv, ResidenceOK
  <2>5. Stepped(t, p, "release", todo) /\ thread'[t].result \in {Unknown, thread[t].result}
    <3>1. CASE poolAlive
      BY <1>1, <2>1, <3>1, GoesOn DEF EndLists
    <3>2. CASE ~poolAlive
      BY <1>1, <2>1, <3>2, GoesOn DEF EndLists
    <3>3. QED
      BY <3>1, <3>2
  <2>6. /\ todo \subseteq {"release", "retryFinalization", "confirm", "deliver", "close", "erase"}
        /\ "deliver" \in todo => pool[p] = "out" \/ ~poolAlive
        /\ "erase" \in todo \/ "close" \in todo => "deliver" \in todo
        /\ "confirm" \in todo => pool[p] \notin {"out", "listed"}
        /\ "retryFinalization" \in todo => poolAlive
    BY <2>4
  <2>7. Phase(p) \in {"ReconcileRequired", "Reconciled", "ReleaseInProgress"}
    BY <2>1
  <2>8. s.phase \in {"Reconciled", "ReleaseInProgress"}
    BY <2>2
  <2>9. "release" \in {"reconcile", "release", "confirm"}
    OBVIOUS
  <2> HIDE DEF todo
  <2>10. QED
    BY <1>1, <2>1, <2>2, <2>3, <2>5, <2>6, <2>7, <2>8, <2>9, ConfirmedStep
<1>5. QED
  BY <1>3, <1>4

LEMMA ConfirmReleaseIsSafe ==
  ASSUME IInv, NEW t \in Threads, NEW p \in Plans, p = Plan(t), ConfirmRelease(t)
  PROVE  IInv' /\ Refines
<1>1. At(t, "confirm") /\ UNCHANGED <<entry, journal, slots, pool, poolAlive, told, completed>>
  BY DEF ConfirmRelease
<1>2. /\ Ahead(t) = {"confirm"} /\ ThreadInv(t) /\ PlanInv(p) /\ slot[p] \in SlotStates
      /\ thread[t].result \in {"Released", "NotFinalizing"} => pool[p] = "gone"
  BY <1>1, LastStep
<1>3. IsSettled(p) /\ ~Submitting(p)
  BY <1>2 DEF ThreadInv, EndingOf, Has, EndSteps
<1>4. CASE slot[p].latched /\ thread[t].result \in {"Released", "NotFinalizing"}
  <2>1. Does(t, <<"close", "erase">>) /\ UNCHANGED slot
    BY <1>4 DEF ConfirmRelease
  <2>2. Stepped(t, p, "confirm", {"close", "erase"})
    BY <1>1, <2>1, GoesOn
  <2>3. Ahead(t)' = {"close", "erase"} /\ Plan(t)' = p /\ ~Submitting(p)'
    BY <1>3, <2>2, OwnStep
  <2>4. IsSettled(p)' /\ pool'[p] = "gone"
    BY <1>1, <1>2, <1>3, <1>4, <2>1 DEF IsSettled
  <2>5. ThreadInv(t)'
    BY <2>3, <2>4 DEF ThreadInv, SubmissionOf, EndingOf, TellingOf, Has, SubmitSteps, EndSteps, FinalSteps, PoolSteps
  <2>6. /\ {"letGo", "tell", "enqueue", "commit"} \cap Ahead(t) = {} /\ "reconcile" \notin {"close", "erase"}
        /\ FinalSteps \cap {"close", "erase"} = {}
    BY <1>2 DEF FinalSteps
  <2>7. QED
    BY <1>1, <2>1, <2>2, <2>5, <2>6, ThreadStep DEF custody
<1>5. CASE ~(slot[p].latched /\ thread[t].result \in {"Released", "NotFinalizing"})
  <2>1. /\ Ends(t)
        /\ SetSlot(p, IF Phase(p) = "ReleaseInProgress" THEN [slot[p] EXCEPT !.phase = "Reconciled"] ELSE slot[p])
    BY <1>5 DEF ConfirmRelease
  <2>2. CASE Phase(p) # "ReleaseInProgress"
    <3>1. SetSlot(p, slot[p]) /\ slot \in [Plans -> SlotStates]
      BY <2>1, <2>2 DEF IInv, Types
    <3>2. UNCHANGED slot
      BY <3>1 DEF SetSlot
    <3>3. QED
      BY <1>1, <2>1, <3>2, LastStep DEF custody
  <2>3. CASE Phase(p) = "ReleaseInProgress"
    <3> DEFINE s == [slot[p] EXCEPT !.phase = "Reconciled"]
    <3>1. SetSlot(p, s)
      BY <2>1, <2>3
    <3>2. /\ s \in SlotStates /\ s.phase = "Reconciled" /\ s.status = slot[p].status
          /\ s.receipt = slot[p].receipt /\ s.journal = slot[p].journal /\ s.evidence = slot[p].evidence
          /\ s.poolOwned = slot[p].poolOwned /\ s.delivered = slot[p].delivered
      BY <1>2 DEF SlotStates, Phases
    <3> HIDE DEF s
    <3>3. s.status # Unknown /\ Outcome(s) = entry[p] /\ Recorded(entry[p]) # Unknown
      BY <1>2, <1>3, <2>3, <3>2 DEF PlanInv, SlotOK, IsSettled, Outcome
    <3>4. Stepped(t, p, "confirm", {}) /\ thread'[t].result \in {Unknown, thread[t].result}
      BY <1>1, <2>1, EndSteps_ DEF Steps
    <3>5. QED
      BY <1>1, <1>3, <2>3, <3>1, <3>2, <3>3, <3>4, ConfirmedStep
  <2>4. QED
    BY <2>2, <2>3
<1>6. QED
  BY <1>4, <1>5

(* A journal nobody shares is reopened: nobody submits, and no receipt is left. *)
LEMMA ReopenIsSafe ==
  ASSUME IInv, NEW t \in Threads, NEW p \in Plans, p = Plan(t), Reopen(t)
  PROVE  IInv' /\ Refines
<1>1. At(t, "reopen") /\ UNCHANGED <<slot, slots, pool, poolAlive, told, completed>>
  BY DEF Reopen, custody
<1>2. CASE JournalInUse
  <2>1. Ends(t) /\ UNCHANGED <<entry, journal, custody, pool, poolAlive, told, completed>>
    BY <1>2 DEF Reopen
  <2>2. QED
    BY <1>1, <2>1, LastStep
<1>3. CASE ~JournalInUse
  <2>1. \A q \in Plans : ~Submitting(q) /\ ~(slot[q].journal /\ Kept(q))
    BY <1>3 DEF JournalInUse, IInv, Sharing, Holders
  <2>2. /\ entry' \in {entry, [q \in Plans |-> Interrupted(entry[q])]} /\ journal' \in {"open", "none"}
        /\ Does(t, <<"reconcile">>) \/ Ends(t)
    BY <1>3 DEF Reopen
  <2>3. \A q \in Plans :
          /\ entry'[q] = entry[q] \/ (entry[q] \in {"Admitted", "Running"} /\ entry'[q] = "Interrupted")
          /\ entry'[q] \in EntryStates
    <3>1. entry \in [Plans -> EntryStates]
      BY DEF IInv, Types
    <3>2. QED
      BY <2>2, <3>1 DEF Interrupted, EntryStates
  <2>4. PICK todo \in {{}, {"reconcile"}} : Stepped(t, p, "reopen", todo) /\ thread'[t].result \in {Unknown, thread[t].result}
    <3>1. Ahead(t) = {"reopen"} /\ "reopen" \in Steps /\ "reconcile" \in Steps
      BY <1>1, LastStep DEF Steps
    <3>2. After("reopen") \subseteq After("reconcile") /\ "reconcile" \notin SubmitSteps \cup {"settle"} /\ "reopen" \in RecoverSteps
      BY DEF After, SubmitSteps, RecoverSteps
    <3>3. {"reconcile"} \cup (Ahead(t) \ {"reopen"}) = {"reconcile"}
      BY <3>1
    <3>4. CASE Ends(t)
      BY <1>1, <3>1, <3>4, EndSteps_
    <3>5. CASE Does(t, <<"reconcile">>)
      <4>1. /\ Stepped(t, p, "reopen", {"reconcile"} \cup (Ahead(t) \ {"reopen"}))
            /\ thread'[t].result \in {Unknown, thread[t].result}
        BY <1>1, <3>1, <3>2, <3>5, ShortSteps
      <4>2. QED
        BY <3>3, <4>1
    <3>6. QED
      BY <2>2, <3>4, <3>5
  <2>5. /\ OnlyMoves(t, p) /\ ThreadsTyped' /\ ThreadsOK' /\ Ahead(t)' = todo /\ Ahead(t) = {"reopen"}
        /\ Plan(t)' = p \/ (todo = {} /\ thread'[t].result = Unknown)
    BY <1>1, <2>4, OwnStep, LastStep DEF Stepped
  <2>6. \A q \in Plans : ~Submitting(q)'
    BY <2>1, <2>4 DEF Stepped, OnlyMoves, IsAt, Submitting
  <2>7. Types'
    BY <1>1, <2>2, <2>3, <2>5 DEF IInv, Types, Interrupted
  <2>8. \A q \in Plans : IsSettled(q) => IsSettled(q)'
    BY <1>1, <2>3 DEF IsSettled, Recorded, Terminal
  <2>9. ASSUME NEW u \in Threads PROVE ThreadInv(u)'
    <3>1. ThreadInv(u) /\ (Plan(u) \in Plans \/ (Ahead(u) = {} /\ thread[u].result = Unknown)) /\ ~Has(u, SubmitSteps)
      BY <2>1, BeforeStep DEF Has
    <3>2. CASE u = t
      <4>1. SubmissionOf(u)' /\ TellingOf(u)'
        BY <2>5, <3>2 DEF SubmissionOf, TellingOf, Has, SubmitSteps
      <4>2. thread'[u].result \in {"Released", "NotFinalizing"} => Plan(u)' = p /\ pool'[p] = "gone"
        BY <1>1, <2>4, <2>5, <3>1, <3>2 DEF ThreadInv, EndingOf, Unknown
      <4>3. EndingOf(u)'
        BY <2>5, <3>2, <4>2 DEF EndingOf, Has, EndSteps, FinalSteps, PoolSteps
      <4>4. QED
        BY <4>1, <4>3 DEF ThreadInv
    <3>3. CASE u # t
      <4>1. thread'[u] = thread[u] /\ Ahead(u)' = Ahead(u) /\ Plan(u)' = Plan(u)
        BY <2>5, <3>3 DEF OnlyMoves, Ahead, Plan
      <4>2. SubmissionOf(u)'
        <5>1. \A x \in SubmitSteps : x \notin Ahead(u)'
          BY <3>1, <4>1 DEF Has
        <5>2. Has(u, {"settle"})' => slot'[Plan(u)'].evidence # Unknown /\ entry'[Plan(u)'] \notin {"None", "Admitted"}
          BY <1>1, <2>3, <3>1, <4>1 DEF ThreadInv, SubmissionOf, Has
        <5>3. QED
          BY <5>1, <5>2 DEF SubmissionOf, Has, SubmitSteps
      <4>3. EndingOf(u)'
        BY <1>1, <2>6, <2>8, <3>1, <4>1 DEF ThreadInv, EndingOf, Has, Phase, Unknown
      <4>4. TellingOf(u)'
        BY <1>1, <3>1, <4>1 DEF ThreadInv, TellingOf, Has
      <4>5. QED
        BY <4>2, <4>3, <4>4 DEF ThreadInv
    <3>4. QED
      BY <3>2, <3>3
  <2>10. ASSUME NEW q \in Plans PROVE PlanInv(q)'
    <3>1. PlanInv(q)
      BY BeforeStep
    <3>2. ~slot[q].receipt
      BY <2>1, <3>1 DEF PlanInv, SlotOK, Kept
    <3>3. SlotOK(q)'
      BY <1>1, <2>6, <2>8, <3>1, <3>2 DEF PlanInv, SlotOK, Phase
    <3>4. Leaving(q) => Leaving(q)'
      BY <2>4, <2>5, StillAhead DEF Leaving
    <3>5. Submitter(q) # t
      BY <2>1, <2>4 DEF Stepped, IsAt, Submitting
    <3>6. Ahead(Submitter(q))' = Ahead(Submitter(q))
      BY <2>4, <3>5, OwnStep
    <3>7. ResidenceOK(q)'
      BY <1>1, <2>3, <3>1, <3>4, <3>6 DEF PlanInv, ResidenceOK, Phase, Resident, Submits, Has
    <3>8. slot[q].delivered /\ told[q] = <<>> => (\E u \in Threads : Plan(u) = q /\ Has(u, {"tell"}))'
      <4>1. "tell" \in Ahead(t) => "tell" \in todo
        BY <2>5
      <4>2. (\E u \in Threads : Plan(u) = q /\ Has(u, {"tell"})) => (\E u \in Threads : Plan(u) = q /\ Has(u, {"tell"}))'
        BY <2>4, <4>1, StillAhead
      <4>3. QED
        BY <3>1, <4>2 DEF PlanInv, Telling
    <3>9. QED
      BY <1>1, <3>1, <3>3, <3>7, <3>8 DEF PlanInv, Telling
  <2>11. Alone'
    <3>1. ASSUME NEW u \in Threads, NEW x, x \in FinalSteps \cup {"tell"}, x \in Ahead(u)'
          PROVE  thread'[u] = thread[u]
      BY <2>5, <3>1 DEF OnlyMoves, FinalSteps
    <3>2. ASSUME NEW u \in Threads, NEW steps, steps \subseteq FinalSteps \cup {"tell"}, Has(u, steps)'
          PROVE  Has(u, steps) /\ Plan(u)' = Plan(u)
      BY <3>1, <3>2 DEF Has, Ahead, Plan
    <3>3. QED
      BY <3>2 DEF IInv, Alone
  <2>12. Sharing'
    <3>1. Holders' = {}
      BY <1>1, <2>1, <2>6 DEF Holders, Kept, Resident
    <3>2. QED
      BY <2>6, <3>1 DEF Sharing
  <2>13. Refines
    <3>1. \A q \in Plans : Recorded(entry[q]) # Unknown => entry'[q] = entry[q]
      BY <2>3 DEF Recorded, Terminal
    <3>2. QED
      BY <1>1, <2>7, <3>1, RecordingIsPromised DEF IInv
  <2>14. QED
    BY <2>5, <2>7, <2>9, <2>10, <2>11, <2>12, <2>13 DEF IInv
<1>4. QED
  BY <1>2, <1>3

LEMMA PoolExpiresIsSafe ==
  ASSUME IInv, PoolExpires
  PROVE  IInv' /\ Refines
<1>1. /\ poolAlive /\ poolAlive' = FALSE
      /\ UNCHANGED <<entry, journal, slot, slots, pool, thread, told, completed>>
  BY DEF PoolExpires, custody
<1>2. Types' /\ ThreadsOK'
  BY <1>1 DEF IInv, Types, ThreadsTyped, ThreadsOK, Plan, MayHave, Ahead
<1>3. \A t \in Threads : Ahead(t)' = Ahead(t) /\ Plan(t)' = Plan(t) /\ ~Has(t, PoolSteps)
  BY <1>1 DEF PoolExpires, Ahead, Plan, Has, Elements, PoolSteps
<1>4. ASSUME NEW t \in Threads PROVE ThreadInv(t)'
  <2>1. ThreadInv(t)
    BY BeforeStep
  <2>2. SubmissionOf(t)' /\ TellingOf(t)'
    BY <1>1, <1>3, <2>1 DEF ThreadInv, SubmissionOf, TellingOf, Has, Phase
  <2>3. EndingOf(t)'
    BY <1>1, <1>3, <2>1 DEF ThreadInv, EndingOf, Has, Phase, IsSettled, Submitting
  <2>4. QED
    BY <2>2, <2>3 DEF ThreadInv
<1>5. ASSUME NEW p \in Plans PROVE PlanInv(p)'
  <2>1. PlanInv(p)
    BY BeforeStep
  <2>2. SlotOK(p)'
    BY <1>1, <2>1 DEF PlanInv, SlotOK, Phase, IsSettled, Submitting
  <2>3. Leaving(p) => Leaving(p)'
    BY <1>3 DEF Leaving, Has
  <2>4. ResidenceOK(p)'
    BY <1>1, <2>1, <2>3 DEF PlanInv, ResidenceOK, Phase, Resident, Submits, Has, Ahead
  <2>5. Telling(p)'
    BY <1>1, <1>3, <2>1 DEF PlanInv, Telling, Has
  <2>6. QED
    BY <2>2, <2>4, <2>5 DEF PlanInv
<1>6. Alone'
  BY <1>3 DEF IInv, Alone, Has
<1>7. Sharing'
  <2>1. \A q \in Holders' : q \in Holders
    BY <1>1 DEF Holders, Kept, Resident, Submitting
  <2>2. QED
    BY <1>1, <1>3, <2>1 DEF IInv, Sharing, Has, Submitting
<1>8. Refines
  BY <1>1, <1>2, RecordingIsPromised DEF IInv
<1>9. QED
  BY <1>2, <1>4, <1>5, <1>6, <1>7, <1>8 DEF IInv

-----------------------------------------------------------------------------
(* Every step, and what follows for all behaviours.                           *)

LEMMA StepsHavePlans ==
  ASSUME IInv, NEW t \in Threads, Step(t)
  PROVE  Plan(t) \in Plans
<1>1. thread[t].todo # <<>>
  <2>1. CASE Submit(t)
    BY <2>1 DEF Submit, At, Admit, FinalizeAdmission, Reserve, TransitionToRunning, Abandon, Arm,
                FinalizeBeforeEnqueue, BeginEnqueue, TryEnqueue, RejectEnqueue, CommitEnqueue
  <2>2. CASE \/ FinalizeCustodiedSlot(t) \/ DeliverTerminalOutcome(t) \/ Tell(t) \/ Close(t) \/ Erase(t)
             \/ RetryFinalization(t) \/ Retain(t) \/ LetGo(t)
    BY <2>2 DEF At, FinalizeCustodiedSlot, DeliverTerminalOutcome, Tell, Close, Erase,
                RetryFinalization, Retain, LetGo
  <2>3. CASE FinalizeReconciled(t) \/ FinalizeNothing(t) \/ FinalizeInconsistent(t) \/ FinalizePoolSlot(t)
    BY <2>3 DEF At, FinalizeReconciled, FinalizeNothing, FinalizeInconsistent, FinalizePoolSlot
  <2>4. CASE Reopen(t) \/ Reconcile(t) \/ ReleaseReconciled(t) \/ ConfirmRelease(t)
    BY <2>4 DEF At, Reopen, Reconcile, ReleaseReconciled, ConfirmRelease
  <2>5. QED
    BY <2>1, <2>2, <2>3, <2>4 DEF Step
<1>2. QED
  BY <1>1 DEF IInv, ThreadsOK

LEMMA StepIsSafe ==
  ASSUME IInv, NEW t \in Threads, NEW p \in Plans, p = Plan(t), Step(t)
  PROVE  IInv' /\ Refines
<1>1. CASE Submit(t)
  <2>1. CASE Admit(t) \/ FinalizeAdmission(t) \/ Reserve(t) \/ TransitionToRunning(t) \/ Abandon(t)
    BY <2>1, AdmitIsSafe, FinalizeAdmissionIsSafe, ReserveIsSafe, TransitionToRunningIsSafe, AbandonIsSafe
  <2>2. CASE Arm(t) \/ FinalizeBeforeEnqueue(t) \/ BeginEnqueue(t)
    BY <2>2, ArmIsSafe, FinalizeBeforeEnqueueIsSafe, BeginEnqueueIsSafe
  <2>3. CASE TryEnqueue(t) \/ RejectEnqueue(t) \/ CommitEnqueue(t)
    BY <2>3, TryEnqueueIsSafe, RejectEnqueueIsSafe, CommitEnqueueIsSafe
  <2>4. QED
    BY <1>1, <2>1, <2>2, <2>3 DEF Submit
<1>2. CASE FinalizeCustodiedSlot(t) \/ DeliverTerminalOutcome(t) \/ Tell(t) \/ Close(t) \/ Erase(t)
  BY <1>2, FinalizeCustodiedSlotIsSafe, DeliverTerminalOutcomeIsSafe, TellIsSafe, CloseIsSafe, EraseIsSafe
<1>3. CASE RetryFinalization(t) \/ Retain(t) \/ LetGo(t)
  BY <1>3, RetryFinalizationIsSafe, RetainIsSafe, LetGoIsSafe
<1>4. CASE FinalizeReconciled(t) \/ FinalizeNothing(t) \/ FinalizeInconsistent(t) \/ FinalizePoolSlot(t)
  BY <1>4, FinalizeReconciledIsSafe, FinalizeNothingIsSafe, FinalizeInconsistentIsSafe, FinalizePoolSlotIsSafe
<1>5. CASE Reopen(t) \/ Reconcile(t) \/ ReleaseReconciled(t) \/ ConfirmRelease(t)
  BY <1>5, ReopenIsSafe, ReconcileIsSafe, ReleaseReconciledIsSafe, ConfirmReleaseIsSafe
<1>6. QED
  BY <1>1, <1>2, <1>3, <1>4, <1>5 DEF Step

LEMMA NothingHappens ==
  ASSUME IInv, UNCHANGED vars
  PROVE  IInv' /\ Refines
<1>1. UNCHANGED <<entry, journal, slot, slots, pool, poolAlive, thread, told, completed>>
  BY DEF vars, custody
<1>2. Types' /\ ThreadsOK' /\ Alone' /\ Sharing'
  BY <1>1 DEF IInv, Types, ThreadsTyped, ThreadsOK, Plan, MayHave, Ahead, Alone, Has, Sharing, Holders,
              Kept, Resident, Submitting
<1>3. ASSUME NEW t \in Threads PROVE ThreadInv(t)'
  <2>1. ThreadInv(t)
    BY DEF IInv
  <2>2. Ahead(t)' = Ahead(t) /\ Plan(t)' = Plan(t) /\ \A p \in Plans : Submitting(p)' = Submitting(p)
    BY <1>1 DEF Ahead, Plan, Submitting
  <2>3. SubmissionOf(t)' /\ TellingOf(t)'
    BY <1>1, <2>1, <2>2 DEF ThreadInv, SubmissionOf, TellingOf, Has, Phase
  <2>4. EndingOf(t)'
    BY <1>1, <2>1, <2>2 DEF ThreadInv, EndingOf, Has, Phase, IsSettled, Submitting
  <2>5. QED
    BY <2>3, <2>4 DEF ThreadInv
<1>4. ASSUME NEW p \in Plans PROVE PlanInv(p)'
  <2>1. PlanInv(p)
    BY DEF IInv
  <2>2. SlotOK(p)'
    BY <1>1, <2>1 DEF PlanInv, SlotOK, Phase, IsSettled, Submitting
  <2>3. ResidenceOK(p)'
    BY <1>1, <2>1 DEF PlanInv, ResidenceOK, Phase, Resident, Submits, Has, Ahead, Leaving, Plan
  <2>4. Telling(p)'
    BY <1>1, <2>1 DEF PlanInv, Telling, Has, Ahead, Plan
  <2>5. QED
    BY <2>2, <2>3, <2>4 DEF PlanInv
<1>5. Refines
  BY <1>1 DEF Refines, Promise!vars
<1>6. QED
  BY <1>2, <1>3, <1>4, <1>5 DEF IInv

LEMMA NextIsSafe ==
  IInv /\ [Next]_vars => IInv' /\ Refines
<1> SUFFICES ASSUME IInv, [Next]_vars PROVE IInv' /\ Refines
  OBVIOUS
<1>1. ASSUME NEW t \in Threads, Step(t) PROVE IInv' /\ Refines
  BY <1>1, StepsHavePlans, StepIsSafe
<1>2. ASSUME NEW p \in Plans, TakeJournal(p) PROVE IInv' /\ Refines
  BY <1>2, TakeJournalIsSafe
<1>3. ASSUME NEW p \in Plans, OperationDidFinish(p) PROVE IInv' /\ Refines
  <2>1. Worker(p) \in Threads
    BY ThreadNames
  <2>2. QED
    BY <1>3, <2>1, CallsAreSafe
<1>4. ASSUME NEW p \in Plans, NEW t \in Recovering, Service(t, p) PROVE IInv' /\ Refines
  <2>1. t \in Threads
    BY ThreadNames
  <2>2. QED
    BY <1>4, <2>1, CallsAreSafe
<1>5. ASSUME NEW p \in Plans, NEW t \in Releasing, CallReleaseReconciled(t, p) \/ CallRetryFinalization(t, p)
      PROVE  IInv' /\ Refines
  <2>1. t \in Threads
    BY ThreadNames
  <2>2. QED
    BY <1>5, <2>1, CallsAreSafe
<1>6. QED
  BY <1>1, <1>2, <1>3, <1>4, <1>5, PoolExpiresIsSafe, NothingHappens DEF Next

LEMMA InitIsSafe ==
  Init => IInv /\ Promise!Init
<1> SUFFICES ASSUME Init PROVE IInv /\ Promise!Init
  OBVIOUS
<1>1. NoSlot \in SlotStates /\ NoSlot.phase = "Released" /\ ~NoSlot.receipt /\ ~NoSlot.poolOwned
      /\ ~NoSlot.delivered /\ NoSlot.status = Unknown
  BY DEF NoSlot, NewSlot, SlotStates, Phases
<1>2. \A p \in Plans : slot[p] = NoSlot /\ entry[p] = "None" /\ pool[p] = "out" /\ told[p] = <<>> /\ p \notin slots
  BY DEF Init
<1>3. \A t \in Threads : thread[t] = Idle /\ Ahead(t) = {}
  BY IdleIsEmpty DEF Init, Ahead
<1>4. Types
  <2>1. IsFiniteSet(slots) /\ Cardinality(slots) <= MaxPendingSlots /\ slots \subseteq Plans
    BY FS_EmptySet, CustodianAssumption DEF Init
  <2>2. ThreadsTyped
    BY IdleIsEmpty DEF Init, ThreadsTyped
  <2>3. told \in [Plans -> Seq(Terminal \cup {"Interrupted"})]
    BY DEF Init
  <2>4. QED
    BY <1>1, <2>1, <2>2, <2>3 DEF Init, Types, EntryStates
<1>5. ThreadsOK
  BY <1>3, IdleIsEmpty, ShortLists DEF ThreadsOK
<1>6. Alone /\ Sharing
  BY <1>3 DEF Init, Alone, Sharing, Has
<1>7. ASSUME NEW t \in Threads PROVE ThreadInv(t)
  BY <1>3, IdleIsEmpty DEF Init, ThreadInv, SubmissionOf, EndingOf, TellingOf, Has, Unknown
<1>8. ASSUME NEW p \in Plans PROVE PlanInv(p)
  <2>1. SlotOK(p)
    BY <1>1, <1>2 DEF SlotOK, Phase, Custodial, Answered, AlreadyConfirmed
  <2>2. ResidenceOK(p)
    BY <1>1, <1>2 DEF ResidenceOK, Phase, Resident
  <2>3. Telling(p)
    BY <1>1, <1>2 DEF Telling
  <2>4. QED
    BY <2>1, <2>2, <2>3 DEF PlanInv
<1>9. Promise!Init
  <2>1. \A p \in Plans : Recorded(entry[p]) = Unknown
    BY <1>2 DEF Recorded, Terminal
  <2>2. {p \in Plans : pool[p] = "gone"} = {}
    BY <1>2
  <2>3. QED
    BY <2>1, <2>2 DEF Init, Promise!Init
<1>10. QED
  BY <1>4, <1>5, <1>6, <1>7, <1>8, <1>9 DEF IInv

(* The inductive invariant holds however submissions, workers, recoveries and *)
(* releases interleave, and whichever mutations of the journal fail.          *)
THEOREM CustodyHolds == Spec => []IInv
<1>1. Init => IInv
  BY InitIsSafe
<1>2. IInv /\ [Next]_vars => IInv'
  BY NextIsSafe
<1>3. QED
  BY <1>1, <1>2, PTL DEF Spec

(* A slot holds its receipt in the phases of custody and in no other, has its *)
(* evidence before the journal answers for it, and the map of slots stays     *)
(* within the bound Reserve checks.                                           *)
THEOREM SlotsAreTyped == Spec => []TypeOK
<1>1. IInv => TypeOK
  <2> SUFFICES ASSUME IInv PROVE TypeOK
    OBVIOUS
  <2>1. \A p \in Plans : SlotOK(p)
    BY DEF IInv, PlanInv
  <2>2. QED
    BY <2>1 DEF IInv, Types, TypeOK, SlotOK, EntryStates, SlotStates, ThreadsTyped, CallStates, CallResults
<1>2. QED
  BY <1>1, CustodyHolds, PTL

(* No reopen of the journal interrupts a plan whose receipt is in custody.    *)
THEOREM NoReopenInterruptsCustody == Spec => []ReceiptsAreForRunningPlans
<1>1. IInv => ReceiptsAreForRunningPlans
  BY DEF IInv, PlanInv, SlotOK, ReceiptsAreForRunningPlans
<1>2. QED
  BY <1>1, CustodyHolds, PTL

(* An operation the pool still has, has its slot in the map, or is already on *)
(* its way out: it can always be finalized or released.                       *)
THEOREM ResidentsCanBeReleased == Spec => []ResidentsKeepTheirSlot
<1>1. ASSUME NEW p \in Plans PROVE Leaving(p) => LettingGo(p)
  BY DEF Leaving, LettingGo, Has, Ahead, Elements
<1>2. IInv => ResidentsKeepTheirSlot
  BY <1>1 DEF IInv, PlanInv, ResidenceOK, ResidentsKeepTheirSlot
<1>3. QED
  BY <1>2, CustodyHolds, PTL

(* Custodian implements DurableOutcome: an outcome is recorded for good, told *)
(* at most once and as it is recorded, and only then does the pool let the    *)
(* operation go and report it completed.                                      *)
THEOREM CustodyKeepsThePromise == Spec => KeepsThePromise
<1>1. Init => Promise!Init
  BY InitIsSafe
<1>2. IInv /\ [Next]_vars => [Promise!Next]_(Promise!vars)
  BY NextIsSafe DEF Refines
<1>3. QED
  BY <1>1, <1>2, CustodyHolds, PTL DEF Spec, KeepsThePromise, Promise!Spec
=============================================================================
