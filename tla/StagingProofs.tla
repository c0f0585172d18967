---------------------------- MODULE StagingProofs ----------------------------
(***************************************************************************)
(* Theorems about Staging, for any requests, artifacts, helpers and limits,*)
(* and any number of failures, crashes and power losses: seals and         *)
(* lifecycle records vouch for what a power loss cannot take, a request is *)
(* sealed once, and what is returned or found pending is the source as it  *)
(* was reviewed.                                                           *)
(***************************************************************************)
EXTENDS Staging, FiniteSetTheorems, TLAPS

-----------------------------------------------------------------------------
(* Files.                                                                     *)

Contents ==
  {Gone, Torn} \cup [is : {"record"}, header : Headers]
    \cup [is : {"artifact"}, data : Seq(Nat)]
    \cup [is : {"seal"}, header : Headers, data : Seq(Nat)]
    \cup [is : {"pair"}, header : Headers, ids : [Roots -> Ids], version : Nat, seals : [Roots -> Seq(Nat)]]

Files == [now : Contents, may : SUBSET Contents, flushed : BOOLEAN]

Flushed(r, k, i) == fs[r][k][i].flushed
May(r, k, i)     == fs[r][k][i].may
Used(r, i)       == MayBeFound(r, "artifact", i)

(* In which order the files of an artifact come.                              *)
Place(k) == CASE k = "record" -> 1 [] k = "artifact" -> 2 [] k = "seal" -> 3 [] k = "pair" -> 4 [] k = "pairSeal" -> 5

FileOK(r, k, i) ==
  /\ Now(r, k, i) \in May(r, k, i) /\ IsFiniteSet(May(r, k, i))
  /\ k # "record" /\ Now(r, k, i) = Gone => May(r, k, i) = {Gone}

(* Only one request is ever written into a record, and what has an artifact   *)
(* keeps it.                                                                  *)
RecordOK(r, i) ==
  /\ \A c \in May(r, "record", i) : c \in {Gone, Torn} \/ c.is = "record"
  /\ \A x \in Headers : Record(x) \in May(r, "record", i) =>
       /\ \A y \in Headers : Record(y) \in May(r, "record", i) => x = y
       /\ Used(r, i) => Now(r, "record", i) = Record(x)

SealOK(r, i) ==
  /\ MayBeFound(r, "seal", i) => /\ Durable(r, "record", i) /\ Durable(r, "artifact", i)
                                 /\ Now(r, "artifact", i).is = "artifact"
  /\ \A c \in May(r, "seal", i) : c.is = "seal" =>
       Now(r, "record", i) = Record(c.header) /\ Now(r, "artifact", i) = Artifact(c.data)

(* What a lifecycle record speaks of. *)
Backed(pair) ==
  \A q \in Roots :
    /\ Durable(q, "record", pair.ids[q]) /\ Now(q, "record", pair.ids[q]) = Record(pair.header)
    /\ Durable(q, "artifact", pair.ids[q])
    /\ Now(q, "artifact", pair.ids[q]) = Artifact(<<pair.version, pair.version>>)
    /\ pair.seals[q] = <<pair.version, pair.version>>

PairOK(r, i) ==
  /\ MayBeFound(r, "pairSeal", i) => Durable(r, "pair", i) /\ Durable(r, "seal", i)
  /\ \A k \in Lifecycle : \A c \in May(r, k, i) : c.is = "pair" =>
       /\ c.ids[r] = i /\ Backed(c)
       /\ k = "pair" /\ r = Second => Durable(First, "pairSeal", c.ids[First])

(* Of the artifacts reserved for a request in a root only one is ever used.   *)
OneUsed ==
  \A r \in Roots, i, j \in Ids, x \in Headers :
    Record(x) \in May(r, "record", i) /\ Record(x) \in May(r, "record", j) /\ Used(r, i) /\ Used(r, j) => i = j

Disk ==
  /\ fs \in [Roots -> [Kinds -> [Ids -> Files]]]
  /\ \A r \in Roots, k \in Kinds, i \in Ids : FileOK(r, k, i)
  /\ \A r \in Roots, i \in Ids : RecordOK(r, i) /\ SealOK(r, i) /\ PairOK(r, i)
  /\ OneUsed

StagedOK(s) ==
  /\ s.header \in Headers /\ s.ids \in [Roots -> Ids]
  /\ \A r \in Roots, k \in Kinds : Durable(r, k, s.ids[r])
  /\ \A r \in Roots : Now(r, "seal", s.ids[r]).is = "seal"
  /\ LET pair == Now(First, "pair", s.ids[First])
     IN  /\ pair.is = "pair" /\ pair.header = s.header /\ pair.ids = s.ids
         /\ \A r \in Roots, k \in Lifecycle : Now(r, k, s.ids[r]) = pair

-----------------------------------------------------------------------------
(* Steps.                                                                     *)

Operations == {"lock", "scan", "reserve", "create", "copy", "copyRest", "write", "sync", "full",
               "return", "open", "sealed", "staged", "validate", "permit"}

WellFormed(t) ==
  CASE t.op \in {"lock", "scan", "reserve", "open", "sealed"} -> t.kind = "record"
    [] t.op = "create" -> t.kind # "record"
    [] t.op \in {"copy", "copyRest", "return", "staged", "validate", "permit"} -> t.kind = "artifact"
    [] t.op = "write" -> t.kind # "artifact"
    [] t.op = "full" -> t.kind \in {"artifact", "pair", "pairSeal"}
    [] OTHER -> TRUE

Steps == {t \in [op : Operations, root : Roots, kind : Kinds] : WellFormed(t)}

Creates == {"create", "copy", "copyRest", "write"}
Writes  == Creates \cup {"sync", "full"}

(* The order of the steps in every list.                                      *)
Turn(op) == CASE op = "create" -> 1 [] op \in {"copy", "write"} -> 2 [] op = "copyRest" -> 3 [] op = "sync" -> 4
              [] op = "full" -> 5 [] OTHER -> 0

Base(r, k) == IF k \in Lifecycle THEN (IF r = First THEN 100 ELSE 200) ELSE (IF r = "source" THEN 0 ELSE 50)

Rank(t) ==
  IF t.op = "lock" THEN (IF t.root = First THEN 0 ELSE 1)
  ELSE IF t.op = "scan" THEN 2
  ELSE IF t.op \in Writes \cup {"reserve"} THEN 10 * Place(t.kind) + Turn(t.op) + Base(t.root, t.kind)
  ELSE IF t.op \in {"return", "open", "sealed"} THEN 300
  ELSE IF t.op = "staged" THEN 301
  ELSE IF t.op = "validate" THEN 302 ELSE 303

Before(s, t)  == Rank(s) < Rank(t) \/ (s.op = "validate" /\ t.op = "validate")
InOrder(list) == \A i, j \in DOMAIN list : i < j => Before(list[i], list[j])

Elements(list) == {list[i] : i \in DOMAIN list}
Ahead(h)       == Elements(todo[h])

Returning == Step("return", "destination", "artifact")

InSession(h)   == Returning \in Ahead(h)
IsOpen(h, r)   == Step("open", r, "record") \in Ahead(h)
Works(h, r)    == InSession(h) \/ IsOpen(h, r) \/ Step("sealed", r, "record") \in Ahead(h)
Has(h, r)      == Works(h, r) /\ run[h].ids[r] # NoId

Holds   == Writes \cup {"reserve", "scan", "open", "sealed", "return"}

(* What follows a reservation. *)
Wanted(r) == {t \in Steps : t.root = r /\ t.op \in Writes}

Listed(h) ==
  /\ todo[h] \in Seq(Steps) /\ InOrder(todo[h])
  /\ \A t \in Ahead(h) :
       /\ t.op \in Holds => Works(h, t.root)
       /\ t.op \in {"copy", "copyRest", "return"} \/ t.kind \in Lifecycle => InSession(h)
       /\ t.op \in Writes => Step("reserve", t.root, "record") \in Ahead(h) \/ run[h].ids[t.root] # NoId
       /\ t.op = "reserve" => /\ run[h].ids[t.root] = NoId /\ run[h].header \in Headers
                              /\ IsOpen(h, t.root) \/ InSession(h)
                              /\ {Step("write", t.root, "record"), Step("sync", t.root, "record")} \subseteq Ahead(h)
       /\ t.op = "scan" => run[h].ids[t.root] = NoId /\ IsOpen(h, t.root)
       /\ IsOpen(h, t.root) => t.kind = "record"
  /\ \A r \in Roots :
       /\ Works(h, r) => r \in held[h] \/ Step("lock", r, "record") \in Ahead(h)
       /\ IsOpen(h, r) => ~InSession(h)
       /\ IsOpen(h, r) /\ run[h].ids[r] # NoId /\ Step("sync", r, "record") \notin Ahead(h) => slots[h] # {}
  /\ InSession(h) =>
       /\ run[h].version \in Nat \ {0} /\ run[h].version <= source /\ run[h].header \in Headers
       /\ \A r \in Roots :
            /\ Step("reserve", r, "record") \in Ahead(h) \/ run[h].ids[r] # NoId
            /\ Step("reserve", r, "record") \in Ahead(h) => Wanted(r) \subseteq Ahead(h)

(* What a step on a file still to come needs, and what a step behind has left. *)
Expected(h, r, k) ==
  CASE k = "record" -> Record(run[h].header)
    [] k = "seal"   -> Seal(run[h].header, Now(r, "artifact", run[h].ids[r]).data)
    [] OTHER        -> Manifest(h)

Putting(r, k) == {Step(op, r, k) : op \in Creates}

Done(h, op, r, k) == Step(op, r, k) \notin Ahead(h) /\ (k = "record" \/ ~IsOpen(h, r)) /\ (k \in Lifecycle => InSession(h))

FileOf(h, r, k) ==
  LET i == run[h].ids[r]
  IN  /\ Putting(r, k) \cap Ahead(h) # {} =>
           /\ \A l \in Kinds : Place(k) < Place(l) => ~MayBeFound(r, l, i)
           /\ ~Durable(r, k, i) /\ (Flushed(r, k, i) => Now(r, k, i) = Gone)
      /\ Step("create", r, k) \in Ahead(h) => ~MayBeFound(r, k, i)
      /\ k # "record" /\ IsOpen(h, r) => ~MayBeFound(r, k, i)
      /\ k # "artifact" /\ Done(h, "write", r, k) => Now(r, k, i) = Expected(h, r, k)
      /\ Done(h, "sync", r, k) => Flushed(r, k, i) /\ Now(r, k, i) # Gone
      /\ k \in {"artifact", "pair", "pairSeal"} /\ Done(h, "full", r, k) =>
           \A l \in Kinds : Place(l) <= Place(k) => Durable(r, l, i)
      /\ k = "artifact" /\ Done(h, "create", r, k) => Now(r, k, i).is = "artifact"

DataOf(h, r) ==
  LET c == Now(r, "artifact", run[h].ids[r])
      v == run[h].version
  IN  /\ Step("copyRest", r, "artifact") \notin Ahead(h) => c.is = "artifact" /\ Len(c.data) = 2
      /\ Step("copy", r, "artifact") \notin Ahead(h) => c.is = "artifact"
      /\ Step("copy", r, "artifact") \in Ahead(h) => Step("copyRest", r, "artifact") \in Ahead(h)
      /\ c.is = "artifact" =>
           /\ Step("copyRest", r, "artifact") \in Ahead(h) =>
                Len(c.data) = IF Step("copy", r, "artifact") \in Ahead(h) THEN 0 ELSE 1
           /\ \A n \in DOMAIN c.data : /\ v <= c.data[n] /\ c.data[n] <= source
                                       /\ r = "destination" => c.data[n] = v
           /\ Step("sync", r, "artifact") \notin Ahead(h) => \A n \in DOMAIN c.data : c.data[n] = v

ReservationOf(h, r) ==
  LET i == run[h].ids[r]
  IN  /\ i \in Ids /\ run[h].header \in Headers /\ r \in held[h]
      /\ InSession(h) => held[h] = Roots
      /\ \A j \in Ids \ {i} : Used(r, j) => Record(run[h].header) \notin May(r, "record", j)

WorkOf(h, r) ==
  Has(h, r) => ReservationOf(h, r) /\ (\A k \in Kinds : FileOf(h, r, k)) /\ (InSession(h) => DataOf(h, r))

Types ==
  /\ source \in Nat \ {0}
  /\ todo \in [Helpers -> Seq(Steps)]
  /\ run \in [Helpers -> [header : Headers \cup {NoHeader}, version : Nat, ids : [Roots -> Ids \cup {NoId}]]]
  /\ held \in [Helpers -> SUBSET Roots]
  /\ slots \in [Helpers -> SUBSET [root : Roots, header : Headers, id : Ids]]

Locks == \A g, h \in Helpers : g # h => held[g] \cap held[h] = {}

IInv ==
  /\ Types /\ Locks /\ Disk
  /\ \A h \in Helpers : Listed(h) /\ \A r \in Roots : WorkOf(h, r)
  /\ \A s \in staged : StagedOK(s)

-----------------------------------------------------------------------------
(* Roots, kinds, contents.                                                    *)

(* There are two roots, and the lifecycle records of one come first. *)
LEMMA TheRoots ==
  /\ First \in Roots /\ Second \in Roots /\ First # Second /\ Roots = {First, Second}
  /\ "source" \in Roots /\ "destination" \in Roots
<1>1. First \in Roots
  BY StagingAssumption
<1>2. \E r \in Roots : r # First
  BY DEF Roots
<1>3. Second \in Roots /\ Second # First
  BY <1>2 DEF Second
<1>4. QED
  BY <1>1, <1>3 DEF Roots

(* The order of the files of an artifact, in numbers. *)
LEMMA ThePlaces ==
  /\ Place("record") = 1 /\ Place("artifact") = 2 /\ Place("seal") = 3 /\ Place("pair") = 4 /\ Place("pairSeal") = 5
  /\ \A k \in Kinds : Place(k) \in 1 .. 5
  /\ \A k, l \in Kinds : Place(k) = Place(l) => k = l
<1>1. Place("record") = 1 /\ Place("artifact") = 2 /\ Place("seal") = 3 /\ Place("pair") = 4 /\ Place("pairSeal") = 5
  BY DEF Place
<1>2. \A k \in Kinds : k \in {"record", "artifact", "seal", "pair", "pairSeal"}
  BY DEF Kinds
<1>3. QED
  BY <1>1, <1>2

(* What the model writes into files is among the contents. *)
LEMMA TheContents ==
  /\ Gone \in Contents /\ Torn \in Contents /\ Gone # Torn
  /\ \A x \in Headers : Record(x) \in Contents /\ Record(x) # Gone /\ Record(x) # Torn
  /\ \A data \in Seq(Nat) : Artifact(data) \in Contents /\ Artifact(data).is = "artifact" /\ Artifact(data) # Gone /\ Artifact(data) # Torn
  /\ \A x \in Headers : \A data \in Seq(Nat) : /\ Seal(x, data) \in Contents /\ Seal(x, data).is = "seal"
                                               /\ Seal(x, data) # Gone /\ Seal(x, data) # Torn
  /\ \A x \in Headers : \A ids \in [Roots -> Ids] : \A v \in Nat : \A seals \in [Roots -> Seq(Nat)] :
       /\ Pair(x, ids, v, seals) \in Contents /\ Pair(x, ids, v, seals).is = "pair"
       /\ Pair(x, ids, v, seals) # Gone /\ Pair(x, ids, v, seals) # Torn
<1>1. Gone \in Contents /\ Torn \in Contents /\ Gone # Torn
  BY DEF Contents, Gone, Torn
<1>2. \A x \in Headers : Record(x) \in Contents /\ Record(x) # Gone /\ Record(x) # Torn
  BY DEF Contents, Record, Gone, Torn
<1>3. \A data \in Seq(Nat) : Artifact(data) \in Contents /\ Artifact(data).is = "artifact" /\ Artifact(data) # Gone /\ Artifact(data) # Torn
  BY DEF Contents, Artifact, Gone, Torn
<1>4. \A x \in Headers : \A data \in Seq(Nat) : /\ Seal(x, data) \in Contents /\ Seal(x, data).is = "seal"
                                                /\ Seal(x, data) # Gone /\ Seal(x, data) # Torn
  BY DEF Contents, Seal, Gone, Torn
<1>5. ASSUME NEW x \in Headers, NEW ids \in [Roots -> Ids], NEW v \in Nat, NEW seals \in [Roots -> Seq(Nat)]
      PROVE  /\ Pair(x, ids, v, seals) \in Contents /\ Pair(x, ids, v, seals).is = "pair"
             /\ Pair(x, ids, v, seals) # Gone /\ Pair(x, ids, v, seals) # Torn
  BY DEF Contents, Pair, Gone, Torn
<1>6. QED
  BY <1>1, <1>2, <1>3, <1>4, <1>5

(* A content is known by its tag. *)
LEMMA WhatIs ==
  ASSUME NEW c \in Contents
  PROVE  /\ c.is = "gone" <=> c = Gone
         /\ c.is = "torn" <=> c = Torn
         /\ c.is = "record" => \E x \in Headers : c = Record(x)
         /\ c.is = "artifact" => c.data \in Seq(Nat) /\ c = Artifact(c.data)
         /\ c.is = "seal" => c.header \in Headers /\ c.data \in Seq(Nat) /\ c = Seal(c.header, c.data)
         /\ c.is = "pair" => /\ c.header \in Headers /\ c.ids \in [Roots -> Ids] /\ c.version \in Nat
                             /\ c.seals \in [Roots -> Seq(Nat)]
                             /\ c = Pair(c.header, c.ids, c.version, c.seals)
<1>1. CASE c \in {Gone, Torn}
  BY <1>1 DEF Gone, Torn
<1>2. CASE c \in [is : {"record"}, header : Headers]
  BY <1>2 DEF Gone, Torn, Record
<1>3. CASE c \in [is : {"artifact"}, data : Seq(Nat)]
  BY <1>3 DEF Gone, Torn, Artifact
<1>4. CASE c \in [is : {"seal"}, header : Headers, data : Seq(Nat)]
  BY <1>4 DEF Gone, Torn, Seal
<1>5. CASE c \in [is : {"pair"}, header : Headers, ids : [Roots -> Ids], version : Nat, seals : [Roots -> Seq(Nat)]]
  BY <1>5 DEF Gone, Torn, Pair
<1>6. QED
  BY <1>1, <1>2, <1>3, <1>4, <1>5 DEF Contents

(* A file of the disk. *)
LEMMA TheFile ==
  ASSUME Disk, NEW r \in Roots, NEW k \in Kinds, NEW i \in Ids
  PROVE  /\ fs[r][k][i] \in Files
         /\ Now(r, k, i) \in Contents /\ May(r, k, i) \subseteq Contents /\ Flushed(r, k, i) \in BOOLEAN
         /\ FileOK(r, k, i)
         /\ Durable(r, k, i) <=> Now(r, k, i) # Gone /\ May(r, k, i) = {Now(r, k, i)}
         /\ MayBeFound(r, k, i) <=> May(r, k, i) # {Gone}
         /\ Durable(r, k, i) => MayBeFound(r, k, i)
         /\ ~MayBeFound(r, k, i) => Now(r, k, i) = Gone
<1>1. fs[r][k][i] \in Files /\ FileOK(r, k, i)
  BY DEF Disk
<1>2. Now(r, k, i) \in Contents /\ May(r, k, i) \subseteq Contents /\ Flushed(r, k, i) \in BOOLEAN
  BY <1>1 DEF Files, Now, May, Flushed
<1>3. /\ Durable(r, k, i) <=> Now(r, k, i) # Gone /\ May(r, k, i) = {Now(r, k, i)}
      /\ MayBeFound(r, k, i) <=> May(r, k, i) # {Gone}
  BY DEF Durable, MayBeFound, May
<1>4. QED
  BY <1>1, <1>2, <1>3 DEF FileOK

-----------------------------------------------------------------------------
(* What a step leaves of the disk.                                            *)

(* Nothing durable changes, but a record that has no artifact, and nothing is *)
(* found that was not written.                                                *)
Calm ==
  /\ \A r \in Roots, k \in Kinds, i \in Ids : k # "record" => May(r, k, i)' \subseteq May(r, k, i)
  /\ \A r \in Roots, i \in Ids, x \in Headers : Record(x) \in May(r, "record", i)' => Record(x) \in May(r, "record", i)

Steady ==
  /\ \A r \in Roots, k \in Kinds, i \in Ids :
       k # "record" /\ Durable(r, k, i) => Durable(r, k, i)' /\ Now(r, k, i)' = Now(r, k, i)
  /\ \A r \in Roots, i \in Ids :
       Durable(r, "record", i) /\ Durable(r, "artifact", i) =>
         Durable(r, "record", i)' /\ Now(r, "record", i)' = Now(r, "record", i)

(* The kinds of files, spelled out. *)
LEMMA TheKinds ==
  /\ Kinds = {"record", "artifact", "seal", "pair", "pairSeal"} /\ Lifecycle = {"pair", "pairSeal"}
  /\ Lifecycle \subseteq Kinds
BY DEF Kinds, Lifecycle

(* What a lifecycle record speaks of stays as it is. *)
LEMMA BackedStays ==
  ASSUME Steady, NEW pair, pair.ids \in [Roots -> Ids], Backed(pair)
  PROVE  Backed(pair)'
<1>1. ASSUME NEW q \in Roots
      PROVE  /\ Durable(q, "record", pair.ids[q])' /\ Now(q, "record", pair.ids[q])' = Record(pair.header)
             /\ Durable(q, "artifact", pair.ids[q])'
             /\ Now(q, "artifact", pair.ids[q])' = Artifact(<<pair.version, pair.version>>)
             /\ pair.seals[q] = <<pair.version, pair.version>>
  <2>1. pair.ids[q] \in Ids
    OBVIOUS
  <2>2. /\ Durable(q, "record", pair.ids[q]) /\ Now(q, "record", pair.ids[q]) = Record(pair.header)
        /\ Durable(q, "artifact", pair.ids[q])
        /\ Now(q, "artifact", pair.ids[q]) = Artifact(<<pair.version, pair.version>>)
        /\ pair.seals[q] = <<pair.version, pair.version>>
    BY DEF Backed
  <2>3. QED
    BY <2>1, <2>2, TheKinds DEF Steady
<1>2. QED
  BY <1>1 DEF Backed

(* What a session returned stays as it is. *)
LEMMA StagedStays ==
  ASSUME Steady, NEW s, StagedOK(s)
  PROVE  StagedOK(s)'
<1>1. /\ s.header \in Headers /\ s.ids \in [Roots -> Ids]
      /\ \A r \in Roots, k \in Kinds : Durable(r, k, s.ids[r])
      /\ \A r \in Roots : Now(r, "seal", s.ids[r]).is = "seal"
  BY DEF StagedOK
<1>2. \A r \in Roots, k \in Kinds : Durable(r, k, s.ids[r])' /\ Now(r, k, s.ids[r])' = Now(r, k, s.ids[r])
  <2> SUFFICES ASSUME NEW r \in Roots, NEW k \in Kinds
               PROVE  Durable(r, k, s.ids[r])' /\ Now(r, k, s.ids[r])' = Now(r, k, s.ids[r])
    OBVIOUS
  <2>1. s.ids[r] \in Ids /\ Durable(r, k, s.ids[r]) /\ Durable(r, "artifact", s.ids[r])
    BY <1>1, TheKinds
  <2>2. QED
    BY <2>1 DEF Steady
<1>3. First \in Roots /\ Lifecycle \subseteq Kinds /\ "pair" \in Kinds /\ "seal" \in Kinds
  BY TheRoots, TheKinds
<1>4. QED
  BY <1>1, <1>2, <1>3 DEF StagedOK

(* A disk on which nothing new is found and nothing durable changes. *)
LEMMA DiskKept ==
  ASSUME Disk, Calm, Steady, fs' \in [Roots -> [Kinds -> [Ids -> Files]]],
         \A r \in Roots, k \in Kinds, i \in Ids : FileOK(r, k, i)',
         \A r \in Roots, i \in Ids : RecordOK(r, i)'
  PROVE  Disk'
<1>1. \A r \in Roots, k \in Kinds, i \in Ids : k # "record" /\ MayBeFound(r, k, i)' => MayBeFound(r, k, i)
  <2> SUFFICES ASSUME NEW r \in Roots, NEW k \in Kinds, NEW i \in Ids, k # "record", ~MayBeFound(r, k, i)
               PROVE  ~MayBeFound(r, k, i)'
    OBVIOUS
  <2>1. May(r, k, i)' \subseteq {Gone}
    BY DEF Calm, MayBeFound, May
  <2>2. Now(r, k, i)' \in May(r, k, i)'
    BY DEF FileOK
  <2>3. May(r, k, i)' = {Gone}
    BY <2>1, <2>2
  <2>4. QED
    BY <2>3 DEF MayBeFound, May
<1>2. \A r \in Roots, i \in Ids : SealOK(r, i)'
  <2> SUFFICES ASSUME NEW r \in Roots, NEW i \in Ids PROVE SealOK(r, i)'
    OBVIOUS
  <2>1. SealOK(r, i)
    BY DEF Disk
  <2>2. MayBeFound(r, "seal", i)' => /\ Durable(r, "record", i)' /\ Durable(r, "artifact", i)'
                                     /\ Now(r, "artifact", i)'.is = "artifact"
    BY <1>1, <2>1, TheKinds DEF SealOK, Steady
  <2>3. ASSUME NEW c \in May(r, "seal", i)', c.is = "seal"
        PROVE  Now(r, "record", i)' = Record(c.header) /\ Now(r, "artifact", i)' = Artifact(c.data)
    <3>1. c \in May(r, "seal", i)
      BY <2>3, TheKinds DEF Calm
    <3>2. c # Gone
      BY <2>3 DEF Gone
    <3>3. MayBeFound(r, "seal", i)
      BY <3>1, <3>2 DEF MayBeFound, May
    <3>4. QED
      BY <2>1, <2>3, <3>1, <3>3, TheKinds DEF SealOK, Steady
  <2>4. QED
    BY <2>2, <2>3 DEF SealOK
<1>3. \A r \in Roots, i \in Ids : PairOK(r, i)'
  <2> SUFFICES ASSUME NEW r \in Roots, NEW i \in Ids PROVE PairOK(r, i)'
    OBVIOUS
  <2>1. PairOK(r, i)
    BY DEF Disk
  <2>2. MayBeFound(r, "pairSeal", i)' => Durable(r, "pair", i)' /\ Durable(r, "seal", i)'
    BY <1>1, <2>1, TheKinds DEF PairOK, Steady
  <2>3. ASSUME NEW k \in Lifecycle, NEW c \in May(r, k, i)', c.is = "pair"
        PROVE  /\ c.ids[r] = i /\ Backed(c)'
               /\ k = "pair" /\ r = Second => Durable(First, "pairSeal", c.ids[First])'
    <3>1. k \in Kinds /\ k # "record"
      BY TheKinds
    <3>2. c \in May(r, k, i)
      BY <3>1 DEF Calm
    <3>3. c \in Contents
      BY <3>1, <3>2, TheFile
    <3>4. c.ids \in [Roots -> Ids]
      BY <2>3, <3>3, WhatIs
    <3>5. /\ c.ids[r] = i /\ Backed(c)
          /\ k = "pair" /\ r = Second => Durable(First, "pairSeal", c.ids[First])
      BY <2>1, <2>3, <3>2 DEF PairOK
    <3>6. Backed(c)'
      BY <3>4, <3>5, BackedStays
    <3>7. k = "pair" /\ r = Second => Durable(First, "pairSeal", c.ids[First])'
      BY <3>4, <3>5, TheRoots, TheKinds DEF Steady
    <3>8. QED
      BY <3>5, <3>6, <3>7
  <2>4. QED
    BY <2>2, <2>3 DEF PairOK
<1>4. OneUsed'
  BY <1>1, TheKinds DEF Disk, OneUsed, Used, Calm
<1>5. QED
  BY <1>2, <1>3, <1>4 DEF Disk

-----------------------------------------------------------------------------
(* A file is created or written.                                              *)

(* A reservation names its request. *)
LEMMA RecordsDiffer == \A x, y : Record(x) = Record(y) => x = y
<1> SUFFICES ASSUME NEW x, NEW y, Record(x) = Record(y) PROVE x = y
  OBVIOUS
<1>1. Record(x).header = x /\ Record(y).header = y
  BY DEF Record
<1>2. QED
  BY <1>1

Kept(r, k, i) == fs'[r][k][i] = fs[r][k][i]

(* A file that no step touches. *)
LEMMA KeptFile ==
  ASSUME NEW r, NEW k, NEW i, Kept(r, k, i)
  PROVE  /\ Now(r, k, i)' = Now(r, k, i) /\ May(r, k, i)' = May(r, k, i) /\ Flushed(r, k, i)' = Flushed(r, k, i)
         /\ Durable(r, k, i)' = Durable(r, k, i) /\ MayBeFound(r, k, i)' = MayBeFound(r, k, i)
         /\ FileOK(r, k, i)' = FileOK(r, k, i)
<1>1. Now(r, k, i)' = Now(r, k, i) /\ May(r, k, i)' = May(r, k, i) /\ Flushed(r, k, i)' = Flushed(r, k, i)
  BY DEF Kept, Now, May, Flushed
<1>2. QED
  BY <1>1 DEF Durable, MayBeFound, FileOK, May

(* What a write does to the file, and that it touches no other. *)
LEMMA PutMoves ==
  ASSUME Disk, NEW r \in Roots, NEW k \in Kinds, NEW i \in Ids, NEW c \in Contents, c # Gone, Put(r, k, i, c)
  PROVE  /\ fs' \in [Roots -> [Kinds -> [Ids -> Files]]]
         /\ Now(r, k, i)' = c /\ May(r, k, i)' = {Gone, Torn, c} /\ Flushed(r, k, i)' = FALSE
         /\ FileOK(r, k, i)' /\ ~Durable(r, k, i)' /\ MayBeFound(r, k, i)'
         /\ \A q \in Roots, l \in Kinds, j \in Ids : ~(q = r /\ l = k /\ j = i) => Kept(q, l, j)
<1> DEFINE file == [now |-> c, may |-> {Gone, Torn, c}, flushed |-> FALSE]
<1>1. file \in Files /\ file.now = c /\ file.may = {Gone, Torn, c} /\ file.flushed = FALSE
  BY TheContents DEF Files
<1>2. fs' = [fs EXCEPT ![r][k][i] = file]
  BY DEF Put
<1>3. fs \in [Roots -> [Kinds -> [Ids -> Files]]]
  BY DEF Disk
<1> HIDE DEF file
<1>4. /\ fs' \in [Roots -> [Kinds -> [Ids -> Files]]]
      /\ fs'[r][k][i] = file
      /\ \A q \in Roots, l \in Kinds, j \in Ids : ~(q = r /\ l = k /\ j = i) => fs'[q][l][j] = fs[q][l][j]
  BY <1>1, <1>2, <1>3
<1>5. Now(r, k, i)' = c /\ May(r, k, i)' = {Gone, Torn, c} /\ Flushed(r, k, i)' = FALSE
  BY <1>1, <1>4 DEF Now, May, Flushed
<1>6. IsFiniteSet({Gone, Torn, c})
  <2>1. IsFiniteSet({c} \cup {Gone})
    BY FS_Singleton, FS_AddElement
  <2>2. IsFiniteSet(({c} \cup {Gone}) \cup {Torn})
    BY <2>1, FS_AddElement
  <2>3. ({c} \cup {Gone}) \cup {Torn} = {Gone, Torn, c}
    OBVIOUS
  <2>4. QED
    BY <2>2, <2>3
<1>7. FileOK(r, k, i)' /\ ~Durable(r, k, i)' /\ MayBeFound(r, k, i)'
  BY <1>5, <1>6, TheContents DEF FileOK, Durable, MayBeFound, May
<1>8. QED
  BY <1>4, <1>5, <1>7 DEF Kept

(* When a file may be written. *)
Allowed(r, k, i, c) ==
  /\ c \in Contents /\ c # Gone
  /\ k = "record" => c = Torn \/ c.is = "record"
  /\ ~Durable(r, k, i)
  /\ \A l \in Kinds : Place(k) < Place(l) => ~MayBeFound(r, l, i)
  /\ k = "artifact" => \E x \in Headers :
       /\ Now(r, "record", i) = Record(x)
       /\ \A j \in Ids \ {i} : Used(r, j) => Record(x) \notin May(r, "record", j)
  /\ k = "seal" =>
       /\ Durable(r, "record", i) /\ Durable(r, "artifact", i) /\ Now(r, "artifact", i).is = "artifact"
       /\ c.is = "seal" => Now(r, "record", i) = Record(c.header) /\ Now(r, "artifact", i) = Artifact(c.data)
  /\ k = "pairSeal" => Durable(r, "pair", i) /\ Durable(r, "seal", i)
  /\ k \in Lifecycle /\ c.is = "pair" => c.ids[r] = i /\ Backed(c)
  /\ k = "pair" /\ r = Second /\ c.is = "pair" => Durable(First, "pairSeal", c.ids[First])

(* A write that is allowed touches nothing durable. *)
LEMMA PutIsSteady ==
  ASSUME Disk, NEW r \in Roots, NEW k \in Kinds, NEW i \in Ids, NEW c, Allowed(r, k, i, c), Put(r, k, i, c)
  PROVE  Steady
<1>1. c \in Contents /\ c # Gone /\ ~Durable(r, k, i)
  BY DEF Allowed
<1>2. \A q \in Roots, l \in Kinds, j \in Ids : ~(q = r /\ l = k /\ j = i) => Kept(q, l, j)
  BY <1>1, PutMoves
<1>3. \A q \in Roots, l \in Kinds, j \in Ids : Durable(q, l, j) => Durable(q, l, j)' /\ Now(q, l, j)' = Now(q, l, j)
  BY <1>1, <1>2, KeptFile
<1>4. QED
  BY <1>3, TheKinds DEF Steady

(* A write that is allowed keeps the disk in order. *)
LEMMA PutKeeps ==
  ASSUME Disk, NEW r \in Roots, NEW k \in Kinds, NEW i \in Ids, NEW c, Allowed(r, k, i, c), Put(r, k, i, c)
  PROVE  Disk'
<1>1. c \in Contents /\ c # Gone
  BY DEF Allowed
<1>2. /\ fs' \in [Roots -> [Kinds -> [Ids -> Files]]]
      /\ Now(r, k, i)' = c /\ May(r, k, i)' = {Gone, Torn, c}
      /\ FileOK(r, k, i)'
      /\ \A q \in Roots, l \in Kinds, j \in Ids : ~(q = r /\ l = k /\ j = i) => Kept(q, l, j)
  BY <1>1, PutMoves
<1>3. Steady
  BY PutIsSteady
<1>4. \A q \in Roots, l \in Kinds, j \in Ids : FileOK(q, l, j)'
  <2> SUFFICES ASSUME NEW q \in Roots, NEW l \in Kinds, NEW j \in Ids PROVE FileOK(q, l, j)'
    OBVIOUS
  <2>1. CASE q = r /\ l = k /\ j = i
    BY <1>2, <2>1
  <2>2. CASE ~(q = r /\ l = k /\ j = i)
    BY <1>2, <2>2, KeptFile DEF Disk
  <2>3. QED
    BY <2>1, <2>2
<1>5. \A x \in Headers : Record(x) \in {Gone, Torn, c} => c = Record(x)
  BY TheContents
<1>6. \A l \in Kinds : Place(k) < Place(l) => ~MayBeFound(r, l, i) /\ MayBeFound(r, l, i)' = MayBeFound(r, l, i)
  <2> SUFFICES ASSUME NEW l \in Kinds, Place(k) < Place(l)
               PROVE  ~MayBeFound(r, l, i) /\ MayBeFound(r, l, i)' = MayBeFound(r, l, i)
    OBVIOUS
  <2>1. l # k
    BY ThePlaces
  <2>2. Kept(r, l, i) /\ ~MayBeFound(r, l, i)
    BY <1>2, <2>1 DEF Allowed
  <2>3. QED
    BY <2>2, KeptFile
<1>7. \A q \in Roots, j \in Ids : RecordOK(q, j)'
  <2>0. ASSUME NEW q \in Roots, NEW j \in Ids, NEW d \in May(q, "record", j)'
        PROVE  d \in {Gone, Torn} \/ d.is = "record"
    <3>1. CASE q = r /\ j = i /\ k = "record"
      BY <1>2, <2>0, <3>1 DEF Allowed
    <3>2. CASE ~(q = r /\ j = i /\ k = "record")
      BY <1>2, <2>0, <3>2, KeptFile, TheKinds DEF Disk, RecordOK
    <3>3. QED
      BY <3>1, <3>2
  <2> SUFFICES ASSUME NEW q \in Roots, NEW j \in Ids, NEW x \in Headers, Record(x) \in May(q, "record", j)'
               PROVE  /\ \A y \in Headers : Record(y) \in May(q, "record", j)' => x = y
                      /\ Used(q, j)' => Now(q, "record", j)' = Record(x)
    BY <2>0 DEF RecordOK
  <2>1. RecordOK(q, j)
    BY DEF Disk
  <2>2. CASE q = r /\ j = i /\ k = "record"
    <3>1. c = Record(x) /\ \A y \in Headers : Record(y) \in May(q, "record", j)' => x = y
      BY <1>2, <1>5, <2>2, RecordsDiffer
    <3>2. QED
      BY <1>2, <2>2, <3>1
  <2>3. CASE q = r /\ j = i /\ k = "artifact"
    <3>1. Kept(q, "record", j)
      BY <1>2, <2>3, TheKinds
    <3>2. May(q, "record", j)' = May(q, "record", j) /\ Now(q, "record", j)' = Now(q, "record", j)
      BY <3>1, KeptFile
    <3>3. PICK z \in Headers : Now(r, "record", i) = Record(z)
      BY <2>3 DEF Allowed
    <3>4. Record(z) \in May(q, "record", j)
      BY <2>3, <3>3, TheFile, TheKinds DEF FileOK
    <3>5. x = z
      BY <2>1, <3>2, <3>4 DEF RecordOK
    <3>6. QED
      BY <2>1, <2>3, <3>2, <3>3, <3>5 DEF RecordOK
  <2>4. CASE ~(q = r /\ j = i /\ k \in {"record", "artifact"})
    <3>1. Kept(q, "record", j) /\ Kept(q, "artifact", j)
      BY <1>2, <2>4, TheKinds
    <3>2. /\ May(q, "record", j)' = May(q, "record", j) /\ Now(q, "record", j)' = Now(q, "record", j)
          /\ MayBeFound(q, "artifact", j)' = MayBeFound(q, "artifact", j)
      BY <3>1, KeptFile
    <3>3. QED
      BY <2>1, <3>2 DEF RecordOK, Used
  <2>5. QED
    BY <2>2, <2>3, <2>4
<1>8. \A q \in Roots, j \in Ids : SealOK(q, j)'
  <2> SUFFICES ASSUME NEW q \in Roots, NEW j \in Ids PROVE SealOK(q, j)'
    OBVIOUS
  <2>1. SealOK(q, j)
    BY DEF Disk
  <2>2. CASE q = r /\ j = i /\ k \in {"record", "artifact"}
    <3>1. ~MayBeFound(q, "seal", j)'
      BY <1>6, <2>2, ThePlaces, TheKinds
    <3>2. May(q, "seal", j)' = {Gone} /\ Gone.is # "seal"
      BY <3>1 DEF MayBeFound, May, Gone
    <3>3. QED
      BY <3>1, <3>2 DEF SealOK
  <2>3. CASE q = r /\ j = i /\ k = "seal"
    <3>1. Kept(q, "record", j) /\ Kept(q, "artifact", j)
      BY <1>2, <2>3, TheKinds
    <3>2. /\ Durable(q, "record", j)' = Durable(q, "record", j) /\ Now(q, "record", j)' = Now(q, "record", j)
          /\ Durable(q, "artifact", j)' = Durable(q, "artifact", j) /\ Now(q, "artifact", j)' = Now(q, "artifact", j)
      BY <3>1, KeptFile
    <3>3. \A d \in May(q, "seal", j)' : d.is = "seal" => d = c
      BY <1>2, <2>3 DEF Gone, Torn
    <3>4. QED
      BY <2>3, <3>2, <3>3 DEF Allowed, SealOK
  <2>4. CASE ~(q = r /\ j = i /\ k \in {"record", "artifact", "seal"})
    <3>1. Kept(q, "record", j) /\ Kept(q, "artifact", j) /\ Kept(q, "seal", j)
      BY <1>2, <2>4, TheKinds
    <3>2. /\ Durable(q, "record", j)' = Durable(q, "record", j) /\ Now(q, "record", j)' = Now(q, "record", j)
          /\ Durable(q, "artifact", j)' = Durable(q, "artifact", j) /\ Now(q, "artifact", j)' = Now(q, "artifact", j)
          /\ May(q, "seal", j)' = May(q, "seal", j) /\ MayBeFound(q, "seal", j)' = MayBeFound(q, "seal", j)
      BY <3>1, KeptFile
    <3>3. QED
      BY <2>1, <3>2 DEF SealOK
  <2>5. QED
    BY <2>2, <2>3, <2>4
<1>9. \A q \in Roots, j \in Ids : PairOK(q, j)'
  <2> SUFFICES ASSUME NEW q \in Roots, NEW j \in Ids PROVE PairOK(q, j)'
    OBVIOUS
  <2>1. PairOK(q, j)
    BY DEF Disk
  <2>2. MayBeFound(q, "pairSeal", j)' => Durable(q, "pair", j)' /\ Durable(q, "seal", j)'
    <3>1. CASE q = r /\ j = i /\ k # "pairSeal"
      BY <1>6, <3>1, ThePlaces, TheKinds
    <3>2. CASE q = r /\ j = i /\ k = "pairSeal"
      BY <1>3, <3>2, TheKinds DEF Allowed, Steady
    <3>3. CASE ~(q = r /\ j = i)
      <4>1. MayBeFound(q, "pairSeal", j)' = MayBeFound(q, "pairSeal", j)
        BY <1>2, <3>3, KeptFile, TheKinds
      <4>2. QED
        BY <1>3, <2>1, <4>1, TheKinds DEF PairOK, Steady
    <3>4. QED
      BY <3>1, <3>2, <3>3
  <2>3. ASSUME NEW l \in Lifecycle, NEW d \in May(q, l, j)', d.is = "pair"
        PROVE  /\ d.ids[q] = j /\ Backed(d)'
               /\ l = "pair" /\ q = Second => Durable(First, "pairSeal", d.ids[First])'
    <3>1. l \in Kinds
      BY TheKinds
    <3>2. /\ d \in Contents /\ d.ids[q] = j /\ Backed(d)
          /\ l = "pair" /\ q = Second => Durable(First, "pairSeal", d.ids[First])
      <4>1. CASE q = r /\ j = i /\ l = k
        <5>1. d = c
          BY <1>2, <2>3, <4>1 DEF Gone, Torn
        <5>2. QED
          BY <1>1, <2>3, <4>1, <5>1 DEF Allowed
      <4>2. CASE ~(q = r /\ j = i /\ l = k)
        <5>1. d \in May(q, l, j)
          BY <1>2, <3>1, <4>2, KeptFile
        <5>2. d \in Contents
          BY <3>1, <5>1, TheFile
        <5>3. QED
          BY <2>1, <2>3, <5>1, <5>2 DEF PairOK
      <4>3. QED
        BY <4>1, <4>2
    <3>3. d.ids \in [Roots -> Ids]
      BY <2>3, <3>2, WhatIs
    <3>4. Backed(d)'
      BY <1>3, <3>2, <3>3, BackedStays
    <3>5. l = "pair" /\ q = Second => Durable(First, "pairSeal", d.ids[First])'
      BY <1>3, <3>2, <3>3, TheRoots, TheKinds DEF Steady
    <3>6. QED
      BY <3>2, <3>4, <3>5
  <2>4. QED
    BY <2>2, <2>3 DEF PairOK
<1>10. OneUsed'
  <2> SUFFICES ASSUME NEW q \in Roots, NEW a \in Ids, NEW b \in Ids, NEW x \in Headers, a # b,
                      Record(x) \in May(q, "record", a)', Record(x) \in May(q, "record", b)', Used(q, a)', Used(q, b)'
               PROVE  FALSE
    BY DEF OneUsed
  <2>1. \A e \in Ids : ~(q = r /\ e = i) => /\ May(q, "record", e)' = May(q, "record", e)
                                            /\ Used(q, e)' = Used(q, e)
    BY <1>2, KeptFile, TheKinds DEF Used
  <2>2. CASE q = r /\ k = "record"
    <3>1. ~Used(q, i)'
      BY <1>6, <2>2, ThePlaces, TheKinds DEF Used
    <3>2. a # i /\ b # i
      BY <3>1
    <3>3. QED
      BY <2>1, <3>2 DEF Disk, OneUsed
  <2>3. CASE q = r /\ k = "artifact"
    <3>1. PICK z \in Headers : /\ Now(r, "record", i) = Record(z)
                               /\ \A j \in Ids \ {i} : Used(r, j) => Record(z) \notin May(r, "record", j)
      BY <2>3 DEF Allowed
    <3>2. May(r, "record", i)' = May(r, "record", i)
      BY <1>2, <2>3, KeptFile, TheKinds
    <3>3. Record(z) \in May(r, "record", i) /\ RecordOK(r, i)
      BY <3>1, TheFile, TheKinds DEF FileOK, Disk
    <3>4. Record(x) \in May(r, "record", i) => x = z
      BY <3>3 DEF RecordOK
    <3>5. CASE a # i /\ b # i
      BY <2>1, <3>5 DEF Disk, OneUsed
    <3>6. CASE a = i
      BY <2>1, <2>3, <3>1, <3>2, <3>4, <3>6
    <3>7. CASE b = i
      BY <2>1, <2>3, <3>1, <3>2, <3>4, <3>7
    <3>8. QED
      BY <3>5, <3>6, <3>7
  <2>4. CASE ~(q = r /\ k \in {"record", "artifact"})
    <3>1. \A e \in Ids : May(q, "record", e)' = May(q, "record", e) /\ Used(q, e)' = Used(q, e)
      BY <1>2, <2>4, KeptFile, TheKinds DEF Used
    <3>2. QED
      BY <3>1 DEF Disk, OneUsed
  <2>5. QED
    BY <2>2, <2>3, <2>4
<1>11. QED
  BY <1>2, <1>4, <1>7, <1>8, <1>9, <1>10 DEF Disk

-----------------------------------------------------------------------------
(* The other steps that touch a disk: what they do to each file.              *)

(* Nothing is found that could not be found before, and the rest of a file    *)
(* is what it was.                                                            *)
SameContent(r, k, i) == Now(r, k, i)' = Now(r, k, i) /\ May(r, k, i)' = May(r, k, i)

(* What depends on the contents of a file only. *)
LEMMA SameFile ==
  ASSUME NEW r, NEW k, NEW i, SameContent(r, k, i)
  PROVE  Durable(r, k, i)' = Durable(r, k, i) /\ MayBeFound(r, k, i)' = MayBeFound(r, k, i) /\ FileOK(r, k, i)' = FileOK(r, k, i)
BY DEF SameContent, Durable, MayBeFound, FileOK, May

(* What depends on the contents of a record and of its artifact only. *)
LEMMA SameRecord ==
  ASSUME NEW r, NEW i, SameContent(r, "record", i), SameContent(r, "artifact", i)
  PROVE  RecordOK(r, i)' = RecordOK(r, i)
<1>1. /\ Now(r, "record", i)' = Now(r, "record", i) /\ May(r, "record", i)' = May(r, "record", i)
      /\ Used(r, i)' = Used(r, i)
  BY SameFile DEF SameContent, Used
<1>2. QED
  BY <1>1 DEF RecordOK

(* fsync changes what the drive has, not what the file is. *)
LEMMA HandedFile ==
  ASSUME NEW file \in Files
  PROVE  /\ Handed(file) \in Files
         /\ Handed(file).now = file.now /\ Handed(file).may = file.may /\ Handed(file).flushed = TRUE
BY DEF Files, Handed

(* The drive writes what it has, and nothing else. *)
LEMMA WrittenFile ==
  ASSUME NEW file \in Files
  PROVE  /\ Written(file) \in Files
         /\ Written(file).now = file.now /\ Written(file).flushed = file.flushed
         /\ file.flushed => Written(file).may = {file.now}
         /\ ~file.flushed => Written(file).may = file.may
<1>1. CASE file.flushed
  BY <1>1 DEF Files, Written
<1>2. CASE ~file.flushed
  BY <1>2 DEF Written
<1>3. QED
  BY <1>1, <1>2

(* fsync of some files and of their directory, for each file. *)
LEMMA HandedOverFiles ==
  ASSUME NEW files \in [Roots -> [Kinds -> [Ids -> Files]]], NEW r \in Roots, NEW done
  PROVE  /\ HandedOver(files, r, done) \in [Roots -> [Kinds -> [Ids -> Files]]]
         /\ \A q \in Roots \ {r} : HandedOver(files, r, done)[q] = files[q]
         /\ \A k \in Kinds, i \in Ids :
              /\ HandedOver(files, r, done)[r][k][i].now = files[r][k][i].now
              /\ HandedOver(files, r, done)[r][k][i].may = files[r][k][i].may
              /\ HandedOver(files, r, done)[r][k][i].flushed <=>
                   files[r][k][i].flushed \/ <<k, i>> \in done \/ files[r][k][i].now = Gone
<1> DEFINE made(k, i) == IF <<k, i>> \in done \/ files[r][k][i].now = Gone THEN Handed(files[r][k][i]) ELSE files[r][k][i]
           all == [k \in Kinds |-> [i \in Ids |-> made(k, i)]]
           result == HandedOver(files, r, done)
<1>1. result = [files EXCEPT ![r] = all]
  BY DEF HandedOver
<1>2. ASSUME NEW k \in Kinds, NEW i \in Ids
      PROVE  /\ made(k, i) \in Files
             /\ made(k, i).now = files[r][k][i].now /\ made(k, i).may = files[r][k][i].may
             /\ (made(k, i).flushed <=> files[r][k][i].flushed \/ <<k, i>> \in done \/ files[r][k][i].now = Gone)
  <2>1. files[r][k][i] \in Files
    OBVIOUS
  <2>2. CASE <<k, i>> \in done \/ files[r][k][i].now = Gone
    <3>1. made(k, i) = Handed(files[r][k][i])
      BY <2>2
    <3>2. QED
      BY <2>1, <2>2, <3>1, HandedFile
  <2>3. CASE ~(<<k, i>> \in done \/ files[r][k][i].now = Gone)
    <3>1. made(k, i) = files[r][k][i]
      BY <2>3
    <3>2. QED
      BY <2>1, <2>3, <3>1
  <2>4. QED
    BY <2>2, <2>3
<1> HIDE DEF made
<1>3. all \in [Kinds -> [Ids -> Files]] /\ \A k \in Kinds, i \in Ids : all[k][i] = made(k, i)
  BY <1>2
<1> HIDE DEF all, result
<1>4. result \in [Roots -> [Kinds -> [Ids -> Files]]] /\ result[r] = all /\ \A q \in Roots \ {r} : result[q] = files[q]
  BY <1>1, <1>3
<1>5. ASSUME NEW k \in Kinds, NEW i \in Ids
      PROVE  /\ result[r][k][i].now = files[r][k][i].now /\ result[r][k][i].may = files[r][k][i].may
             /\ result[r][k][i].flushed <=> files[r][k][i].flushed \/ <<k, i>> \in done \/ files[r][k][i].now = Gone
  <2>1. result[r][k][i] = made(k, i)
    BY <1>3, <1>4
  <2>2. QED
    BY <1>2, <2>1
<1>6. QED
  BY <1>4, <1>5 DEF result

(* The same, as a step. *)
LEMMA HandedOverMoves ==
  ASSUME fs \in [Roots -> [Kinds -> [Ids -> Files]]], NEW r \in Roots, NEW done, fs' = HandedOver(fs, r, done)
  PROVE  /\ fs' \in [Roots -> [Kinds -> [Ids -> Files]]]
         /\ \A q \in Roots \ {r} : fs'[q] = fs[q]
         /\ \A k \in Kinds, i \in Ids : /\ SameContent(r, k, i)
                                        /\ (Flushed(r, k, i)' <=> Flushed(r, k, i) \/ <<k, i>> \in done \/ Now(r, k, i) = Gone)
<1>1. /\ fs' \in [Roots -> [Kinds -> [Ids -> Files]]]
      /\ \A q \in Roots \ {r} : fs'[q] = fs[q]
      /\ \A k \in Kinds, i \in Ids :
              /\ fs'[r][k][i].now = fs[r][k][i].now
              /\ fs'[r][k][i].may = fs[r][k][i].may
              /\ fs'[r][k][i].flushed <=> fs[r][k][i].flushed \/ <<k, i>> \in done \/ fs[r][k][i].now = Gone
  BY HandedOverFiles
<1>2. QED
  BY <1>1 DEF SameContent, Flushed, Now, May

(* F_FULLFSYNC, for each file: what the drive had is now durable. *)
LEMMA FlushDriveMoves ==
  ASSUME fs \in [Roots -> [Kinds -> [Ids -> Files]]], NEW r \in Roots, FlushDrive(r)
  PROVE  /\ fs' \in [Roots -> [Kinds -> [Ids -> Files]]]
         /\ \A q \in Roots \ {r} : fs'[q] = fs[q]
         /\ \A k \in Kinds, i \in Ids : /\ Now(r, k, i)' = Now(r, k, i) /\ Flushed(r, k, i)' = Flushed(r, k, i)
                                        /\ (Flushed(r, k, i) => May(r, k, i)' = {Now(r, k, i)}) /\ (~Flushed(r, k, i) => May(r, k, i)' = May(r, k, i))
<1> DEFINE made(k, i) == Written(fs[r][k][i])
           all == [k \in Kinds |-> [i \in Ids |-> made(k, i)]]
<1>1. fs' = [fs EXCEPT ![r] = all]
  BY DEF FlushDrive
<1>2. ASSUME NEW k \in Kinds, NEW i \in Ids
      PROVE  /\ made(k, i) \in Files
             /\ made(k, i).now = fs[r][k][i].now /\ made(k, i).flushed = fs[r][k][i].flushed
             /\ fs[r][k][i].flushed => made(k, i).may = {fs[r][k][i].now}
             /\ ~fs[r][k][i].flushed => made(k, i).may = fs[r][k][i].may
  BY WrittenFile
<1> HIDE DEF made
<1>3. all \in [Kinds -> [Ids -> Files]] /\ \A k \in Kinds, i \in Ids : all[k][i] = made(k, i)
  BY <1>2
<1> HIDE DEF all
<1>4. fs' \in [Roots -> [Kinds -> [Ids -> Files]]] /\ fs'[r] = all /\ \A q \in Roots \ {r} : fs'[q] = fs[q]
  BY <1>1, <1>3
<1>5. ASSUME NEW k \in Kinds, NEW i \in Ids
      PROVE  /\ Now(r, k, i)' = Now(r, k, i) /\ Flushed(r, k, i)' = Flushed(r, k, i)
             /\ (Flushed(r, k, i) => May(r, k, i)' = {Now(r, k, i)}) /\ (~Flushed(r, k, i) => May(r, k, i)' = May(r, k, i))
  <2>1. fs'[r][k][i] = made(k, i)
    BY <1>3, <1>4
  <2>2. QED
    BY <1>2, <2>1 DEF Flushed, Now, May
<1>6. QED
  BY <1>4, <1>5

(* A disk on which only what is flushed changed. *)
LEMMA SameContentsKeep ==
  ASSUME Disk, fs' \in [Roots -> [Kinds -> [Ids -> Files]]],
         \A r \in Roots, k \in Kinds, i \in Ids : SameContent(r, k, i)
  PROVE  Disk' /\ Steady
<1>1. \A r \in Roots, k \in Kinds, i \in Ids : FileOK(r, k, i)'
  BY SameFile DEF Disk
<1>2. \A r \in Roots, i \in Ids : RecordOK(r, i)'
  BY SameRecord, TheKinds DEF Disk
<1>3. Calm
  BY TheKinds DEF Calm, SameContent
<1>4. Steady
  BY SameFile, TheKinds DEF Steady, SameContent
<1>5. QED
  BY <1>1, <1>2, <1>3, <1>4, DiskKept

(* fsync keeps the disk in order. *)
LEMMA HandedOverKeeps ==
  ASSUME Disk, NEW r \in Roots, NEW done, fs' = HandedOver(fs, r, done)
  PROVE  Disk' /\ Steady
<1>1. /\ fs' \in [Roots -> [Kinds -> [Ids -> Files]]]
      /\ \A q \in Roots \ {r} : fs'[q] = fs[q]
      /\ \A k \in Kinds, i \in Ids : SameContent(r, k, i)
  BY HandedOverMoves DEF Disk
<1>2. ASSUME NEW q \in Roots, NEW k \in Kinds, NEW i \in Ids
      PROVE  SameContent(q, k, i)
  BY <1>1 DEF SameContent, Now, May
<1>3. QED
  BY <1>1, <1>2, SameContentsKeep

(* F_FULLFSYNC keeps the disk in order. *)
LEMMA FlushDriveKeeps ==
  ASSUME Disk, NEW r \in Roots, FlushDrive(r)
  PROVE  Disk' /\ Steady
<1>1. fs \in [Roots -> [Kinds -> [Ids -> Files]]]
  BY DEF Disk
<1>2. /\ fs' \in [Roots -> [Kinds -> [Ids -> Files]]]
      /\ \A q \in Roots \ {r} : fs'[q] = fs[q]
      /\ \A k \in Kinds, i \in Ids : /\ Now(r, k, i)' = Now(r, k, i)
                                     /\ (Flushed(r, k, i) => May(r, k, i)' = {Now(r, k, i)}) /\ (~Flushed(r, k, i) => May(r, k, i)' = May(r, k, i))
  BY <1>1, FlushDriveMoves
<1>3. ASSUME NEW q \in Roots, NEW k \in Kinds, NEW i \in Ids
      PROVE  /\ Now(q, k, i)' = Now(q, k, i)
             /\ May(q, k, i)' = {Now(q, k, i)} \/ May(q, k, i)' = May(q, k, i)
  BY <1>2 DEF Now, May
<1>4. ASSUME NEW q \in Roots, NEW k \in Kinds, NEW i \in Ids
      PROVE  /\ FileOK(q, k, i)' /\ May(q, k, i)' \subseteq May(q, k, i)
             /\ Durable(q, k, i) => Durable(q, k, i)'
             /\ MayBeFound(q, k, i)' => MayBeFound(q, k, i)
  <2>1. FileOK(q, k, i) /\ IsFiniteSet({Now(q, k, i)})
    BY FS_Singleton DEF Disk
  <2>2. CASE May(q, k, i)' = May(q, k, i)
    <3>1. SameContent(q, k, i)
      BY <1>3, <2>2 DEF SameContent
    <3>2. QED
      BY <2>1, <2>2, <3>1, SameFile
  <2>3. CASE May(q, k, i)' = {Now(q, k, i)}
    <3>1. Now(q, k, i)' = Now(q, k, i)
      BY <1>3
    <3>2. FileOK(q, k, i)' /\ May(q, k, i)' \subseteq May(q, k, i)
      BY <2>1, <2>3, <3>1 DEF FileOK
    <3>3. Durable(q, k, i) => Durable(q, k, i)'
      BY <2>3, <3>1 DEF Durable, May
    <3>4. MayBeFound(q, k, i)' => MayBeFound(q, k, i)
      BY <2>1, <2>3 DEF MayBeFound, May, FileOK
    <3>5. QED
      BY <3>2, <3>3, <3>4
  <2>4. QED
    BY <1>3, <2>2, <2>3
<1>5. ASSUME NEW q \in Roots, NEW i \in Ids
      PROVE  RecordOK(q, i)'
  <2>1. RecordOK(q, i) /\ May(q, "record", i)' \subseteq May(q, "record", i) /\ Now(q, "record", i)' = Now(q, "record", i)
    BY <1>3, <1>4, TheKinds DEF Disk
  <2>2. Used(q, i)' => Used(q, i)
    BY <1>4, TheKinds DEF Used
  <2>3. QED
    BY <2>1, <2>2 DEF RecordOK
<1>6. Calm
  BY <1>4, TheKinds DEF Calm
<1>7. Steady
  BY <1>3, <1>4, TheKinds DEF Steady
<1>8. QED
  BY <1>2, <1>4, <1>5, <1>6, <1>7, DiskKept

(* A record is unlinked, and the root synchronized or not.                    *)
Unlinks(r, i) == fs' = Unlinked(r, i) \/ fs' = HandedOver(Unlinked(r, i), r, {})

(* What unlinking does to a record, and that it touches no other file. *)
LEMMA UnlinkMoves ==
  ASSUME Disk, NEW r \in Roots, NEW i \in Ids, Unlinks(r, i)
  PROVE  /\ fs' \in [Roots -> [Kinds -> [Ids -> Files]]]
         /\ \A q \in Roots \ {r} : fs'[q] = fs[q]
         /\ Now(r, "record", i)' = Gone /\ May(r, "record", i)' = May(r, "record", i) \cup {Gone}
         /\ \A q \in Roots, k \in Kinds, j \in Ids : ~(q = r /\ k = "record" /\ j = i) => SameContent(q, k, j)
<1> DEFINE file == [now |-> Gone, may |-> May(r, "record", i) \cup {Gone}, flushed |-> FALSE]
<1>0. PICK left : left = Unlinked(r, i)
  OBVIOUS
<1>1. left = [fs EXCEPT ![r]["record"][i] = file]
  BY <1>0 DEF Unlinked, May
<1>2. fs \in [Roots -> [Kinds -> [Ids -> Files]]] /\ "record" \in Kinds
  BY TheKinds DEF Disk
<1>3. file \in Files /\ file.now = Gone /\ file.may = May(r, "record", i) \cup {Gone}
  BY <1>2, TheFile, TheContents DEF Files
<1> HIDE DEF file
<1>4. /\ left \in [Roots -> [Kinds -> [Ids -> Files]]]
      /\ left[r]["record"][i] = file
      /\ \A q \in Roots \ {r} : left[q] = fs[q]
      /\ \A q \in Roots, k \in Kinds, j \in Ids : ~(q = r /\ k = "record" /\ j = i) => left[q][k][j] = fs[q][k][j]
  BY <1>1, <1>2, <1>3
<1>5. /\ fs' \in [Roots -> [Kinds -> [Ids -> Files]]]
      /\ \A q \in Roots \ {r} : fs'[q] = left[q]
      /\ \A k \in Kinds, j \in Ids : fs'[r][k][j].now = left[r][k][j].now /\ fs'[r][k][j].may = left[r][k][j].may
  <2>1. fs' = left \/ fs' = HandedOver(left, r, {})
    BY <1>0 DEF Unlinks
  <2>2. CASE fs' = left
    BY <1>4, <2>2
  <2>3. CASE fs' = HandedOver(left, r, {})
    <3>1. PICK none : none = {}
      OBVIOUS
    <3>2. fs' = HandedOver(left, r, none) /\ left \in [Roots -> [Kinds -> [Ids -> Files]]]
      BY <1>4, <2>3, <3>1
    <3>3. /\ HandedOver(left, r, none) \in [Roots -> [Kinds -> [Ids -> Files]]]
          /\ \A q \in Roots \ {r} : HandedOver(left, r, none)[q] = left[q]
          /\ \A k \in Kinds, j \in Ids :
               /\ HandedOver(left, r, none)[r][k][j].now = left[r][k][j].now
               /\ HandedOver(left, r, none)[r][k][j].may = left[r][k][j].may
               /\ HandedOver(left, r, none)[r][k][j].flushed <=>
                    left[r][k][j].flushed \/ <<k, j>> \in none \/ left[r][k][j].now = Gone
      <4>1. left \in [Roots -> [Kinds -> [Ids -> Files]]]
        BY <3>2
      <4> HIDE <1>0, <1>1, <1>2, <1>3, <1>4, <2>3, <3>1, <3>2
      <4>2. QED
        BY <4>1, HandedOverFiles
    <3>4. QED
      BY <3>2, <3>3
  <2>4. QED
    BY <2>1, <2>2, <2>3
<1>6. \A q \in Roots, k \in Kinds, j \in Ids : fs'[q][k][j].now = left[q][k][j].now /\ fs'[q][k][j].may = left[q][k][j].may
  BY <1>5
<1>7. Now(r, "record", i)' = Gone /\ May(r, "record", i)' = May(r, "record", i) \cup {Gone}
  <2>1. fs'[r]["record"][i].now = file.now /\ fs'[r]["record"][i].may = file.may
    BY <1>2, <1>4, <1>6
  <2>2. QED
    BY <1>3, <2>1 DEF Now, May
<1>8. \A q \in Roots, k \in Kinds, j \in Ids : ~(q = r /\ k = "record" /\ j = i) => SameContent(q, k, j)
  BY <1>4, <1>6 DEF SameContent, Now, May
<1>9. QED
  BY <1>4, <1>5, <1>7, <1>8

(* Unlinking the record of an artifact that is not there keeps the disk in order. *)
LEMMA UnlinkKeeps ==
  ASSUME Disk, NEW r \in Roots, NEW i \in Ids, Unlinks(r, i), Now(r, "artifact", i) = Gone
  PROVE  Disk' /\ Steady
<1>1. /\ fs' \in [Roots -> [Kinds -> [Ids -> Files]]]
      /\ Now(r, "record", i)' = Gone /\ May(r, "record", i)' = May(r, "record", i) \cup {Gone}
      /\ \A q \in Roots, k \in Kinds, j \in Ids : ~(q = r /\ k = "record" /\ j = i) => SameContent(q, k, j)
  BY UnlinkMoves
<1>2. ~Durable(r, "artifact", i) /\ ~Used(r, i)
  BY TheFile, TheKinds DEF FileOK, Durable, Used, MayBeFound, May
<1>3. ASSUME NEW q \in Roots, NEW k \in Kinds, NEW j \in Ids
      PROVE  FileOK(q, k, j)'
  <2>1. CASE q = r /\ k = "record" /\ j = i
    <3>1. IsFiniteSet(May(r, "record", i) \cup {Gone})
      BY <2>1, FS_AddElement DEF Disk, FileOK
    <3>2. QED
      BY <1>1, <2>1, <3>1 DEF FileOK
  <2>2. CASE ~(q = r /\ k = "record" /\ j = i)
    BY <1>1, <2>2, SameFile DEF Disk
  <2>3. QED
    BY <2>1, <2>2
<1>4. ASSUME NEW q \in Roots, NEW j \in Ids
      PROVE  RecordOK(q, j)'
  <2>1. RecordOK(q, j)
    BY DEF Disk
  <2>2. CASE q = r /\ j = i
    <3>1. ~Used(q, j)'
      BY <1>1, <1>2, <2>2, SameFile, TheKinds DEF Used
    <3>2. \A x \in Headers : Record(x) # Gone
      BY TheContents
    <3>3. QED
      BY <1>1, <2>1, <2>2, <3>1, <3>2 DEF RecordOK
  <2>3. CASE ~(q = r /\ j = i)
    BY <1>1, <2>1, <2>3, SameRecord, TheKinds
  <2>4. QED
    BY <2>2, <2>3
<1>5. Calm
  <2>1. \A x \in Headers : Record(x) # Gone
    BY TheContents
  <2>2. QED
    BY <1>1, <2>1, TheKinds DEF Calm, SameContent
<1>6. Steady
  <2>1. ASSUME NEW q \in Roots, NEW k \in Kinds, NEW j \in Ids, k # "record", Durable(q, k, j)
        PROVE  Durable(q, k, j)' /\ Now(q, k, j)' = Now(q, k, j)
    BY <1>1, <2>1, SameFile DEF SameContent
  <2>2. ASSUME NEW q \in Roots, NEW j \in Ids, Durable(q, "record", j), Durable(q, "artifact", j)
        PROVE  Durable(q, "record", j)' /\ Now(q, "record", j)' = Now(q, "record", j)
    <3>1. SameContent(q, "record", j)
      BY <1>1, <1>2, <2>2, TheKinds
    <3>2. QED
      BY <2>2, <3>1, SameFile DEF SameContent
  <2>3. QED
    BY <2>1, <2>2 DEF Steady
<1>7. QED
  BY <1>1, <1>3, <1>4, <1>5, <1>6, DiskKept

(* What the power leaves of a file: all it might, as far as nothing can tell  *)
(* which, or one of the three outcomes.                                       *)
PowerLeaves(r, k, i, found) ==
  \/ Cardinality(May(r, k, i)) <= 1 /\ found = May(r, k, i)
  \/ \E outcome \in {"gone", "torn", "whole"} : found = Left(fs[r][k][i], outcome) /\ found # {}

(* A power loss leaves some content of each file; if none or a torn one, only that. *)
LEMMA LeftBehind ==
  ASSUME Disk, NEW r \in Roots, NEW k \in Kinds, NEW i \in Ids, NEW found, PowerLeaves(r, k, i, found)
  PROVE  /\ found # {} /\ found \subseteq May(r, k, i) /\ IsFiniteSet(found)
         /\ Gone \in found => found = {Gone}
         /\ Torn \in found => found = {Torn}
         /\ Durable(r, k, i) => found = {Now(r, k, i)}
<1>1. Now(r, k, i) \in May(r, k, i) /\ IsFiniteSet(May(r, k, i))
  BY TheFile DEF FileOK
<1>2. CASE Cardinality(May(r, k, i)) <= 1 /\ found = May(r, k, i)
  <2>1. Cardinality({Now(r, k, i)}) = 1 /\ {Now(r, k, i)} \subseteq May(r, k, i)
    BY <1>1, FS_Singleton
  <2>2. Cardinality(May(r, k, i)) \in Nat /\ Cardinality({Now(r, k, i)}) <= Cardinality(May(r, k, i))
    BY <1>1, <2>1, FS_CardinalityType, FS_Subset
  <2>3. Cardinality({Now(r, k, i)}) = Cardinality(May(r, k, i))
    BY <1>2, <2>1, <2>2
  <2>4. {Now(r, k, i)} = May(r, k, i)
    BY <1>1, <2>1, <2>3, FS_Subset
  <2>5. QED
    BY <1>1, <1>2, <2>4
<1>3. ASSUME NEW outcome \in {"gone", "torn", "whole"}, found = Left(fs[r][k][i], outcome), found # {}
      PROVE  /\ found # {} /\ found \subseteq May(r, k, i) /\ IsFiniteSet(found)
             /\ Gone \in found => found = {Gone}
             /\ Torn \in found => found = {Torn}
             /\ Durable(r, k, i) => found = {Now(r, k, i)}
  <2>1. \A c : c \in found <=> c \in May(r, k, i) /\ outcome = IF c \in {Gone, Torn} THEN c.is ELSE "whole"
    BY <1>3 DEF Left, May
  <2>2. found \subseteq May(r, k, i) /\ IsFiniteSet(found)
    BY <1>1, <2>1, FS_Subset
  <2>3. Gone \in found => found = {Gone}
    BY <2>1 DEF Gone, Torn
  <2>4. Torn \in found => found = {Torn}
    BY <2>1 DEF Gone, Torn
  <2>5. Durable(r, k, i) => found = {Now(r, k, i)}
    BY <1>3, <2>2 DEF Durable, May
  <2>6. QED
    BY <1>3, <2>2, <2>3, <2>4, <2>5
<1>4. QED
  BY <1>2, <1>3 DEF PowerLeaves

(* What a power loss leaves, for each file. *)
LEMMA PowerLossMoves ==
  ASSUME Disk, PowerLoss, NEW r \in Roots, NEW k \in Kinds, NEW i \in Ids
  PROVE  /\ fs'[r][k][i] \in Files
         /\ Now(r, k, i)' \in May(r, k, i)' /\ PowerLeaves(r, k, i, fs'[r][k][i].may)
<1>1. PICK outcome \in [Uncertain -> {"gone", "torn", "whole"}] :
         LET left == [n \in Uncertain |-> Left(fs[n[1]][n[2]][n[3]], outcome[n])]
         IN  /\ \A n \in Uncertain : left[n] # {}
             /\ fs' = [q \in Roots |-> [l \in Kinds |-> [j \in Ids |->
                  LET found == IF <<q, l, j>> \in Uncertain THEN left[<<q, l, j>>] ELSE fs[q][l][j].may
                  IN  [now |-> CHOOSE c \in found : TRUE, may |-> found, flushed |-> TRUE]]]]
  BY DEF PowerLoss
<1> DEFINE left == [n \in Uncertain |-> Left(fs[n[1]][n[2]][n[3]], outcome[n])]
           found == IF <<r, k, i>> \in Uncertain THEN left[<<r, k, i>>] ELSE fs[r][k][i].may
<1>2. \A n \in Uncertain : left[n] # {}
  BY <1>1
<1>3. fs'[r][k][i] = [now |-> CHOOSE c \in found : TRUE, may |-> found, flushed |-> TRUE]
  BY <1>1
<1>4. PowerLeaves(r, k, i, found)
  <2>1. CASE <<r, k, i>> \in Uncertain
    <3>1. outcome[<<r, k, i>>] \in {"gone", "torn", "whole"}
      BY <2>1
    <3>2. found = Left(fs[r][k][i], outcome[<<r, k, i>>]) /\ found # {}
      BY <1>2, <2>1
    <3> HIDE DEF found
    <3>3. QED
      BY <3>1, <3>2 DEF PowerLeaves
  <2>2. CASE <<r, k, i>> \notin Uncertain
    <3>1. ~(Cardinality(May(r, k, i)) > 1)
      BY <2>2 DEF Uncertain, May
    <3>2. Cardinality(May(r, k, i)) \in Nat
      BY TheFile, FS_CardinalityType DEF FileOK
    <3>3. found = May(r, k, i)
      BY <2>2 DEF May
    <3> HIDE DEF found
    <3>4. QED
      BY <3>1, <3>2, <3>3 DEF PowerLeaves
  <2>3. QED
    BY <2>1, <2>2
<1>5. found # {} /\ found \subseteq May(r, k, i) /\ May(r, k, i) \subseteq Contents
  <2> HIDE DEF found
  <2>1. QED
    BY <1>4, LeftBehind, TheFile
<1> HIDE DEF found
<1>6. (CHOOSE c \in found : TRUE) \in found
  BY <1>5
<1>7. fs'[r][k][i].now \in fs'[r][k][i].may /\ fs'[r][k][i].may = found
  BY <1>3, <1>6
<1>8. fs'[r][k][i] \in Files
  BY <1>3, <1>5, <1>6 DEF Files
<1>9. QED
  BY <1>4, <1>7, <1>8 DEF Now, May

(* A power loss keeps the disk in order, and what is durable as it is. *)
LEMMA PowerLossKeeps ==
  ASSUME Disk, PowerLoss
  PROVE  Disk' /\ Steady
<1>1. ASSUME NEW r \in Roots, NEW k \in Kinds, NEW i \in Ids
      PROVE  /\ Now(r, k, i)' \in May(r, k, i)' /\ May(r, k, i)' \subseteq May(r, k, i) /\ IsFiniteSet(May(r, k, i)')
             /\ Gone \in May(r, k, i)' => May(r, k, i)' = {Gone}
             /\ Torn \in May(r, k, i)' => May(r, k, i)' = {Torn}
             /\ Durable(r, k, i) => May(r, k, i)' = {Now(r, k, i)}
  <2>1. Now(r, k, i)' \in May(r, k, i)' /\ PowerLeaves(r, k, i, fs'[r][k][i].may)
    BY PowerLossMoves
  <2>2. PICK found : found = fs'[r][k][i].may
    OBVIOUS
  <2>3. PowerLeaves(r, k, i, found) /\ May(r, k, i)' = found
    BY <2>1, <2>2 DEF May
  <2>4. /\ found \subseteq May(r, k, i) /\ IsFiniteSet(found)
        /\ Gone \in found => found = {Gone}
        /\ Torn \in found => found = {Torn}
        /\ Durable(r, k, i) => found = {Now(r, k, i)}
    BY <2>3, LeftBehind
  <2>5. QED
    BY <2>1, <2>3, <2>4
<1>2. fs' \in [Roots -> [Kinds -> [Ids -> Files]]]
  <2>1. \A r \in Roots, k \in Kinds, i \in Ids : fs'[r][k][i] \in Files
    BY PowerLossMoves
  <2>2. PICK outcome \in [Uncertain -> {"gone", "torn", "whole"}] :
         LET left == [n \in Uncertain |-> Left(fs[n[1]][n[2]][n[3]], outcome[n])]
         IN  fs' = [q \in Roots |-> [l \in Kinds |-> [j \in Ids |->
                  LET found == IF <<q, l, j>> \in Uncertain THEN left[<<q, l, j>>] ELSE fs[q][l][j].may
                  IN  [now |-> CHOOSE c \in found : TRUE, may |-> found, flushed |-> TRUE]]]]
    BY DEF PowerLoss
  <2>3. fs' = [q \in Roots |-> [l \in Kinds |-> [j \in Ids |-> fs'[q][l][j]]]]
    BY <2>2, Zenon
  <2>4. QED
    BY <2>1, <2>3
<1>3. ASSUME NEW r \in Roots, NEW k \in Kinds, NEW i \in Ids
      PROVE  FileOK(r, k, i)'
  BY <1>1 DEF FileOK
<1>4. ASSUME NEW r \in Roots, NEW k \in Kinds, NEW i \in Ids
      PROVE  /\ Durable(r, k, i) => Durable(r, k, i)' /\ Now(r, k, i)' = Now(r, k, i)
             /\ MayBeFound(r, k, i)' => MayBeFound(r, k, i)
  <2>1. Durable(r, k, i) => Durable(r, k, i)' /\ Now(r, k, i)' = Now(r, k, i)
    BY <1>1 DEF Durable, May
  <2>2. MayBeFound(r, k, i)' => MayBeFound(r, k, i)
    BY <1>1 DEF MayBeFound, May
  <2>3. QED
    BY <2>1, <2>2
<1>5. Calm
  BY <1>1, TheKinds DEF Calm
<1>6. Steady
  BY <1>4, TheKinds DEF Steady
<1>7. ASSUME NEW r \in Roots, NEW i \in Ids
      PROVE  RecordOK(r, i)'
  <2>1. RecordOK(r, i)
    BY DEF Disk
  <2>2. /\ May(r, "record", i)' \subseteq May(r, "record", i) /\ Now(r, "record", i)' \in May(r, "record", i)'
        /\ Gone \in May(r, "record", i)' => May(r, "record", i)' = {Gone}
        /\ Torn \in May(r, "record", i)' => May(r, "record", i)' = {Torn}
    BY <1>1, TheKinds
  <2>3. ASSUME NEW x \in Headers, Record(x) \in May(r, "record", i)'
        PROVE  Now(r, "record", i)' = Record(x)
    <3>1. Record(x) # Gone /\ Record(x) # Torn
      BY TheContents
    <3>2. Now(r, "record", i)' \notin {Gone, Torn}
      BY <2>2, <2>3, <3>1
    <3>3. Now(r, "record", i)' \in May(r, "record", i) /\ Now(r, "record", i)'.is = "record"
      BY <2>1, <2>2, <3>2 DEF RecordOK
    <3>4. PICK y \in Headers : Now(r, "record", i)' = Record(y)
      BY <3>3, TheFile, WhatIs, TheKinds
    <3>5. QED
      BY <2>1, <2>2, <2>3, <3>3, <3>4 DEF RecordOK
  <2>4. QED
    BY <2>1, <2>2, <2>3 DEF RecordOK
<1>8. QED
  BY <1>2, <1>3, <1>5, <1>6, <1>7, DiskKept

-----------------------------------------------------------------------------
(* The order of the steps.                                                    *)

(* The order of the steps on one file, in numbers. *)
LEMMA TheTurns ==
  /\ Turn("reserve") = 0 /\ Turn("create") = 1 /\ Turn("copy") = 2 /\ Turn("write") = 2 /\ Turn("copyRest") = 3
  /\ Turn("sync") = 4 /\ Turn("full") = 5
  /\ \A op \in Writes \cup {"reserve"} : Turn(op) \in 0 .. 5
<1>1. /\ Turn("reserve") = 0 /\ Turn("create") = 1 /\ Turn("copy") = 2 /\ Turn("write") = 2 /\ Turn("copyRest") = 3
      /\ Turn("sync") = 4 /\ Turn("full") = 5
  BY DEF Turn
<1>2. QED
  BY <1>1 DEF Writes, Creates

(* Where the steps of each root begin. *)
LEMMA TheBases ==
  /\ Base(First, "pair") = 100 /\ Base(First, "pairSeal") = 100 /\ Base(Second, "pair") = 200 /\ Base(Second, "pairSeal") = 200
  /\ \A k \in Kinds \ Lifecycle : Base("source", k) = 0 /\ Base("destination", k) = 50
  /\ \A r \in Roots, k \in Lifecycle : Base(r, k) \in {100, 200}
BY TheRoots DEF Base, Lifecycle

(* The rank of a step that reserves or writes. *)
LEMMA TheRank ==
  ASSUME NEW op \in Writes \cup {"reserve"}, NEW r \in Roots, NEW k \in Kinds
  PROVE  Rank(Step(op, r, k)) = 10 * Place(k) + Turn(op) + Base(r, k)
<1> DEFINE t == Step(op, r, k)
<1>1. t.op = op /\ t.root = r /\ t.kind = k
  BY DEF Step
<1>2. op # "lock" /\ op # "scan"
  BY DEF Writes, Creates
<1> HIDE DEF t
<1>3. Rank(t) = 10 * Place(t.kind) + Turn(t.op) + Base(t.root, t.kind)
  BY <1>1, <1>2 DEF Rank
<1>4. QED
  BY <1>1, <1>3 DEF t

(* Steps that write come after those that lock and scan, and before those that end a list. *)
LEMMA TheRankIsBounded ==
  ASSUME NEW op \in Writes \cup {"reserve"}, NEW r \in Roots, NEW k \in Kinds
  PROVE  Rank(Step(op, r, k)) \in 10 .. 299
<1>1. Rank(Step(op, r, k)) = 10 * Place(k) + Turn(op) + Base(r, k)
  BY TheRank
<1>2. Place(k) \in 1 .. 5 /\ Turn(op) \in 0 .. 5
  BY ThePlaces, TheTurns
<1>3. Base(r, k) \in {0, 50, 100, 200}
  BY DEF Base
<1>4. QED
  BY <1>1, <1>2, <1>3

(* The rank of the other steps, and that a step is what Step makes of its parts. *)
LEMMA TheOtherRanks ==
  ASSUME NEW t \in Steps
  PROVE  /\ t.op = "lock" => Rank(t) = IF t.root = First THEN 0 ELSE 1
         /\ t.op = "scan" => Rank(t) = 2
         /\ t.op \in {"return", "open", "sealed"} => Rank(t) = 300
         /\ t.op = "staged" => Rank(t) = 301
         /\ t.op = "validate" => Rank(t) = 302
         /\ t.op = "permit" => Rank(t) = 303
         /\ t.op \in Writes \cup {"reserve"} => Rank(t) \in 10 .. 299
         /\ Rank(t) \in 0 .. 303
         /\ t = Step(t.op, t.root, t.kind) /\ t.op \in Operations /\ t.root \in Roots /\ t.kind \in Kinds /\ WellFormed(t)
<1>1. t \in [op : Operations, root : Roots, kind : Kinds] /\ WellFormed(t)
  BY DEF Steps
<1>2. t = Step(t.op, t.root, t.kind) /\ t.op \in Operations /\ t.root \in Roots /\ t.kind \in Kinds
  BY <1>1 DEF Step
<1>3. /\ t.op = "lock" => Rank(t) = IF t.root = First THEN 0 ELSE 1
      /\ t.op = "scan" => Rank(t) = 2
  BY DEF Rank
<1>4. /\ t.op \in {"return", "open", "sealed"} => Rank(t) = 300
      /\ t.op = "staged" => Rank(t) = 301
      /\ t.op = "validate" => Rank(t) = 302
      /\ t.op = "permit" => Rank(t) = 303
  BY DEF Rank, Writes, Creates
<1>5. t.op \in Writes \cup {"reserve"} => Rank(t) \in 10 .. 299
  BY <1>2, TheRankIsBounded
<1>6. t.op \in Writes \cup {"reserve", "lock", "scan", "return", "open", "sealed", "staged", "validate", "permit"}
  BY <1>2 DEF Operations, Writes, Creates
<1>7. Rank(t) \in 0 .. 303
  BY <1>3, <1>4, <1>5, <1>6
<1>8. QED
  BY <1>1, <1>2, <1>3, <1>4, <1>5, <1>7

(* What comes before what. *)
LEMMA TheOrder ==
  ASSUME NEW a \in Writes \cup {"reserve"}, NEW b \in Writes \cup {"reserve"}, NEW q \in Roots, NEW r \in Roots, NEW k \in Kinds, NEW l \in Kinds,
         \/ q = r /\ Place(k) < Place(l)
         \/ q = r /\ k = l /\ Turn(a) < Turn(b)
         \/ k \notin Lifecycle /\ l \in Lifecycle
         \/ q = "source" /\ r = "destination" /\ k \notin Lifecycle /\ l \notin Lifecycle
         \/ q = First /\ r = Second /\ k \in Lifecycle /\ l \in Lifecycle
  PROVE  Rank(Step(a, q, k)) < Rank(Step(b, r, l))
<1>1. Rank(Step(a, q, k)) = 10 * Place(k) + Turn(a) + Base(q, k) /\ Rank(Step(b, r, l)) = 10 * Place(l) + Turn(b) + Base(r, l)
  BY TheRank
<1>2. Place(k) \in 1 .. 5 /\ Turn(a) \in 0 .. 5 /\ Place(l) \in 1 .. 5 /\ Turn(b) \in 0 .. 5
  BY ThePlaces, TheTurns
<1>3. Base(q, k) \in {0, 50, 100, 200} /\ Base(r, l) \in {0, 50, 100, 200}
  BY DEF Base
<1>4. CASE q = r /\ Place(k) < Place(l)
  <2>1. k \in Lifecycle => l \in Lifecycle
    BY <1>4, ThePlaces, TheKinds
  <2>2. Base(q, k) <= Base(r, l)
    BY <1>4, <2>1 DEF Base
  <2>3. QED
    BY <1>1, <1>2, <1>3, <1>4, <2>2
<1>5. CASE q = r /\ k = l /\ Turn(a) < Turn(b)
  BY <1>1, <1>2, <1>3, <1>5
<1>6. CASE k \notin Lifecycle /\ l \in Lifecycle
  <2>1. Place(k) <= 3 /\ Place(l) >= 4
    BY <1>6, ThePlaces, TheKinds
  <2>2. Base(q, k) <= 50 /\ Base(r, l) >= 100
    BY <1>6 DEF Base
  <2>3. QED
    BY <1>1, <1>2, <1>3, <2>1, <2>2
<1>7. CASE q = "source" /\ r = "destination" /\ k \notin Lifecycle /\ l \notin Lifecycle
  <2>1. Place(k) <= 3
    BY <1>7, ThePlaces, TheKinds
  <2>2. Base(q, k) = 0 /\ Base(r, l) = 50
    BY <1>7 DEF Base
  <2>3. QED
    BY <1>1, <1>2, <2>1, <2>2
<1>8. CASE q = First /\ r = Second /\ k \in Lifecycle /\ l \in Lifecycle
  <2>1. Base(q, k) = 100 /\ Base(r, l) = 200
    BY <1>8, TheRoots DEF Base
  <2>2. QED
    BY <1>1, <1>2, <2>1
<1>9. QED
  BY <1>4, <1>5, <1>6, <1>7, <1>8

-----------------------------------------------------------------------------
(* Lists of steps.                                                            *)

(* The rest of a list is in order, and behind its first step. *)
LEMMA RestOfList ==
  ASSUME NEW list \in Seq(Steps), InOrder(list), list # <<>>
  PROVE  /\ Tail(list) \in Seq(Steps) /\ InOrder(Tail(list)) /\ Head(list) \in Steps
         /\ Elements(list) = {Head(list)} \cup Elements(Tail(list))
         /\ \A u \in Elements(Tail(list)) : Before(Head(list), u)
<1>1. Len(list) \in Nat \ {0} /\ DOMAIN list = 1 .. Len(list) /\ Head(list) = list[1]
  OBVIOUS
<1>2. /\ Tail(list) \in Seq(Steps) /\ DOMAIN Tail(list) = 1 .. (Len(list) - 1)
      /\ \A i \in 1 .. (Len(list) - 1) : Tail(list)[i] = list[i + 1]
  BY <1>1
<1>3. InOrder(Tail(list))
  BY <1>1, <1>2 DEF InOrder
<1>4. ASSUME NEW u \in Elements(Tail(list)) PROVE Before(Head(list), u) /\ u \in Elements(list)
  <2>1. PICK i \in 1 .. (Len(list) - 1) : u = list[i + 1]
    BY <1>2 DEF Elements
  <2>2. i + 1 \in DOMAIN list /\ 1 \in DOMAIN list /\ 1 < i + 1
    BY <1>1
  <2>3. QED
    BY <1>1, <2>1, <2>2 DEF InOrder, Elements
<1>5. Head(list) \in Elements(list) /\ Head(list) \in Steps
  BY <1>1 DEF Elements
<1>6. ASSUME NEW u \in Elements(list) PROVE u = Head(list) \/ u \in Elements(Tail(list))
  <2>1. PICK i \in 1 .. Len(list) : u = list[i]
    BY <1>1 DEF Elements
  <2>2. CASE i = 1
    BY <1>1, <2>1, <2>2
  <2>3. CASE i # 1
    <3>1. i - 1 \in 1 .. (Len(list) - 1) /\ (i - 1) + 1 = i
      BY <1>1, <2>3
    <3>2. Tail(list)[i - 1] = list[i]
      BY <1>2, <3>1
    <3>3. QED
      BY <1>2, <2>1, <3>1, <3>2 DEF Elements
  <2>4. QED
    BY <2>2, <2>3
<1>7. QED
  BY <1>2, <1>3, <1>4, <1>5, <1>6

(* A list, its steps and how far apart they are. *)
IsList(list, set, low, high) ==
  list \in Seq(Steps) /\ InOrder(list) /\ Elements(list) = set /\ \A t \in set : Rank(t) \in low .. high

(* Two lists in order, one behind the other, are a list in order. *)
LEMMA Joined ==
  ASSUME NEW s, NEW t, NEW a, NEW b, NEW low \in Nat, NEW m \in Nat, NEW n \in Nat, NEW high \in Nat,
         IsList(s, a, low, m), IsList(t, b, n, high), m < n, low <= m, n <= high
  PROVE  IsList(s \o t, a \cup b, low, high)
<1>1. s \in Seq(Steps) /\ t \in Seq(Steps) /\ InOrder(s) /\ InOrder(t) /\ Elements(s) = a /\ Elements(t) = b
  BY DEF IsList
<1>2. /\ s \o t \in Seq(Steps) /\ Len(s) \in Nat /\ Len(t) \in Nat
      /\ DOMAIN s = 1 .. Len(s) /\ DOMAIN t = 1 .. Len(t) /\ DOMAIN (s \o t) = 1 .. (Len(s) + Len(t))
      /\ \A i \in 1 .. Len(s) : (s \o t)[i] = s[i]
      /\ \A i \in (Len(s) + 1) .. (Len(s) + Len(t)) : (s \o t)[i] = t[i - Len(s)]
  BY <1>1
<1> DEFINE both == s \o t
<1> HIDE DEF both
<1>3. /\ both \in Seq(Steps) /\ DOMAIN both = 1 .. (Len(s) + Len(t))
      /\ \A i \in 1 .. Len(s) : both[i] = s[i]
      /\ \A i \in (Len(s) + 1) .. (Len(s) + Len(t)) : both[i] = t[i - Len(s)]
  BY <1>2 DEF both
<1>4. Elements(both) = a \cup b
  <2>1. ASSUME NEW u \in Elements(both) PROVE u \in a \cup b
    <3>1. PICK i \in 1 .. (Len(s) + Len(t)) : u = both[i]
      BY <1>3 DEF Elements
    <3>2. CASE i \in 1 .. Len(s)
      BY <1>1, <1>2, <1>3, <3>1, <3>2 DEF Elements
    <3>3. CASE i \in (Len(s) + 1) .. (Len(s) + Len(t))
      <4>1. i - Len(s) \in DOMAIN t /\ u = t[i - Len(s)]
        BY <1>2, <1>3, <3>1, <3>3
      <4>2. QED
        BY <1>1, <4>1 DEF Elements
    <3>4. QED
      BY <1>2, <3>1, <3>2, <3>3
  <2>2. ASSUME NEW u \in a PROVE u \in Elements(both)
    <3>1. PICK i \in 1 .. Len(s) : u = s[i]
      BY <1>1, <1>2, <2>2 DEF Elements
    <3>2. i \in DOMAIN both /\ both[i] = u
      BY <1>2, <1>3, <3>1
    <3>3. QED
      BY <3>2 DEF Elements
  <2>3. ASSUME NEW u \in b PROVE u \in Elements(both)
    <3>1. PICK i \in 1 .. Len(t) : u = t[i]
      BY <1>1, <1>2, <2>3 DEF Elements
    <3>2. i + Len(s) \in (Len(s) + 1) .. (Len(s) + Len(t)) /\ (i + Len(s)) - Len(s) = i
      BY <1>2
    <3>3. i + Len(s) \in DOMAIN both /\ both[i + Len(s)] = u
      <4>1. PICK j \in (Len(s) + 1) .. (Len(s) + Len(t)) : j = i + Len(s)
        BY <3>2
      <4>2. j \in DOMAIN both /\ both[j] = t[j - Len(s)]
        <5>1. both[j] = t[j - Len(s)]
          BY <1>3
        <5>2. j \in 1 .. (Len(s) + Len(t))
          BY <1>2
        <5>3. QED
          BY <1>3, <5>1, <5>2
      <4>3. j - Len(s) = i
        BY <3>2, <4>1
      <4>4. QED
        BY <3>1, <4>1, <4>2, <4>3
    <3>4. QED
      BY <3>3 DEF Elements
  <2>4. QED
    BY <2>1, <2>2, <2>3
<1>5. \A u \in a, v \in b : Before(u, v)
  BY DEF IsList, Before
<1>6. InOrder(both)
  <2> SUFFICES ASSUME NEW i \in DOMAIN both, NEW j \in DOMAIN both, i < j PROVE Before(both[i], both[j])
    BY DEF InOrder
  <2>1. CASE j \in 1 .. Len(s)
    <3>1. i \in 1 .. Len(s)
      BY <1>3, <2>1
    <3>2. QED
      BY <1>1, <1>2, <1>3, <2>1, <3>1 DEF InOrder
  <2>2. CASE i \in 1 .. Len(s) /\ j \in (Len(s) + 1) .. (Len(s) + Len(t))
    <3>1. both[i] \in a
      BY <1>1, <1>2, <1>3, <2>2 DEF Elements
    <3>2. j - Len(s) \in DOMAIN t /\ both[j] = t[j - Len(s)]
      BY <1>2, <1>3, <2>2
    <3>3. both[j] \in b
      BY <1>1, <3>2 DEF Elements
    <3>4. QED
      BY <1>5, <3>1, <3>3
  <2>3. CASE i \in (Len(s) + 1) .. (Len(s) + Len(t)) /\ j \in (Len(s) + 1) .. (Len(s) + Len(t))
    <3>1. /\ i - Len(s) \in DOMAIN t /\ both[i] = t[i - Len(s)]
          /\ j - Len(s) \in DOMAIN t /\ both[j] = t[j - Len(s)]
          /\ i - Len(s) < j - Len(s)
      BY <1>2, <1>3, <2>3
    <3>2. QED
      BY <1>1, <3>1 DEF InOrder
  <2>4. QED
    BY <1>2, <1>3, <2>1, <2>2, <2>3
<1>7. \A u \in a \cup b : Rank(u) \in low .. high
  BY DEF IsList
<1>8. QED
  BY <1>3, <1>4, <1>6, <1>7 DEF IsList, both

(* Short lists in order. *)
LEMMA Lists ==
  /\ \A a \in Steps : \A low \in Nat : Rank(a) = low => IsList(<<a>>, {a}, low, low)
  /\ \A a, b \in Steps : \A low, high \in Nat :
       Rank(a) = low /\ Rank(b) = high /\ low < high => IsList(<<a, b>>, {a, b}, low, high)
  /\ \A a, b, c \in Steps : \A low, m, high \in Nat :
       Rank(a) = low /\ Rank(b) = m /\ Rank(c) = high /\ low < m /\ m < high => IsList(<<a, b, c>>, {a, b, c}, low, high)
<1>1. ASSUME NEW a \in Steps, NEW low \in Nat, Rank(a) = low PROVE IsList(<<a>>, {a}, low, low)
  <2>1. <<a>> \in Seq(Steps) /\ DOMAIN <<a>> = {1} /\ <<a>>[1] = a
    OBVIOUS
  <2>2. InOrder(<<a>>)
    BY <2>1 DEF InOrder
  <2>3. Elements(<<a>>) = {a}
    BY <2>1 DEF Elements
  <2>4. QED
    BY <1>1, <2>1, <2>2, <2>3 DEF IsList
<1>2. ASSUME NEW a \in Steps, NEW b \in Steps, NEW low \in Nat, NEW high \in Nat, Rank(a) = low, Rank(b) = high, low < high
      PROVE  IsList(<<a, b>>, {a, b}, low, high)
  <2>1. <<a, b>> \in Seq(Steps) /\ DOMAIN <<a, b>> = {1, 2} /\ <<a, b>>[1] = a /\ <<a, b>>[2] = b
    OBVIOUS
  <2>2. InOrder(<<a, b>>)
    BY <1>2, <2>1 DEF InOrder, Before
  <2>3. Elements(<<a, b>>) = {a, b}
    BY <2>1 DEF Elements
  <2>4. QED
    BY <1>2, <2>1, <2>2, <2>3 DEF IsList
<1>3. ASSUME NEW a \in Steps, NEW b \in Steps, NEW c \in Steps, NEW low \in Nat, NEW m \in Nat, NEW high \in Nat,
             Rank(a) = low, Rank(b) = m, Rank(c) = high, low < m, m < high
      PROVE  IsList(<<a, b, c>>, {a, b, c}, low, high)
  <2>1. /\ <<a, b, c>> \in Seq(Steps) /\ DOMAIN <<a, b, c>> = {1, 2, 3}
        /\ <<a, b, c>>[1] = a /\ <<a, b, c>>[2] = b /\ <<a, b, c>>[3] = c
    OBVIOUS
  <2>2. InOrder(<<a, b, c>>)
    BY <1>3, <2>1 DEF InOrder, Before
  <2>3. Elements(<<a, b, c>>) = {a, b, c}
    BY <2>1 DEF Elements
  <2>4. QED
    BY <1>3, <2>1, <2>2, <2>3 DEF IsList
<1>4. QED
  BY <1>1, <1>2, <1>3

-----------------------------------------------------------------------------
(* The lists of the model.                                                    *)

(* The steps of the model are well formed. *)
LEMMA TheSteps ==
  ASSUME NEW r \in Roots
  PROVE  /\ \A op \in {"lock", "scan", "reserve", "open", "sealed"} : Step(op, r, "record") \in Steps
         /\ \A op \in {"create", "copy", "copyRest", "return", "staged", "validate", "permit"} : Step(op, r, "artifact") \in Steps
         /\ \A k \in Kinds \ {"record"} : Step("create", r, k) \in Steps
         /\ \A k \in Kinds \ {"artifact"} : Step("write", r, k) \in Steps
         /\ \A k \in Kinds : Step("sync", r, k) \in Steps
         /\ \A k \in {"artifact", "pair", "pairSeal"} : Step("full", r, k) \in Steps
<1>1. \A op \in Operations, k \in Kinds : Step(op, r, k) \in Steps <=> WellFormed(Step(op, r, k))
  BY DEF Steps, Step
<1>2. "record" \in Kinds /\ "artifact" \in Kinds
  BY TheKinds
<1>3. \A op \in {"lock", "scan", "reserve", "open", "sealed"} : Step(op, r, "record") \in Steps
  BY <1>1, <1>2 DEF WellFormed, Step, Operations
<1>4. \A op \in {"create", "copy", "copyRest", "return", "staged", "validate", "permit"} : Step(op, r, "artifact") \in Steps
  BY <1>1, <1>2 DEF WellFormed, Step, Operations
<1>5. \A k \in Kinds \ {"record"} : Step("create", r, k) \in Steps
  BY <1>1 DEF WellFormed, Step, Operations
<1>6. \A k \in Kinds \ {"artifact"} : Step("write", r, k) \in Steps
  BY <1>1 DEF WellFormed, Step, Operations
<1>7. \A k \in Kinds : Step("sync", r, k) \in Steps
  BY <1>1 DEF WellFormed, Step, Operations
<1>8. \A k \in {"artifact", "pair", "pairSeal"} : Step("full", r, k) \in Steps
  BY <1>1 DEF WellFormed, Step, Operations, Kinds
<1>9. QED
  BY <1>3, <1>4, <1>5, <1>6, <1>7, <1>8

(* The rank of a step of a session or a ledger. *)
LEMMA TheNumbers ==
  ASSUME NEW r \in Roots
  PROVE  LET b == Base(r, "record")
             c == Base(r, "pair")
         IN  /\ b \in Nat /\ c \in Nat
             /\ Rank(Step("reserve", r, "record")) = b + 10 /\ Rank(Step("write", r, "record")) = b + 12
             /\ Rank(Step("sync", r, "record")) = b + 14
             /\ Rank(Step("create", r, "artifact")) = b + 21 /\ Rank(Step("copy", r, "artifact")) = b + 22
             /\ Rank(Step("copyRest", r, "artifact")) = b + 23 /\ Rank(Step("sync", r, "artifact")) = b + 24
             /\ Rank(Step("full", r, "artifact")) = b + 25
             /\ Rank(Step("create", r, "seal")) = b + 31 /\ Rank(Step("write", r, "seal")) = b + 32
             /\ Rank(Step("sync", r, "seal")) = b + 34
             /\ \A k \in Lifecycle : /\ Rank(Step("create", r, k)) = 10 * Place(k) + c + 1
                                     /\ Rank(Step("write", r, k)) = 10 * Place(k) + c + 2
                                     /\ Rank(Step("sync", r, k)) = 10 * Place(k) + c + 4
                                     /\ Rank(Step("full", r, k)) = 10 * Place(k) + c + 5
<1> DEFINE b == Base(r, "record")
           c == Base(r, "pair")
<1>1. /\ Base(r, "record") = b /\ Base(r, "artifact") = b /\ Base(r, "seal") = b
      /\ Base(r, "pair") = c /\ Base(r, "pairSeal") = c /\ b \in Nat /\ c \in Nat
  BY DEF Base, Lifecycle
<1> HIDE DEF b, c
<1>2. \A op \in Writes \cup {"reserve"}, k \in Kinds : Rank(Step(op, r, k)) = 10 * Place(k) + Turn(op) + Base(r, k)
  BY TheRank
<1>3. /\ Place("record") = 1 /\ Place("artifact") = 2 /\ Place("seal") = 3 /\ Place("pair") = 4 /\ Place("pairSeal") = 5
  BY ThePlaces
<1>4. /\ "reserve" \in Writes \cup {"reserve"} /\ "write" \in Writes \cup {"reserve"} /\ "sync" \in Writes \cup {"reserve"}
      /\ "create" \in Writes \cup {"reserve"} /\ "copy" \in Writes \cup {"reserve"} /\ "copyRest" \in Writes \cup {"reserve"}
      /\ "full" \in Writes \cup {"reserve"}
  BY DEF Writes, Creates
<1>5. /\ Rank(Step("reserve", r, "record")) = b + 10 /\ Rank(Step("write", r, "record")) = b + 12
      /\ Rank(Step("sync", r, "record")) = b + 14
  BY <1>1, <1>2, <1>3, <1>4, TheTurns, TheKinds
<1>6. /\ Rank(Step("create", r, "artifact")) = b + 21 /\ Rank(Step("copy", r, "artifact")) = b + 22
      /\ Rank(Step("copyRest", r, "artifact")) = b + 23 /\ Rank(Step("sync", r, "artifact")) = b + 24
      /\ Rank(Step("full", r, "artifact")) = b + 25
  BY <1>1, <1>2, <1>3, <1>4, TheTurns, TheKinds
<1>7. /\ Rank(Step("create", r, "seal")) = b + 31 /\ Rank(Step("write", r, "seal")) = b + 32
      /\ Rank(Step("sync", r, "seal")) = b + 34
  BY <1>1, <1>2, <1>3, <1>4, TheTurns, TheKinds
<1>8. ASSUME NEW k \in Lifecycle
      PROVE  /\ Rank(Step("create", r, k)) = 10 * Place(k) + c + 1
             /\ Rank(Step("write", r, k)) = 10 * Place(k) + c + 2
             /\ Rank(Step("sync", r, k)) = 10 * Place(k) + c + 4
             /\ Rank(Step("full", r, k)) = 10 * Place(k) + c + 5
  <2>1. k \in Kinds /\ Place(k) \in Nat /\ Base(r, k) = c
    BY <1>1, <1>3, TheKinds
  <2>2. QED
    BY <1>1, <1>2, <1>4, <2>1, TheTurns
<1>9. QED
  BY <1>1, <1>5, <1>6, <1>7, <1>8 DEF b, c

ReserveSteps(r) == {Step("reserve", r, "record"), Step("write", r, "record"), Step("sync", r, "record")}
FillSteps(r)    == {Step("create", r, "artifact"), Step("copy", r, "artifact"), Step("copyRest", r, "artifact")}
SyncSteps(r)    == {Step("sync", r, "artifact"), Step("full", r, "artifact")}
SealSteps(r)    == {Step("create", r, "seal"), Step("write", r, "seal"), Step("sync", r, "seal")}
RecordSteps(r, k) == {Step("create", r, k), Step("write", r, k), Step("sync", r, k), Step("full", r, k)}

(* The blocks of which the sessions and the ledgers are made. *)
LEMMA TheBlocks ==
  ASSUME NEW r \in Roots
  PROVE  LET b == Base(r, "record")
             c == Base(r, "pair")
         IN  /\ IsList(Reserving(r), ReserveSteps(r), b + 10, b + 14)
             /\ IsList(Filling(r), FillSteps(r), b + 21, b + 23)
             /\ IsList(Syncing(r), SyncSteps(r), b + 24, b + 25)
             /\ IsList(Sealing(r), SealSteps(r), b + 31, b + 34)
             /\ IsList(Recording(r, "pair"), RecordSteps(r, "pair"), c + 41, c + 45)
             /\ IsList(Recording(r, "pairSeal"), RecordSteps(r, "pairSeal"), c + 51, c + 55)
<1> DEFINE b == Base(r, "record")
           c == Base(r, "pair")
<1>1. b \in Nat /\ c \in Nat
  BY TheNumbers
<1>2. IsList(Reserving(r), ReserveSteps(r), b + 10, b + 14)
  <2>1. /\ Step("reserve", r, "record") \in Steps /\ Step("write", r, "record") \in Steps /\ Step("sync", r, "record") \in Steps
        /\ Rank(Step("reserve", r, "record")) = b + 10 /\ Rank(Step("write", r, "record")) = b + 12
        /\ Rank(Step("sync", r, "record")) = b + 14
    BY TheNumbers, TheSteps, TheKinds
  <2> HIDE DEF b, c
  <2>2. IsList(<<Step("reserve", r, "record")>>, {Step("reserve", r, "record")}, b + 10, b + 10)
    BY <1>1, <2>1, Lists
  <2>3. IsList(Writing(r, "record"), {Step("write", r, "record"), Step("sync", r, "record")}, b + 12, b + 14)
    BY <1>1, <2>1, Lists DEF Writing
  <2>4. IsList(Reserving(r), {Step("reserve", r, "record")} \cup {Step("write", r, "record"), Step("sync", r, "record")}, b + 10, b + 14)
    BY <1>1, <2>2, <2>3, Joined DEF Reserving
  <2>5. ReserveSteps(r) = {Step("reserve", r, "record")} \cup {Step("write", r, "record"), Step("sync", r, "record")}
    BY DEF ReserveSteps
  <2>6. QED
    BY <2>4, <2>5
<1>3. IsList(Filling(r), FillSteps(r), b + 21, b + 23)
  <2>1. /\ Step("create", r, "artifact") \in Steps /\ Step("copy", r, "artifact") \in Steps /\ Step("copyRest", r, "artifact") \in Steps
        /\ Rank(Step("create", r, "artifact")) = b + 21 /\ Rank(Step("copy", r, "artifact")) = b + 22
        /\ Rank(Step("copyRest", r, "artifact")) = b + 23
    BY TheNumbers, TheSteps
  <2> HIDE DEF b, c
  <2>2. b + 21 \in Nat /\ b + 22 \in Nat /\ b + 23 \in Nat /\ b + 21 < b + 22 /\ b + 22 < b + 23
    BY <1>1
  <2>3. QED
    BY <2>1, <2>2, Lists DEF Filling, FillSteps
<1>4. IsList(Syncing(r), SyncSteps(r), b + 24, b + 25)
  <2>1. /\ Step("sync", r, "artifact") \in Steps /\ Step("full", r, "artifact") \in Steps
        /\ Rank(Step("sync", r, "artifact")) = b + 24 /\ Rank(Step("full", r, "artifact")) = b + 25
    BY TheNumbers, TheSteps, TheKinds
  <2> HIDE DEF b, c
  <2>2. QED
    BY <1>1, <2>1, Lists DEF Syncing, SyncSteps
<1>5. IsList(Sealing(r), SealSteps(r), b + 31, b + 34)
  <2>1. /\ Step("create", r, "seal") \in Steps /\ Step("write", r, "seal") \in Steps /\ Step("sync", r, "seal") \in Steps
        /\ Rank(Step("create", r, "seal")) = b + 31 /\ Rank(Step("write", r, "seal")) = b + 32
        /\ Rank(Step("sync", r, "seal")) = b + 34
    BY TheNumbers, TheSteps, TheKinds
  <2> HIDE DEF b, c
  <2>2. IsList(<<Step("create", r, "seal")>>, {Step("create", r, "seal")}, b + 31, b + 31)
    BY <1>1, <2>1, Lists
  <2>3. IsList(Writing(r, "seal"), {Step("write", r, "seal"), Step("sync", r, "seal")}, b + 32, b + 34)
    BY <1>1, <2>1, Lists DEF Writing
  <2>4. IsList(Sealing(r), {Step("create", r, "seal")} \cup {Step("write", r, "seal"), Step("sync", r, "seal")}, b + 31, b + 34)
    BY <1>1, <2>2, <2>3, Joined DEF Sealing
  <2>5. SealSteps(r) = {Step("create", r, "seal")} \cup {Step("write", r, "seal"), Step("sync", r, "seal")}
    BY DEF SealSteps
  <2>6. QED
    BY <2>4, <2>5
<1>6. ASSUME NEW k \in Lifecycle, NEW d \in Nat, d = 10 * Place(k) + c
      PROVE  IsList(Recording(r, k), RecordSteps(r, k), d + 1, d + 5)
  <2>1. /\ Step("create", r, k) \in Steps /\ Step("write", r, k) \in Steps /\ Step("sync", r, k) \in Steps /\ Step("full", r, k) \in Steps
        /\ Rank(Step("create", r, k)) = d + 1 /\ Rank(Step("write", r, k)) = d + 2
        /\ Rank(Step("sync", r, k)) = d + 4 /\ Rank(Step("full", r, k)) = d + 5
    <3>1. k \in Kinds \ {"record"} /\ k \in Kinds \ {"artifact"} /\ k \in {"artifact", "pair", "pairSeal"}
      BY TheKinds
    <3>2. /\ Rank(Step("create", r, k)) = 10 * Place(k) + c + 1 /\ Rank(Step("write", r, k)) = 10 * Place(k) + c + 2
          /\ Rank(Step("sync", r, k)) = 10 * Place(k) + c + 4 /\ Rank(Step("full", r, k)) = 10 * Place(k) + c + 5
      BY TheNumbers
    <3> HIDE DEF b, c
    <3>3. QED
      BY <1>6, <3>1, <3>2, TheSteps
  <2> HIDE DEF b, c
  <2>2. IsList(<<Step("create", r, k)>>, {Step("create", r, k)}, d + 1, d + 1)
    BY <2>1, Lists
  <2>3. IsList(Writing(r, k), {Step("write", r, k), Step("sync", r, k)}, d + 2, d + 4)
    BY <2>1, Lists DEF Writing
  <2>4. IsList(<<Step("create", r, k)>> \o Writing(r, k), {Step("create", r, k)} \cup {Step("write", r, k), Step("sync", r, k)}, d + 1, d + 4)
    BY <2>2, <2>3, Joined
  <2>5. IsList(<<Step("full", r, k)>>, {Step("full", r, k)}, d + 5, d + 5)
    BY <2>1, Lists
  <2>6. IsList(Recording(r, k), ({Step("create", r, k)} \cup {Step("write", r, k), Step("sync", r, k)}) \cup {Step("full", r, k)}, d + 1, d + 5)
    BY <2>4, <2>5, Joined DEF Recording
  <2>7. RecordSteps(r, k) = ({Step("create", r, k)} \cup {Step("write", r, k), Step("sync", r, k)}) \cup {Step("full", r, k)}
    BY DEF RecordSteps
  <2>8. QED
    BY <2>6, <2>7
<1> HIDE DEF b, c
<1>7. 40 + c \in Nat /\ 50 + c \in Nat /\ 10 * Place("pair") + c = 40 + c /\ 10 * Place("pairSeal") + c = 50 + c
  BY <1>1, ThePlaces
<1>8. IsList(Recording(r, "pair"), RecordSteps(r, "pair"), (40 + c) + 1, (40 + c) + 5)
  BY <1>6, <1>7, TheKinds
<1>9. IsList(Recording(r, "pairSeal"), RecordSteps(r, "pairSeal"), (50 + c) + 1, (50 + c) + 5)
  BY <1>6, <1>7, TheKinds
<1>10. (40 + c) + 1 = c + 41 /\ (40 + c) + 5 = c + 45 /\ (50 + c) + 1 = c + 51 /\ (50 + c) + 5 = c + 55
  BY <1>1
<1>11. QED
  BY <1>2, <1>3, <1>4, <1>5, <1>8, <1>9, <1>10 DEF b, c

StageSteps(r) == ReserveSteps(r) \cup FillSteps(r) \cup SyncSteps(r) \cup SealSteps(r)
PairSteps(r)  == RecordSteps(r, "pair") \cup RecordSteps(r, "pairSeal")
Locking       == {Step("lock", First, "record"), Step("lock", Second, "record")}
SessionSteps  == Locking \cup StageSteps("source") \cup StageSteps("destination") \cup PairSteps(First) \cup PairSteps(Second) \cup {Returning}

(* A session has all the steps that write into a root ahead. *)
LEMMA TheWanted ==
  ASSUME NEW r \in Roots
  PROVE  StageSteps(r) \cup PairSteps(r) = {Step("reserve", r, "record")} \cup Wanted(r)
<1>1. StageSteps(r) \cup PairSteps(r) \subseteq {Step("reserve", r, "record")} \cup Wanted(r)
  <2>1. \A op \in Writes, k \in Kinds : Step(op, r, k) \in Steps => Step(op, r, k) \in Wanted(r)
    BY DEF Wanted, Step
  <2>2. /\ Step("write", r, "record") \in Wanted(r) /\ Step("sync", r, "record") \in Wanted(r)
        /\ Step("create", r, "artifact") \in Wanted(r) /\ Step("copy", r, "artifact") \in Wanted(r)
        /\ Step("copyRest", r, "artifact") \in Wanted(r)
    BY <2>1, TheSteps, TheKinds DEF Writes, Creates
  <2>3. /\ Step("sync", r, "artifact") \in Wanted(r) /\ Step("full", r, "artifact") \in Wanted(r)
        /\ Step("create", r, "seal") \in Wanted(r) /\ Step("write", r, "seal") \in Wanted(r)
        /\ Step("sync", r, "seal") \in Wanted(r)
    BY <2>1, TheSteps, TheKinds DEF Writes, Creates
  <2>4. ASSUME NEW k \in Lifecycle PROVE RecordSteps(r, k) \subseteq Wanted(r)
    BY <2>1, TheSteps, TheKinds DEF Writes, Creates, RecordSteps
  <2>5. QED
    BY <2>2, <2>3, <2>4, TheKinds DEF StageSteps, PairSteps, ReserveSteps, FillSteps, SyncSteps, SealSteps
<1>2. ASSUME NEW t \in Wanted(r) PROVE t \in StageSteps(r) \cup PairSteps(r)
  <2>1. t \in Steps /\ t.root = r /\ t.op \in Writes
    BY DEF Wanted
  <2>2. t = Step(t.op, r, t.kind) /\ WellFormed(t) /\ t.kind \in Kinds
    BY <2>1, TheOtherRanks
  <2>3. t.op \in {"create", "copy", "copyRest", "write", "sync", "full"} /\ t.kind \in {"record", "artifact", "seal", "pair", "pairSeal"}
    BY <2>1, <2>2, TheKinds DEF Writes, Creates
  <2>4. CASE t.op \in {"copy", "copyRest"}
    <3>1. t.kind = "artifact"
      BY <2>2, <2>4 DEF WellFormed
    <3>2. QED
      BY <2>2, <2>4, <3>1 DEF StageSteps, FillSteps
  <2>5. CASE t.op = "create"
    <3>1. t.kind \in {"artifact", "seal", "pair", "pairSeal"}
      BY <2>2, <2>3, <2>5 DEF WellFormed
    <3>2. QED
      BY <2>2, <2>5, <3>1 DEF StageSteps, FillSteps, SealSteps, PairSteps, RecordSteps
  <2>6. CASE t.op = "write"
    <3>1. t.kind \in {"record", "seal", "pair", "pairSeal"}
      BY <2>2, <2>3, <2>6 DEF WellFormed
    <3>2. QED
      BY <2>2, <2>6, <3>1 DEF StageSteps, ReserveSteps, SealSteps, PairSteps, RecordSteps
  <2>7. CASE t.op = "sync"
    BY <2>2, <2>3, <2>7 DEF StageSteps, ReserveSteps, SyncSteps, SealSteps, PairSteps, RecordSteps
  <2>8. CASE t.op = "full"
    <3>1. t.kind \in {"artifact", "pair", "pairSeal"}
      BY <2>2, <2>3, <2>8 DEF WellFormed
    <3>2. QED
      BY <2>2, <2>8, <3>1 DEF StageSteps, SyncSteps, PairSteps, RecordSteps
  <2>9. QED
    BY <2>3, <2>4, <2>5, <2>6, <2>7, <2>8
<1>3. Step("reserve", r, "record") \in StageSteps(r)
  BY DEF StageSteps, ReserveSteps
<1>4. QED
  BY <1>1, <1>2, <1>3

(* What a writer does and what pairs are made of. *)
LEMMA TheStages ==
  ASSUME NEW r \in Roots
  PROVE  LET b == Base(r, "record")
             c == Base(r, "pair")
         IN  /\ b \in Nat /\ c \in Nat
             /\ IsList(Staging(r), StageSteps(r), b + 10, b + 34)
             /\ IsList(Pairing(r), PairSteps(r), c + 41, c + 55)
<1> DEFINE b == Base(r, "record")
           c == Base(r, "pair")
<1>1. b \in Nat /\ c \in Nat
  BY TheNumbers
<1>2. /\ IsList(Reserving(r), ReserveSteps(r), b + 10, b + 14)
      /\ IsList(Filling(r), FillSteps(r), b + 21, b + 23)
      /\ IsList(Syncing(r), SyncSteps(r), b + 24, b + 25)
      /\ IsList(Sealing(r), SealSteps(r), b + 31, b + 34)
      /\ IsList(Recording(r, "pair"), RecordSteps(r, "pair"), c + 41, c + 45)
      /\ IsList(Recording(r, "pairSeal"), RecordSteps(r, "pairSeal"), c + 51, c + 55)
  BY TheBlocks
<1> HIDE DEF b, c
<1>3. IsList(Reserving(r) \o Filling(r), ReserveSteps(r) \cup FillSteps(r), b + 10, b + 23)
  BY <1>1, <1>2, Joined
<1>4. IsList(Reserving(r) \o Filling(r) \o Syncing(r), ReserveSteps(r) \cup FillSteps(r) \cup SyncSteps(r), b + 10, b + 25)
  BY <1>1, <1>2, <1>3, Joined
<1>5. IsList(Staging(r), StageSteps(r), b + 10, b + 34)
  BY <1>1, <1>2, <1>4, Joined DEF Staging, StageSteps
<1>6. IsList(Pairing(r), PairSteps(r), c + 41, c + 55)
  BY <1>1, <1>2, Joined DEF Pairing, PairSteps
<1>7. QED
  BY <1>1, <1>5, <1>6 DEF b, c

(* The list of a session. *)
LEMMA TheSession == IsList(Session, SessionSteps, 0, 300)
<1>1. IsList(Acquiring, Locking, 0, 1)
  <2>1. /\ Step("lock", First, "record") \in Steps /\ Step("lock", Second, "record") \in Steps
    BY TheSteps, TheRoots
  <2>2. Rank(Step("lock", First, "record")) = 0 /\ Rank(Step("lock", Second, "record")) = 1
    BY TheRoots DEF Rank, Step
  <2>3. QED
    BY <2>1, <2>2, Lists DEF Acquiring, Locking
<1>2. IsList(Staging("source"), StageSteps("source"), 10, 34)
  <2>1. Base("source", "record") = 0
    BY TheBases, TheKinds
  <2>2. QED
    BY <2>1, TheStages, TheRoots
<1>3. IsList(Staging("destination"), StageSteps("destination"), 60, 84)
  <2>1. Base("destination", "record") = 50
    BY TheBases, TheKinds
  <2>2. QED
    BY <2>1, TheStages, TheRoots
<1>4. IsList(Pairing(First), PairSteps(First), 141, 155) /\ IsList(Pairing(Second), PairSteps(Second), 241, 255)
  <2>1. Base(First, "pair") = 100 /\ Base(Second, "pair") = 200
    BY TheBases
  <2>2. QED
    BY <2>1, TheStages, TheRoots
<1>5. IsList(<<Returning>>, {Returning}, 300, 300)
  <2>1. Returning \in Steps /\ Rank(Returning) = 300
    BY TheSteps, TheRoots, TheOtherRanks DEF Returning, Step
  <2>2. QED
    BY <2>1, Lists
<1>6. IsList(Acquiring \o Staging("source"), Locking \cup StageSteps("source"), 0, 34)
  BY <1>1, <1>2, Joined
<1>7. IsList(Acquiring \o Staging("source") \o Staging("destination"), Locking \cup StageSteps("source") \cup StageSteps("destination"), 0, 84)
  BY <1>3, <1>6, Joined
<1>8. IsList(Acquiring \o Staging("source") \o Staging("destination") \o Pairing(First),
             Locking \cup StageSteps("source") \cup StageSteps("destination") \cup PairSteps(First), 0, 155)
  BY <1>4, <1>7, Joined
<1>9. IsList(Acquiring \o Staging("source") \o Staging("destination") \o Pairing(First) \o Pairing(Second),
             Locking \cup StageSteps("source") \cup StageSteps("destination") \cup PairSteps(First) \cup PairSteps(Second), 0, 255)
  BY <1>4, <1>8, Joined
<1>10. QED
  BY <1>5, <1>9, Joined DEF Session, SessionSteps, Returning

(* The lists of a ledger. *)
LEMMA TheOtherLists ==
  ASSUME NEW r \in Roots
  PROVE  /\ IsList(<<Step("lock", r, "record")>> \o Ledger(r), {Step("lock", r, "record"), Step("open", r, "record")}, 0, 300)
         /\ IsList(<<Step("scan", r, "record")>> \o Ledger(r), {Step("scan", r, "record"), Step("open", r, "record")}, 0, 300)
         /\ IsList(Reserving(r) \o Ledger(r), ReserveSteps(r) \cup {Step("open", r, "record")}, 0, 300)
         /\ IsList(Materializing(r) \o <<Step("sealed", r, "record")>>,
                   {Step("create", r, "artifact")} \cup SyncSteps(r) \cup SealSteps(r) \cup {Step("sealed", r, "record")}, 0, 300)
         /\ IsList(<<Step("staged", r, "artifact")>>, {Step("staged", r, "artifact")}, 301, 301)
<1> DEFINE b == Base(r, "record")
<1>1. b \in {0, 50}
  BY DEF Base, Lifecycle
<1>2. /\ IsList(Reserving(r), ReserveSteps(r), b + 10, b + 14)
      /\ IsList(Syncing(r), SyncSteps(r), b + 24, b + 25)
      /\ IsList(Sealing(r), SealSteps(r), b + 31, b + 34)
      /\ Rank(Step("create", r, "artifact")) = b + 21
  BY TheBlocks, TheNumbers
<1>3. /\ Step("lock", r, "record") \in Steps /\ Step("scan", r, "record") \in Steps /\ Step("open", r, "record") \in Steps
      /\ Step("sealed", r, "record") \in Steps /\ Step("create", r, "artifact") \in Steps /\ Step("staged", r, "artifact") \in Steps
  BY TheSteps
<1>4. /\ Rank(Step("lock", r, "record")) \in {0, 1} /\ Rank(Step("scan", r, "record")) = 2
      /\ Rank(Step("open", r, "record")) = 300 /\ Rank(Step("sealed", r, "record")) = 300 /\ Rank(Step("staged", r, "artifact")) = 301
  BY DEF Rank, Step, Writes, Creates
<1> HIDE DEF b
<1>5. /\ IsList(Ledger(r), {Step("open", r, "record")}, 300, 300)
      /\ IsList(<<Step("sealed", r, "record")>>, {Step("sealed", r, "record")}, 300, 300)
      /\ IsList(<<Step("staged", r, "artifact")>>, {Step("staged", r, "artifact")}, 301, 301)
      /\ IsList(<<Step("scan", r, "record")>>, {Step("scan", r, "record")}, 2, 2)
  BY <1>3, <1>4, Lists DEF Ledger
<1>6. IsList(<<Step("lock", r, "record")>>, {Step("lock", r, "record")}, 0, 1)
  <2>1. IsList(<<Step("lock", r, "record")>>, {Step("lock", r, "record")}, 0, 0) \/ IsList(<<Step("lock", r, "record")>>, {Step("lock", r, "record")}, 1, 1)
    BY <1>3, <1>4, Lists
  <2>2. QED
    BY <2>1 DEF IsList
<1>7. IsList(<<Step("lock", r, "record")>> \o Ledger(r), {Step("lock", r, "record"), Step("open", r, "record")}, 0, 300)
  <2>1. IsList(<<Step("lock", r, "record")>> \o Ledger(r), {Step("lock", r, "record")} \cup {Step("open", r, "record")}, 0, 300)
    BY <1>5, <1>6, Joined
  <2>2. {Step("lock", r, "record")} \cup {Step("open", r, "record")} = {Step("lock", r, "record"), Step("open", r, "record")}
    OBVIOUS
  <2>3. QED
    BY <2>1, <2>2
<1>8. ASSUME NEW list, NEW set, NEW low \in Nat, IsList(list, set, low, 300) PROVE IsList(list, set, 0, 300)
  <2>1. \A n \in low .. 300 : n \in 0 .. 300
    OBVIOUS
  <2>2. QED
    BY <1>8, <2>1 DEF IsList
<1>9. IsList(<<Step("scan", r, "record")>> \o Ledger(r), {Step("scan", r, "record"), Step("open", r, "record")}, 0, 300)
  <2>1. IsList(<<Step("scan", r, "record")>> \o Ledger(r), {Step("scan", r, "record")} \cup {Step("open", r, "record")}, 2, 300)
    BY <1>5, Joined
  <2>2. {Step("scan", r, "record")} \cup {Step("open", r, "record")} = {Step("scan", r, "record"), Step("open", r, "record")}
    OBVIOUS
  <2>3. QED
    BY <1>8, <2>1, <2>2
<1>10. IsList(Reserving(r) \o Ledger(r), ReserveSteps(r) \cup {Step("open", r, "record")}, 0, 300)
  <2>1. b + 10 \in Nat /\ b + 14 \in Nat /\ b + 10 <= b + 14 /\ b + 14 < 300
    BY <1>1
  <2>2. IsList(Reserving(r) \o Ledger(r), ReserveSteps(r) \cup {Step("open", r, "record")}, b + 10, 300)
    BY <1>2, <1>5, <2>1, Joined
  <2>3. QED
    BY <1>8, <2>1, <2>2
<1>11. IsList(Materializing(r) \o <<Step("sealed", r, "record")>>,
              {Step("create", r, "artifact")} \cup SyncSteps(r) \cup SealSteps(r) \cup {Step("sealed", r, "record")}, 0, 300)
  <2>1. /\ b + 21 \in Nat /\ b + 24 \in Nat /\ b + 25 \in Nat /\ b + 31 \in Nat /\ b + 34 \in Nat
        /\ b + 21 < b + 24 /\ b + 24 <= b + 25 /\ b + 21 <= b + 25 /\ b + 25 < b + 31 /\ b + 31 <= b + 34 /\ b + 21 <= b + 34 /\ b + 34 < 300
    BY <1>1
  <2>2. IsList(<<Step("create", r, "artifact")>>, {Step("create", r, "artifact")}, b + 21, b + 21)
    BY <1>2, <1>3, <2>1, Lists
  <2>3. IsList(<<Step("create", r, "artifact")>> \o Syncing(r), {Step("create", r, "artifact")} \cup SyncSteps(r), b + 21, b + 25)
    BY <1>2, <2>1, <2>2, Joined
  <2>4. IsList(Materializing(r), {Step("create", r, "artifact")} \cup SyncSteps(r) \cup SealSteps(r), b + 21, b + 34)
    BY <1>2, <2>1, <2>3, Joined DEF Materializing
  <2>5. IsList(Materializing(r) \o <<Step("sealed", r, "record")>>,
               {Step("create", r, "artifact")} \cup SyncSteps(r) \cup SealSteps(r) \cup {Step("sealed", r, "record")}, b + 21, 300)
    BY <1>5, <2>1, <2>4, Joined
  <2>6. QED
    BY <1>8, <2>1, <2>5
<1>12. QED
  BY <1>5, <1>7, <1>9, <1>10, <1>11

(* The list of the publication barrier. *)
LEMMA ThePreparing ==
  /\ Preparing \in Seq(Steps) /\ InOrder(Preparing)
  /\ Elements(Preparing) = {Step("lock", "destination", "record"), Step("validate", "destination", "artifact"),
                            Step("permit", "destination", "artifact")}
<1> DEFINE a == Step("lock", "destination", "record")
           b == Step("validate", "destination", "artifact")
           c == Step("permit", "destination", "artifact")
<1>1. a \in Steps /\ b \in Steps /\ c \in Steps
  BY TheSteps, TheRoots
<1>2. a.op = "lock" /\ b.op = "validate" /\ c.op = "permit"
  BY DEF Step
<1>3. Preparing = <<a, b, b, c>>
  BY DEF Preparing
<1> HIDE DEF a, b, c
<1>4. Rank(a) \in {0, 1} /\ Rank(b) = 302 /\ Rank(c) = 303
  BY <1>1, <1>2, TheOtherRanks
<1>5. Before(a, b) /\ Before(a, c) /\ Before(b, b) /\ Before(b, c)
  BY <1>2, <1>4 DEF Before
<1>6. /\ <<a, b, b, c>> \in Seq(Steps) /\ DOMAIN <<a, b, b, c>> = {1, 2, 3, 4}
      /\ <<a, b, b, c>>[1] = a /\ <<a, b, b, c>>[2] = b /\ <<a, b, b, c>>[3] = b /\ <<a, b, b, c>>[4] = c
  BY <1>1
<1>7. InOrder(<<a, b, b, c>>)
  BY <1>5, <1>6 DEF InOrder
<1>8. Elements(<<a, b, b, c>>) = {a, b, c}
  BY <1>6 DEF Elements
<1>9. QED
  BY <1>3, <1>6, <1>7, <1>8 DEF a, b, c

-----------------------------------------------------------------------------
(* A helper takes the first step of its list.                                 *)

(* Steps are told apart by their parts. *)
LEMMA StepsDiffer ==
  \A op, q, k, p, r, l : Step(op, q, k) = Step(p, r, l) <=> op = p /\ q = r /\ k = l
<1> SUFFICES ASSUME NEW op, NEW q, NEW k, NEW p, NEW r, NEW l, Step(op, q, k) = Step(p, r, l)
             PROVE  op = p /\ q = r /\ k = l
  OBVIOUS
<1>1. /\ Step(op, q, k).op = op /\ Step(op, q, k).root = q /\ Step(op, q, k).kind = k
      /\ Step(p, r, l).op = p /\ Step(p, r, l).root = r /\ Step(p, r, l).kind = l
  BY DEF Step
<1>2. QED
  BY <1>1

(* The first step of a list, and what comes after it. *)
LEMMA AtHead ==
  ASSUME NEW h \in Helpers, Listed(h), ~Idle(h)
  PROVE  /\ Head(todo[h]) \in Steps /\ Head(todo[h]) \in Ahead(h)
         /\ Head(todo[h]) = Step(Head(todo[h]).op, Root(h), Kind(h))
         /\ Head(todo[h]).op \in Operations /\ Root(h) \in Roots /\ Kind(h) \in Kinds /\ WellFormed(Head(todo[h]))
         /\ \A u \in Ahead(h) : u \in Steps /\ (u = Head(todo[h]) \/ Before(Head(todo[h]), u))
         /\ \A u \in Steps : Rank(u) <= Rank(Head(todo[h])) /\ u # Head(todo[h]) /\ u.op # "validate" => u \notin Ahead(h)
<1>1. todo[h] \in Seq(Steps) /\ InOrder(todo[h]) /\ todo[h] # <<>>
  BY DEF Listed, Idle
<1>2. PICK list : list = todo[h]
  OBVIOUS
<1>3. list \in Seq(Steps) /\ InOrder(list) /\ list # <<>>
  BY <1>1, <1>2
<1>4. /\ Head(list) \in Steps /\ Elements(list) = {Head(list)} \cup Elements(Tail(list))
      /\ \A u \in Elements(Tail(list)) : Before(Head(list), u)
  BY <1>3, RestOfList
<1>5. ASSUME NEW u \in Elements(list) PROVE u \in Steps
  BY <1>3, <1>5 DEF Elements
<1>6. ASSUME NEW u \in Steps, Rank(u) <= Rank(Head(list)), u # Head(list), u.op # "validate" PROVE u \notin Elements(list)
  <2>1. Rank(u) \in Int /\ Rank(Head(list)) \in Int
    BY <1>4, TheOtherRanks
  <2>2. ~Before(Head(list), u)
    BY <1>6, <2>1 DEF Before
  <2>3. QED
    BY <1>4, <1>6, <2>2
<1>7. Head(list) = Step(Head(list).op, Head(list).root, Head(list).kind)
  BY <1>4, TheOtherRanks
<1>8. /\ Head(list).op \in Operations /\ Head(list).root \in Roots /\ Head(list).kind \in Kinds /\ WellFormed(Head(list))
  BY <1>4, TheOtherRanks
<1>9. QED
  BY <1>2, <1>4, <1>5, <1>6, <1>7, <1>8 DEF Ahead, Root, Kind

(* A helper that proceeds drops the first step, and the rest is behind it. *)
LEMMA Proceeding ==
  ASSUME Types, NEW h \in Helpers, Listed(h), ~Idle(h), Proceeds(h)
  PROVE  /\ todo' \in [Helpers -> Seq(Steps)] /\ InOrder(todo'[h])
         /\ \A g \in Helpers \ {h} : todo'[g] = todo[g]
         /\ Ahead(h) = Ahead(h)' \cup {Head(todo[h])}
         /\ Head(todo[h]).op # "validate" => Head(todo[h]) \notin Ahead(h)'
         /\ \A u \in Ahead(h)' : Before(Head(todo[h]), u)
<1>1. todo[h] \in Seq(Steps) /\ InOrder(todo[h]) /\ todo[h] # <<>>
  BY DEF Listed, Idle
<1>2. PICK list : list = todo[h]
  OBVIOUS
<1>3. list \in Seq(Steps) /\ InOrder(list) /\ list # <<>>
  BY <1>1, <1>2
<1>4. /\ Tail(list) \in Seq(Steps) /\ InOrder(Tail(list)) /\ Head(list) \in Steps
      /\ Elements(list) = {Head(list)} \cup Elements(Tail(list))
      /\ \A u \in Elements(Tail(list)) : Before(Head(list), u)
  BY <1>3, RestOfList
<1>5. todo' = [todo EXCEPT ![h] = Tail(list)] /\ todo \in [Helpers -> Seq(Steps)]
  BY <1>2 DEF Proceeds, Types
<1>6. todo' \in [Helpers -> Seq(Steps)] /\ todo'[h] = Tail(list) /\ \A g \in Helpers \ {h} : todo'[g] = todo[g]
  BY <1>4, <1>5
<1>7. Head(list).op # "validate" => Head(list) \notin Elements(Tail(list))
  <2>1. Head(list) \in Steps
    BY <1>4
  <2>2. Rank(Head(list)) \in 0 .. 303
    BY <2>1, TheOtherRanks
  <2>3. ~(Rank(Head(list)) < Rank(Head(list)))
    BY <2>2
  <2>4. Before(Head(list), Head(list)) => Head(list).op = "validate"
    BY <2>3 DEF Before
  <2>5. QED
    BY <1>4, <2>4
<1>8. Ahead(h)' = Elements(Tail(list)) /\ Ahead(h) = Elements(list)
  BY <1>2, <1>6 DEF Ahead
<1>9. QED
  BY <1>2, <1>4, <1>6, <1>7, <1>8

(* Who acts has what it acts on. *)
LEMMA TheWorker ==
  ASSUME Types, NEW h \in Helpers, Listed(h), ~Idle(h), Head(todo[h]).op \in Holds
  PROVE  /\ Works(h, Root(h)) /\ Root(h) \in held[h]
         /\ InSession(h) => held[h] = Roots
         /\ Head(todo[h]).op \in Writes => run[h].ids[Root(h)] \in Ids /\ Has(h, Root(h))
         /\ Kind(h) # "record" => ~IsOpen(h, Root(h))
         /\ Head(todo[h]).op \in {"copy", "copyRest"} \/ Kind(h) \in Lifecycle => InSession(h)
<1>1. PICK t : t = Head(todo[h])
  OBVIOUS
<1>2. /\ t \in Steps /\ t \in Ahead(h) /\ t.op \in Holds /\ t.root = Root(h) /\ t.kind = Kind(h) /\ t.root \in Roots
      /\ t = Step(t.op, t.root, t.kind) /\ WellFormed(t) /\ t.kind \in Kinds
  BY <1>1, AtHead, TheOtherRanks DEF Root, Kind
<1>3. \A u \in Steps : Rank(u) <= Rank(t) /\ u # t /\ u.op # "validate" => u \notin Ahead(h)
  BY <1>1, AtHead
<1>4. Rank(t) >= 2
  BY <1>2, TheOtherRanks DEF Holds
<1>5. \A r \in Roots : Step("lock", r, "record") \notin Ahead(h)
  <2> SUFFICES ASSUME NEW r \in Roots PROVE Step("lock", r, "record") \notin Ahead(h)
    OBVIOUS
  <2>1. Step("lock", r, "record") \in Steps /\ Step("lock", r, "record").op = "lock"
    BY TheSteps DEF Step
  <2>2. Rank(Step("lock", r, "record")) \in {0, 1}
    BY <2>1, TheOtherRanks
  <2>3. t.op # "lock"
    BY <1>2 DEF Holds, Writes, Creates
  <2>4. Rank(t) \in Int /\ Rank(Step("lock", r, "record")) <= Rank(t)
    BY <1>2, <1>4, <2>2, TheOtherRanks
  <2>5. QED
    BY <1>3, <2>1, <2>3, <2>4
<1>6. /\ \A r \in Roots : Works(h, r) => r \in held[h] \/ Step("lock", r, "record") \in Ahead(h)
      /\ Works(h, t.root)
      /\ t.op \in {"copy", "copyRest"} \/ t.kind \in Lifecycle => InSession(h)
      /\ t.op \in Writes => Step("reserve", t.root, "record") \in Ahead(h) \/ run[h].ids[t.root] # NoId
      /\ IsOpen(h, t.root) => t.kind = "record"
  BY <1>2 DEF Listed
<1>7. t.root \in held[h] /\ (InSession(h) => held[h] = Roots)
  <2>1. held[h] \subseteq Roots
    BY DEF Types
  <2>2. InSession(h) => \A r \in Roots : Works(h, r)
    BY DEF Works
  <2>3. QED
    BY <1>2, <1>5, <1>6, <2>1, <2>2
<1>8. t.op \in Writes => run[h].ids[t.root] \in Ids
  <2> SUFFICES ASSUME t.op \in Writes PROVE run[h].ids[t.root] \in Ids
    OBVIOUS
  <2>1. Step("reserve", t.root, "record") \in Steps /\ "reserve" \notin Writes /\ Step("reserve", t.root, "record").op = "reserve"
    BY <1>2, TheSteps DEF Writes, Creates, Step
  <2>2. Rank(Step("reserve", t.root, "record")) < Rank(t)
    <3>1. CASE t.kind = "record"
      <4>1. Turn("reserve") < Turn(t.op)
        <5>1. t.op \in {"copy", "copyRest", "create", "write", "sync", "full"}
          BY DEF Writes, Creates
        <5>2. QED
          BY <5>1, TheTurns
      <4>2. Rank(Step("reserve", t.root, "record")) < Rank(Step(t.op, t.root, "record"))
        BY <1>2, <4>1, TheOrder, TheKinds
      <4>3. QED
        BY <1>2, <3>1, <4>2
    <3>2. CASE t.kind # "record"
      <4>1. Place("record") < Place(t.kind)
        BY <1>2, <3>2, ThePlaces, TheKinds
      <4>2. Rank(Step("reserve", t.root, "record")) < Rank(Step(t.op, t.root, t.kind))
        BY <1>2, <4>1, TheOrder, TheKinds
      <4>3. QED
        BY <1>2, <4>2
    <3>3. QED
      BY <3>1, <3>2
  <2>3. Rank(t) \in Int /\ Rank(Step("reserve", t.root, "record")) \in Int
    BY <1>2, <2>1, TheOtherRanks
  <2>4. Step("reserve", t.root, "record") \notin Ahead(h)
    BY <1>3, <2>1, <2>2, <2>3
  <2>5. run[h].ids[t.root] # NoId /\ run[h].ids \in [Roots -> Ids \cup {NoId}]
    BY <1>6, <2>4 DEF Types
  <2>6. QED
    BY <1>2, <2>5
<1>9. t.op \in Writes => Has(h, t.root)
  BY <1>6, <1>8, StagingAssumption DEF Has
<1>10. QED
  BY <1>1, <1>2, <1>6, <1>7, <1>8, <1>9

(* What is left of a list as long as no reservation begins or ends. *)
LEMMA SameMarks ==
  ASSUME Types, NEW h \in Helpers, Listed(h), ~Idle(h), Proceeds(h),
         Head(todo[h]).op \in Writes \cup {"lock", "scan", "validate", "reserve"}
  PROVE  /\ InSession(h)' = InSession(h)
         /\ \A r \in Roots : IsOpen(h, r)' = IsOpen(h, r) /\ Works(h, r)' = Works(h, r)
<1>1. PICK t : t = Head(todo[h])
  OBVIOUS
<1>2. t.op \notin {"return", "open", "sealed"}
  BY <1>1 DEF Writes, Creates
<1>3. \A u : u.op \in {"return", "open", "sealed"} => (u \in Ahead(h)' <=> u \in Ahead(h))
  BY <1>1, <1>2, Proceeding
<1>4. Returning.op = "return" /\ \A r \in Roots : Step("open", r, "record").op = "open" /\ Step("sealed", r, "record").op = "sealed"
  BY DEF Returning, Step
<1>5. Returning \in Ahead(h)' <=> Returning \in Ahead(h)
  BY <1>3, <1>4
<1>6. \A r \in Roots : /\ Step("open", r, "record") \in Ahead(h)' <=> Step("open", r, "record") \in Ahead(h)
                       /\ Step("sealed", r, "record") \in Ahead(h)' <=> Step("sealed", r, "record") \in Ahead(h)
  BY <1>3, <1>4
<1>7. QED
  BY <1>5, <1>6 DEF InSession, IsOpen, Works

(* A root is written into after its reservation. *)
LEMMA ReservationsFirst ==
  ASSUME NEW r \in Roots, NEW u \in Wanted(r)
  PROVE  Rank(Step("reserve", r, "record")) < Rank(u)
<1>1. u \in Steps /\ u.root = r /\ u.op \in Writes
  BY DEF Wanted
<1>2. u = Step(u.op, r, u.kind) /\ u.kind \in Kinds
  BY <1>1, TheOtherRanks
<1>3. Turn("reserve") < Turn(u.op)
  <2>1. u.op \in {"copy", "copyRest", "create", "write", "sync", "full"}
    BY <1>1 DEF Writes, Creates
  <2>2. QED
    BY <2>1, TheTurns
<1>4. u.kind # "record" => Place("record") < Place(u.kind)
  BY <1>2, ThePlaces, TheKinds
<1>5. Rank(Step("reserve", r, "record")) < Rank(Step(u.op, r, u.kind))
  BY <1>1, <1>2, <1>3, <1>4, TheOrder, TheKinds
<1>6. QED
  BY <1>2, <1>5

(* A list stays in order when its helper proceeds. *)
LEMMA ListedProceeds ==
  ASSUME Types, NEW h \in Helpers, Listed(h), ~Idle(h), Proceeds(h),
         Head(todo[h]).op \in Writes \cup {"lock", "scan", "validate"},
         run' = run, source' = source,
         held[h] \subseteq held'[h], Head(todo[h]).op = "lock" => Root(h) \in held'[h],
         slots[h] \subseteq slots'[h], Head(todo[h]).op = "sync" /\ Kind(h) = "record" => slots'[h] # {}
  PROVE  Listed(h)'
<1>1. PICK t : t = Head(todo[h])
  OBVIOUS
<1>2. /\ t \in Steps /\ t.op \in Writes \cup {"lock", "scan", "validate"} /\ t.root = Root(h) /\ t.kind = Kind(h)
      /\ t = Step(t.op, t.root, t.kind) /\ t.kind \in Kinds /\ t.root \in Roots /\ WellFormed(t)
  BY <1>1, AtHead, TheOtherRanks DEF Root, Kind
<1>3. /\ todo' \in [Helpers -> Seq(Steps)] /\ InOrder(todo'[h])
      /\ Ahead(h) = Ahead(h)' \cup {t}
      /\ \A u \in Ahead(h)' : Before(t, u)
  BY <1>1, Proceeding
<1>4. InSession(h)' = InSession(h) /\ \A r \in Roots : IsOpen(h, r)' = IsOpen(h, r) /\ Works(h, r)' = Works(h, r)
  BY SameMarks
<1>5. \A r \in Roots : Step("reserve", r, "record") \in Ahead(h)' <=> Step("reserve", r, "record") \in Ahead(h)
  <2>1. t.op # "reserve"
    BY <1>2 DEF Writes, Creates
  <2>2. \A r \in Roots : Step("reserve", r, "record").op = "reserve"
    BY DEF Step
  <2>3. QED
    BY <1>3, <2>1, <2>2
<1>6. \A r \in Roots : Step("reserve", r, "record") \in Ahead(h)' => t \notin Wanted(r)
  <2> SUFFICES ASSUME NEW r \in Roots, Step("reserve", r, "record") \in Ahead(h)', t \in Wanted(r) PROVE FALSE
    OBVIOUS
  <2>1. Rank(Step("reserve", r, "record")) < Rank(t)
    BY ReservationsFirst
  <2>2. Step("reserve", r, "record") \in Steps /\ t \in Steps /\ Step("reserve", r, "record").op = "reserve"
    BY <1>2, TheSteps DEF Step
  <2>3. Rank(Step("reserve", r, "record")) \in 0 .. 303 /\ Rank(t) \in 0 .. 303
    BY <2>2, TheOtherRanks
  <2>4. Before(t, Step("reserve", r, "record"))
    BY <1>3
  <2>5. Rank(t) < Rank(Step("reserve", r, "record"))
    BY <2>2, <2>4 DEF Before
  <2>6. PICK m \in 0 .. 303 : m = Rank(Step("reserve", r, "record"))
    BY <2>3
  <2>7. PICK n \in 0 .. 303 : n = Rank(t)
    BY <2>3
  <2>8. m < n /\ n < m
    BY <2>1, <2>5, <2>6, <2>7
  <2>9. QED
    BY <2>8
<1>7. ASSUME NEW u \in Ahead(h)'
      PROVE  /\ u.root \in Roots
             /\ u.op \in Holds => Works(h, u.root)'
             /\ u.op \in {"copy", "copyRest", "return"} \/ u.kind \in Lifecycle => InSession(h)'
             /\ u.op \in Writes => (Step("reserve", u.root, "record") \in Ahead(h) \/ run[h].ids[u.root] # NoId)'
             /\ u.op = "reserve" => /\ (run[h].ids[u.root] = NoId /\ run[h].header \in Headers)'
                                    /\ (IsOpen(h, u.root) \/ InSession(h))'
                                    /\ ({Step("write", u.root, "record"), Step("sync", u.root, "record")} \subseteq Ahead(h))'
             /\ u.op = "scan" => (run[h].ids[u.root] = NoId)' /\ IsOpen(h, u.root)'
             /\ IsOpen(h, u.root)' => u.kind = "record"
  <2>1. u \in Ahead(h) /\ u \in Steps
    BY <1>3, AtHead
  <2>2. u.root \in Roots /\ u = Step(u.op, u.root, u.kind) /\ WellFormed(u)
    BY <2>1, TheOtherRanks
  <2>3. /\ u.op \in Holds => Works(h, u.root)
        /\ u.op \in {"copy", "copyRest", "return"} \/ u.kind \in Lifecycle => InSession(h)
        /\ u.op \in Writes => Step("reserve", u.root, "record") \in Ahead(h) \/ run[h].ids[u.root] # NoId
        /\ u.op = "reserve" => /\ run[h].ids[u.root] = NoId /\ run[h].header \in Headers
                               /\ IsOpen(h, u.root) \/ InSession(h)
                               /\ {Step("write", u.root, "record"), Step("sync", u.root, "record")} \subseteq Ahead(h)
        /\ u.op = "scan" => run[h].ids[u.root] = NoId /\ IsOpen(h, u.root)
        /\ IsOpen(h, u.root) => u.kind = "record"
    BY <2>1 DEF Listed
  <2>4. ASSUME u.op = "reserve"
        PROVE  {Step("write", u.root, "record"), Step("sync", u.root, "record")} \subseteq Ahead(h)'
    <3>1. u = Step("reserve", u.root, "record")
      BY <2>2, <2>4 DEF WellFormed
    <3>2. t \notin Wanted(u.root)
      BY <1>6, <2>2, <3>1
    <3>3. Step("write", u.root, "record") \in Wanted(u.root) /\ Step("sync", u.root, "record") \in Wanted(u.root)
      BY <2>2, TheSteps, TheKinds DEF Wanted, Writes, Creates, Step
    <3>4. QED
      BY <1>3, <2>3, <2>4, <3>2, <3>3
  <2>5. QED
    BY <1>4, <1>5, <2>2, <2>3, <2>4
<1>8. ASSUME NEW r \in Roots
      PROVE  /\ Works(h, r)' => (r \in held[h] \/ Step("lock", r, "record") \in Ahead(h))'
             /\ IsOpen(h, r)' => ~InSession(h)'
             /\ IsOpen(h, r)' /\ (run[h].ids[r] # NoId)' /\ (Step("sync", r, "record") \notin Ahead(h))' => (slots[h] # {})'
  <2>1. /\ Works(h, r) => r \in held[h] \/ Step("lock", r, "record") \in Ahead(h)
        /\ IsOpen(h, r) => ~InSession(h)
        /\ IsOpen(h, r) /\ run[h].ids[r] # NoId /\ Step("sync", r, "record") \notin Ahead(h) => slots[h] # {}
    BY DEF Listed
  <2>2. t = Step("lock", r, "record") => r \in held'[h]
    BY <1>1, <1>2 DEF Step
  <2>3. t = Step("sync", r, "record") => slots'[h] # {}
    BY <1>1, <1>2 DEF Step
  <2>4. QED
    BY <1>3, <1>4, <2>1, <2>2, <2>3
<1>9. InSession(h)' => /\ (run[h].version \in Nat \ {0} /\ run[h].version <= source /\ run[h].header \in Headers)'
                       /\ \A r \in Roots :
                            /\ (Step("reserve", r, "record") \in Ahead(h) \/ run[h].ids[r] # NoId)'
                            /\ (Step("reserve", r, "record") \in Ahead(h))' => Wanted(r) \subseteq Ahead(h)'
  <2>1. InSession(h) => /\ run[h].version \in Nat \ {0} /\ run[h].version <= source /\ run[h].header \in Headers
                        /\ \A r \in Roots :
                             /\ Step("reserve", r, "record") \in Ahead(h) \/ run[h].ids[r] # NoId
                             /\ Step("reserve", r, "record") \in Ahead(h) => Wanted(r) \subseteq Ahead(h)
    BY DEF Listed
  <2>2. QED
    BY <1>3, <1>4, <1>5, <1>6, <2>1
<1>10. (todo[h] \in Seq(Steps))' /\ InOrder(todo[h])'
  BY <1>3
<1>11. QED
  BY <1>7, <1>8, <1>9, <1>10 DEF Listed

(* A helper whose list is not touched. *)
LEMMA ListedStays ==
  ASSUME Types, source' \in Nat, source <= source', NEW h \in Helpers, Listed(h),
         todo'[h] = todo[h], run'[h] = run[h], held'[h] = held[h], slots'[h] = slots[h]
  PROVE  Listed(h)'
<1>1. Ahead(h)' = Ahead(h)
  BY DEF Ahead
<1>2. InSession(h)' = InSession(h) /\ \A r \in Roots : IsOpen(h, r)' = IsOpen(h, r) /\ Works(h, r)' = Works(h, r)
  BY <1>1 DEF InSession, IsOpen, Works
<1>3. run[h].version \in Nat /\ source \in Nat
  BY DEF Types
<1>4. \A u \in Ahead(h) : u.root \in Roots
  <2>1. \A u \in Ahead(h) : u \in Steps
    BY DEF Listed, Ahead, Elements
  <2>2. QED
    BY <2>1, TheOtherRanks
<1>5. run[h].version <= source => run[h].version <= source'
  BY <1>3
<1>6. QED
  BY <1>1, <1>2, <1>4, <1>5 DEF Listed

(* What comes earlier in the order than the step being taken is done. *)
LEMMA Behind ==
  ASSUME NEW h \in Helpers, Listed(h), ~Idle(h), Head(todo[h]).op \in Writes \cup {"reserve"},
         NEW a \in Writes \cup {"reserve"}, NEW q \in Roots, NEW k \in Kinds,
         \/ q = Root(h) /\ Place(k) < Place(Kind(h))
         \/ q = Root(h) /\ k = Kind(h) /\ Turn(a) < Turn(Head(todo[h]).op)
         \/ k \notin Lifecycle /\ Kind(h) \in Lifecycle
         \/ q = "source" /\ Root(h) = "destination" /\ k \notin Lifecycle /\ Kind(h) \notin Lifecycle
         \/ q = First /\ Root(h) = Second /\ k \in Lifecycle /\ Kind(h) \in Lifecycle
  PROVE  Step(a, q, k) \notin Ahead(h)
<1>1. PICK t : t = Head(todo[h])
  OBVIOUS
<1>2. /\ t \in Steps /\ t = Step(t.op, Root(h), Kind(h)) /\ t.op \in Writes \cup {"reserve"} /\ Root(h) \in Roots /\ Kind(h) \in Kinds
      /\ \A u \in Ahead(h) : u \in Steps
      /\ \A u \in Steps : Rank(u) <= Rank(t) /\ u # t /\ u.op # "validate" => u \notin Ahead(h)
  BY <1>1, AtHead
<1>3. PICK r \in Roots, l \in Kinds, b \in Writes \cup {"reserve"} : r = Root(h) /\ l = Kind(h) /\ b = t.op
  BY <1>2
<1>4. Rank(Step(a, q, k)) < Rank(Step(b, r, l))
  BY <1>1, <1>3, TheOrder
<1>5. PICK m \in 10 .. 299 : m = Rank(Step(a, q, k))
  BY TheRankIsBounded
<1>6. PICK n \in 10 .. 299 : n = Rank(Step(b, r, l))
  BY TheRankIsBounded
<1>7. t = Step(b, r, l) /\ m < n /\ m <= n /\ m # n
  BY <1>2, <1>3, <1>4, <1>5, <1>6
<1>8. Step(a, q, k) # t /\ Step(a, q, k).op # "validate"
  BY <1>5, <1>6, <1>7 DEF Step, Writes, Creates
<1>9. QED
  BY <1>2, <1>5, <1>6, <1>7, <1>8

(* Nothing is ahead of a helper at the end of its list. *)
LEMMA AllBehind ==
  ASSUME NEW h \in Helpers, Listed(h), ~Idle(h), Head(todo[h]).op \in {"return", "open", "sealed"},
         NEW u \in Steps, u.op \in Writes \cup {"reserve", "lock", "scan"}
  PROVE  u \notin Ahead(h)
<1>1. PICK t : t = Head(todo[h])
  OBVIOUS
<1>2. /\ t \in Steps /\ t.op \in {"return", "open", "sealed"}
      /\ \A v \in Steps : Rank(v) <= Rank(t) /\ v # t /\ v.op # "validate" => v \notin Ahead(h)
  BY <1>1, AtHead
<1>3. Rank(t) = 300
  BY <1>2, TheOtherRanks
<1>4. Rank(u) \in 0 .. 299
  BY TheOtherRanks
<1>5. Rank(u) <= Rank(t) /\ u # t /\ u.op # "validate"
  BY <1>3, <1>4 DEF Writes, Creates
<1>6. QED
  BY <1>2, <1>5

(* Work whose root, and whose steps that count, are left alone. *)
SameSteps(h) ==
  /\ \A u : u.op \in Writes => (u \in Ahead(h)' <=> u \in Ahead(h))
  /\ InSession(h)' = InSession(h)
  /\ \A r \in Roots : IsOpen(h, r)' = IsOpen(h, r) /\ Works(h, r)' = Works(h, r)

(* As long as the steps ahead are the same, so is what is done. *)
LEMMA SameSets ==
  ASSUME NEW h \in Helpers, SameSteps(h), NEW r \in Roots
  PROVE  /\ \A op \in Writes, k \in Kinds : /\ Step(op, r, k) \in Ahead(h)' <=> Step(op, r, k) \in Ahead(h)
                                            /\ Done(h, op, r, k)' = Done(h, op, r, k)
         /\ \A k \in Kinds : (Putting(r, k) \cap Ahead(h))' = Putting(r, k) \cap Ahead(h)
<1>1. \A op, k : Step(op, r, k).op = op
  BY DEF Step
<1>2. \A op \in Writes, k \in Kinds : Step(op, r, k) \in Ahead(h)' <=> Step(op, r, k) \in Ahead(h)
  BY <1>1 DEF SameSteps
<1>3. \A op \in Writes, k \in Kinds : Done(h, op, r, k)' = Done(h, op, r, k)
  BY <1>2 DEF SameSteps, Done
<1>4. ASSUME NEW k \in Kinds PROVE (Putting(r, k) \cap Ahead(h))' = Putting(r, k) \cap Ahead(h)
  BY <1>2 DEF Putting, Writes
<1>5. QED
  BY <1>2, <1>3, <1>4

(* What a helper knows of a file that nobody touched. *)
LEMMA SameFileWork ==
  ASSUME NEW h \in Helpers, SameSteps(h), run'[h] = run[h], NEW r \in Roots, fs'[r] = fs[r], InSession(h) => fs' = fs,
         NEW k \in Kinds, FileOf(h, r, k)
  PROVE  FileOf(h, r, k)'
<1>1. \A l \in Kinds : \A i : /\ Now(r, l, i)' = Now(r, l, i) /\ Flushed(r, l, i)' = Flushed(r, l, i)
                              /\ Durable(r, l, i)' = Durable(r, l, i) /\ MayBeFound(r, l, i)' = MayBeFound(r, l, i)
  BY DEF Now, Flushed, Durable, MayBeFound
<1>2. /\ \A op \in Writes : /\ Step(op, r, k) \in Ahead(h)' <=> Step(op, r, k) \in Ahead(h)
                            /\ Done(h, op, r, k)' = Done(h, op, r, k)
      /\ (Putting(r, k) \cap Ahead(h))' = Putting(r, k) \cap Ahead(h)
  BY SameSets
<1>3. "create" \in Writes /\ "write" \in Writes /\ "sync" \in Writes /\ "full" \in Writes
  BY DEF Writes, Creates
<1>4. IsOpen(h, r)' = IsOpen(h, r)
  BY DEF SameSteps
<1>5. Done(h, "write", r, k) /\ k # "artifact" => Expected(h, r, k)' = Expected(h, r, k)
  <2>1. CASE k \in {"record", "seal"}
    BY <1>1, <2>1, TheKinds DEF Expected
  <2>2. CASE k \in Lifecycle
    <3>1. Done(h, "write", r, k) => fs' = fs
      BY <2>2 DEF Done
    <3>2. Done(h, "write", r, k) => Manifest(h)' = Manifest(h)
      BY <3>1 DEF Manifest, Now
    <3>3. QED
      BY <2>2, <3>2, TheKinds DEF Expected
  <2>3. QED
    BY <2>1, <2>2, TheKinds
<1>6. PICK i : i = run[h].ids[r]
  OBVIOUS
<1>7. (run[h].ids[r])' = i
  BY <1>6
<1>8. QED
  BY <1>1, <1>2, <1>3, <1>4, <1>5, <1>6, <1>7 DEF FileOf

(* What a helper knows of a root that nobody touched. *)
LEMMA SameWork ==
  ASSUME Types, Disk, source' \in Nat, source <= source',
         NEW h \in Helpers, SameSteps(h), run'[h] = run[h],
         NEW r \in Roots, fs'[r] = fs[r], InSession(h) => fs' = fs,
         r \in held[h] => r \in held'[h], held[h] = Roots => held'[h] = Roots,
         WorkOf(h, r)
  PROVE  WorkOf(h, r)'
<1>1. Has(h, r)' = Has(h, r)
  BY DEF SameSteps, Has
<1>2. SUFFICES ASSUME Has(h, r) PROVE (ReservationOf(h, r) /\ (\A k \in Kinds : FileOf(h, r, k)) /\ (InSession(h) => DataOf(h, r)))'
  BY <1>1 DEF WorkOf
<1>3. ReservationOf(h, r) /\ (\A k \in Kinds : FileOf(h, r, k)) /\ (InSession(h) => DataOf(h, r))
  BY <1>2 DEF WorkOf
<1>4. InSession(h)' = InSession(h)
  BY DEF SameSteps
<1>5. \A l \in Kinds : \A i : Now(r, l, i)' = Now(r, l, i) /\ May(r, l, i)' = May(r, l, i) /\ MayBeFound(r, l, i)' = MayBeFound(r, l, i)
  BY DEF Now, May, MayBeFound
<1>6. ReservationOf(h, r)'
  BY <1>3, <1>4, <1>5, TheKinds DEF ReservationOf, Used
<1>7. \A k \in Kinds : FileOf(h, r, k)'
  BY <1>3, SameFileWork
<1>8. InSession(h)' => DataOf(h, r)'
  <2>1. SUFFICES ASSUME InSession(h) PROVE DataOf(h, r)'
    BY <1>4
  <2>2. DataOf(h, r)
    BY <1>3, <2>1
  <2>3. \A op \in {"copy", "copyRest", "sync"} : Step(op, r, "artifact") \in Ahead(h)' <=> Step(op, r, "artifact") \in Ahead(h)
    BY SameSets, TheKinds DEF Writes, Creates
  <2>4. PICK c : c = Now(r, "artifact", run[h].ids[r])
    OBVIOUS
  <2>5. Now(r, "artifact", run[h].ids[r])' = c
    BY <1>5, <2>4, TheKinds
  <2>6. run[h].ids[r] \in Ids
    BY <1>3 DEF ReservationOf
  <2>7. c \in Contents
    BY <2>4, <2>6, TheFile, TheKinds
  <2>8. c.is = "artifact" => \A n \in DOMAIN c.data : c.data[n] \in Nat /\ (c.data[n] <= source => c.data[n] <= source')
    <3>1. c.is = "artifact" => c.data \in Seq(Nat)
      BY <2>7, WhatIs
    <3>2. c.is = "artifact" => \A n \in DOMAIN c.data : c.data[n] \in Nat
      BY <3>1
    <3>3. source \in Nat
      BY DEF Types
    <3>4. QED
      BY <3>2, <3>3
  <2>9. QED
    BY <2>2, <2>3, <2>4, <2>5, <2>8 DEF DataOf
<1>9. QED
  BY <1>6, <1>7, <1>8

-----------------------------------------------------------------------------
(* A helper writes a file.                                                    *)

AtFile(h, r, l, i) == r \in Roots /\ l \in Kinds /\ i \in Ids /\ r = Root(h) /\ l = Kind(h) /\ i = Id(h)

PutsIn(h, r, l, i, c) ==
  /\ AtFile(h, r, l, i)
  /\ Head(todo[h]).op \in Creates
  /\ c \in Contents /\ c # Gone /\ Put(r, l, i, c)
  /\ Proceeds(h)
  /\ run' = run /\ source' = source /\ held' = held
  /\ Head(todo[h]).op = "create" => Now(r, l, i) = Gone
  /\ Head(todo[h]).op = "write" => c = Expected(h, r, l) /\ l # "artifact"
  /\ Head(todo[h]).op \in {"copy", "copyRest"} => l = "artifact"
  /\ l = "artifact" => c.is = "artifact"

(* A write changes nothing of what is ahead on other files. *)
LEMMA OtherSets ==
  ASSUME Types, NEW h \in Helpers, Listed(h), ~Idle(h), Proceeds(h), Head(todo[h]).op \in Writes,
         NEW q \in Roots, NEW k \in Kinds, ~(q = Root(h) /\ k = Kind(h))
  PROVE  /\ \A op \in Writes : /\ Step(op, q, k) \in Ahead(h)' <=> Step(op, q, k) \in Ahead(h)
                               /\ Done(h, op, q, k)' = Done(h, op, q, k)
         /\ (Putting(q, k) \cap Ahead(h))' = Putting(q, k) \cap Ahead(h)
<1>1. PICK t : t = Head(todo[h])
  OBVIOUS
<1>2. t = Step(t.op, Root(h), Kind(h)) /\ Ahead(h) = Ahead(h)' \cup {t}
  BY <1>1, AtHead, Proceeding
<1>3. \A op : Step(op, q, k) # t
  BY <1>2, StepsDiffer
<1>4. \A op : Step(op, q, k) \in Ahead(h)' <=> Step(op, q, k) \in Ahead(h)
  BY <1>2, <1>3
<1>5. InSession(h)' = InSession(h) /\ IsOpen(h, q)' = IsOpen(h, q)
  BY SameMarks
<1>6. \A op \in Writes : Done(h, op, q, k)' = Done(h, op, q, k)
  BY <1>4, <1>5 DEF Done
<1>7. (Putting(q, k) \cap Ahead(h))' = Putting(q, k) \cap Ahead(h)
  BY <1>4 DEF Putting
<1>8. QED
  BY <1>4, <1>6, <1>7

(* What is known of the file that is written. *)
LEMMA TheWritten ==
  ASSUME Types, Disk, NEW h \in Helpers, Listed(h), ~Idle(h), Head(todo[h]).op \in Creates,
         NEW r \in Roots, NEW l \in Kinds, NEW i \in Ids, AtFile(h, r, l, i), WorkOf(h, r)
  PROVE  /\ run[h].ids[r] = i /\ Has(h, r) /\ ReservationOf(h, r)
         /\ \A k \in Kinds : FileOf(h, r, k)
         /\ \A k \in Kinds : Place(l) < Place(k) => ~MayBeFound(r, k, i)
         /\ ~Durable(r, l, i)
         /\ Flushed(r, l, i) => Now(r, l, i) = Gone
<1>1. PICK t : t = Head(todo[h])
  OBVIOUS
<1>2. t \in Ahead(h) /\ t = Step(t.op, r, l)
  BY <1>1, AtHead DEF AtFile
<1>3. Head(todo[h]).op \in Holds /\ Head(todo[h]).op \in Writes
  BY DEF Holds, Writes
<1>4. Has(h, r) /\ run[h].ids[r] = i
  BY <1>3, TheWorker DEF AtFile, Id
<1>5. ReservationOf(h, r) /\ \A k \in Kinds : FileOf(h, r, k)
  BY <1>4 DEF WorkOf
<1>6. t \in Putting(r, l)
  BY <1>1, <1>2 DEF Putting
<1>7. /\ \A k \in Kinds : Place(l) < Place(k) => ~MayBeFound(r, k, i)
      /\ ~Durable(r, l, i) /\ (Flushed(r, l, i) => Now(r, l, i) = Gone)
  BY <1>2, <1>4, <1>5, <1>6 DEF FileOf
<1>8. QED
  BY <1>4, <1>5, <1>7

(* A write reaches one file. *)
Elsewhere(r, l, i) ==
  \A q \in Roots, k \in Kinds, j \in Ids : ~(q = r /\ k = l /\ j = i) =>
    /\ Now(q, k, j)' = Now(q, k, j) /\ May(q, k, j)' = May(q, k, j) /\ (Flushed(q, k, j)' <=> Flushed(q, k, j))
    /\ (Durable(q, k, j)' <=> Durable(q, k, j)) /\ (MayBeFound(q, k, j)' <=> MayBeFound(q, k, j))

(* The same, of a helper that writes. *)
LEMMA WrittenElsewhere ==
  ASSUME Disk, NEW h \in Helpers, NEW r \in Roots, NEW l \in Kinds, NEW i \in Ids, NEW c, PutsIn(h, r, l, i, c)
  PROVE  Elsewhere(r, l, i) /\ Now(r, l, i)' = c /\ ~Durable(r, l, i)' /\ ~Flushed(r, l, i)'
<1>1. c \in Contents /\ c # Gone /\ Put(r, l, i, c)
  BY DEF PutsIn
<1>2. /\ Now(r, l, i)' = c /\ Flushed(r, l, i)' = FALSE /\ ~Durable(r, l, i)'
      /\ \A q \in Roots, k \in Kinds, j \in Ids : ~(q = r /\ k = l /\ j = i) => Kept(q, k, j)
  BY <1>1, PutMoves
<1>3. Elsewhere(r, l, i)
  BY <1>2, KeptFile DEF Elsewhere
<1>4. QED
  BY <1>2, <1>3

(* What the files of a request hold does not change when another is written. *)
LEMMA ExpectedStays ==
  ASSUME Types, Disk, NEW h \in Helpers, Listed(h), ~Idle(h),
         NEW r \in Roots, NEW l \in Kinds, NEW i \in Ids, NEW c, PutsIn(h, r, l, i, c), WorkOf(h, r),
         NEW q \in Roots, NEW k \in Kinds \ {"artifact"}, Has(h, q), WorkOf(h, q), Done(h, "write", q, k),
         (l # "artifact" /\ \A s \in Roots : run[h].ids[s] \in Ids) \/ Now(q, k, run[h].ids[q]) = Expected(h, q, k)
  PROVE  Expected(h, q, k)' = Expected(h, q, k)
<1>1. /\ \A s \in Roots, m \in Kinds, j \in Ids : ~(s = r /\ m = l /\ j = i) => Now(s, m, j)' = Now(s, m, j)
      /\ run' = run /\ AtFile(h, r, l, i) /\ Head(todo[h]).op \in Creates
  <2>1. run' = run /\ AtFile(h, r, l, i) /\ Head(todo[h]).op \in Creates
    BY DEF PutsIn
  <2>2. \A s \in Roots, m \in Kinds, j \in Ids : ~(s = r /\ m = l /\ j = i) => Now(s, m, j)' = Now(s, m, j)
    BY WrittenElsewhere DEF Elsewhere
  <2>3. QED
    BY <2>1, <2>2
<1>2. /\ run[h].ids[r] = i
      /\ \A m \in Kinds : Place(l) < Place(m) => ~MayBeFound(r, m, i)
      /\ ~Durable(r, l, i)
  BY <1>1, TheWritten
<1>3. run[h].ids[q] \in Ids /\ \A s \in Roots : run[h].ids[s] \in Ids \cup {NoId}
  BY DEF Has, Types
<1>4. CASE k = "record"
  BY <1>1, <1>4 DEF Expected
<1>5. CASE k = "seal"
  <2>1. Now(q, "artifact", run[h].ids[q])' = Now(q, "artifact", run[h].ids[q])
    <3>1. CASE ~(l = "artifact" /\ q = r)
      BY <1>1, <1>3, <3>1, TheKinds
    <3>2. CASE l = "artifact" /\ q = r
      <4>1. ~MayBeFound(r, "seal", i)
        BY <1>2, <3>2, ThePlaces, TheKinds
      <4>2. Now(r, "seal", i) = Gone
        BY <4>1, TheFile, TheKinds
      <4>3. Now(r, "seal", i) = Seal(run[h].header, Now(r, "artifact", i).data)
        BY <1>2, <1>5, <3>2 DEF Expected
      <4>4. FALSE
        BY <4>2, <4>3 DEF Seal, Gone
      <4>5. QED
        BY <4>4
    <3>3. QED
      BY <3>1, <3>2
  <2>2. (run[h].ids[q])' = run[h].ids[q] /\ (run[h].header)' = run[h].header
    BY <1>1
  <2>3. QED
    BY <1>5, <2>1, <2>2 DEF Expected
<1>6. CASE k \in Lifecycle
  <2>1. Expected(h, q, k) = Manifest(h)
    BY <1>6 DEF Expected, Lifecycle
  <2>2. Now(q, k, run[h].ids[q]) = Manifest(h) =>
          (\A s \in Roots : run[h].ids[s] \in Ids /\ Durable(s, "artifact", run[h].ids[s]))
    <3> SUFFICES ASSUME Now(q, k, run[h].ids[q]) = Manifest(h)
                 PROVE  \A s \in Roots : run[h].ids[s] \in Ids /\ Durable(s, "artifact", run[h].ids[s])
      OBVIOUS
    <3>1. k \in Kinds
      BY TheKinds
    <3>2. Manifest(h) \in May(q, k, run[h].ids[q])
      BY <1>3, <3>1, TheFile DEF FileOK
    <3>3. PICK pair : pair = Manifest(h)
      OBVIOUS
    <3>4. pair.is = "pair" /\ pair.ids = run[h].ids
      BY <3>3 DEF Manifest, Pair
    <3>5. Backed(pair)
      BY <1>3, <1>6, <3>2, <3>3, <3>4 DEF Disk, PairOK
    <3>6. pair \in Contents
      BY <1>3, <3>1, <3>2, <3>3, TheFile
    <3>7. pair.ids \in [Roots -> Ids]
      BY <3>4, <3>6, WhatIs
    <3>8. QED
      BY <3>4, <3>5, <3>7 DEF Backed
  <2>3. CASE l = "artifact"
    BY <1>2, <2>1, <2>2, <2>3
  <2>4. CASE l # "artifact"
    <3>1. \A s \in Roots : Now(s, "artifact", run[h].ids[s])' = Now(s, "artifact", run[h].ids[s])
      <4> SUFFICES ASSUME NEW s \in Roots PROVE Now(s, "artifact", run[h].ids[s])' = Now(s, "artifact", run[h].ids[s])
        OBVIOUS
      <4>1. run[h].ids[s] \in Ids
        BY <2>1, <2>2
      <4>2. QED
        BY <1>1, <2>4, <4>1, TheKinds
    <3>2. Manifest(h)' = Manifest(h)
      BY <1>1, <3>1 DEF Manifest
    <3>3. QED
      BY <1>6, <2>1, <3>2 DEF Expected, Lifecycle
  <2>5. QED
    BY <2>3, <2>4
<1>7. QED
  BY <1>4, <1>5, <1>6, TheKinds

(* What the writer knows of the files it does not write. *)
LEMMA PutFileWork ==
  ASSUME Types, Disk, NEW h \in Helpers, Listed(h), ~Idle(h),
         NEW r \in Roots, NEW l \in Kinds, NEW i \in Ids, NEW c, PutsIn(h, r, l, i, c), WorkOf(h, r),
         NEW q \in Roots, NEW k \in Kinds, Has(h, q), WorkOf(h, q), ~(q = r /\ k = l)
  PROVE  FileOf(h, q, k)'
<1>1. run' = run /\ AtFile(h, r, l, i) /\ Head(todo[h]).op \in Creates /\ Proceeds(h) /\ Elsewhere(r, l, i)
  BY WrittenElsewhere DEF PutsIn
<1>2. /\ run[h].ids[r] = i
      /\ \A m \in Kinds : Place(l) < Place(m) => ~MayBeFound(r, m, i)
      /\ ~Durable(r, l, i)
  BY <1>1, TheWritten
<1>3. PICK j : j = run[h].ids[q]
  OBVIOUS
<1>4. j \in Ids /\ (run[h].ids[q])' = j /\ FileOf(h, q, k) /\ (q = r => j = i)
  BY <1>1, <1>2, <1>3 DEF WorkOf, ReservationOf
<1>5. /\ \A op \in Writes : /\ Step(op, q, k) \in Ahead(h)' <=> Step(op, q, k) \in Ahead(h)
                            /\ Done(h, op, q, k)' = Done(h, op, q, k)
      /\ (Putting(q, k) \cap Ahead(h))' = Putting(q, k) \cap Ahead(h)
      /\ IsOpen(h, q)' = IsOpen(h, q)
  <2>1. Head(todo[h]).op \in Writes /\ ~(q = Root(h) /\ k = Kind(h))
    BY <1>1 DEF Writes, AtFile
  <2>2. IsOpen(h, q)' = IsOpen(h, q)
    BY <1>1, <2>1, SameMarks
  <2>3. QED
    BY <1>1, <2>1, <2>2, OtherSets
<1>6. "create" \in Writes /\ "write" \in Writes /\ "sync" \in Writes /\ "full" \in Writes
  BY DEF Writes, Creates
<1>7. \A m \in Kinds : ~(q = r /\ m = l) =>
         /\ Now(q, m, j)' = Now(q, m, j) /\ (Flushed(q, m, j)' <=> Flushed(q, m, j))
         /\ (Durable(q, m, j)' <=> Durable(q, m, j)) /\ (MayBeFound(q, m, j)' <=> MayBeFound(q, m, j))
  BY <1>1, <1>4 DEF Elsewhere
<1>8. (Putting(q, k) \cap Ahead(h))' # {} =>
         /\ \A m \in Kinds : Place(k) < Place(m) => ~MayBeFound(q, m, j)'
         /\ ~Durable(q, k, j)' /\ (Flushed(q, k, j)' => Now(q, k, j)' = Gone)
  <2> SUFFICES ASSUME Putting(q, k) \cap Ahead(h) # {}
               PROVE  /\ \A m \in Kinds : Place(k) < Place(m) => ~MayBeFound(q, m, j)'
                      /\ ~Durable(q, k, j)' /\ (Flushed(q, k, j)' => Now(q, k, j)' = Gone)
    BY <1>5
  <2>1. /\ \A m \in Kinds : Place(k) < Place(m) => ~MayBeFound(q, m, j)
        /\ ~Durable(q, k, j) /\ (Flushed(q, k, j) => Now(q, k, j) = Gone)
    BY <1>3, <1>4 DEF FileOf
  <2>2. ~(q = r /\ Place(k) < Place(l))
    <3> SUFFICES ASSUME q = r, Place(k) < Place(l) PROVE FALSE
      OBVIOUS
    <3>1. PICK a \in Creates : Step(a, q, k) \in Ahead(h)
      BY DEF Putting
    <3>2. a \in Writes \cup {"reserve"} /\ Head(todo[h]).op \in Writes \cup {"reserve"}
      BY <1>1 DEF Writes
    <3>3. q = Root(h) /\ Place(k) < Place(Kind(h))
      BY <1>1 DEF AtFile
    <3>4. QED
      BY <3>1, <3>2, <3>3, Behind
  <2>3. \A m \in Kinds : Place(k) < Place(m) => ~(q = r /\ m = l)
    BY <2>2
  <2>4. QED
    BY <1>7, <2>1, <2>3
<1>9. k # "artifact" /\ Done(h, "write", q, k)' => Now(q, k, j)' = Expected(h, q, k)'
  <2> SUFFICES ASSUME k # "artifact", Done(h, "write", q, k) PROVE Now(q, k, j)' = Expected(h, q, k)'
    BY <1>5, <1>6
  <2>1. Now(q, k, j) = Expected(h, q, k)
    BY <1>3, <1>4 DEF FileOf
  <2>2. Expected(h, q, k)' = Expected(h, q, k)
    BY <1>3, <2>1, ExpectedStays
  <2>3. QED
    BY <1>7, <2>1, <2>2
<1>10. k \in {"artifact", "pair", "pairSeal"} /\ Done(h, "full", q, k)' =>
           \A m \in Kinds : Place(m) <= Place(k) => Durable(q, m, j)'
  <2> SUFFICES ASSUME k \in {"artifact", "pair", "pairSeal"}, Done(h, "full", q, k), NEW m \in Kinds, Place(m) <= Place(k)
               PROVE  Durable(q, m, j)'
    BY <1>5, <1>6
  <2>1. Durable(q, m, j)
    BY <1>3, <1>4 DEF FileOf
  <2>2. ~(q = r /\ m = l)
    BY <1>2, <1>4, <2>1
  <2>3. QED
    BY <1>7, <2>1, <2>2
<1>11. Done(h, "sync", q, k)' => Flushed(q, k, j)' /\ Now(q, k, j)' # Gone
  BY <1>3, <1>4, <1>5, <1>6, <1>7 DEF FileOf
<1>12. /\ Step("create", q, k) \in Ahead(h)' => ~MayBeFound(q, k, j)'
       /\ k # "record" /\ IsOpen(h, q)' => ~MayBeFound(q, k, j)'
       /\ k = "artifact" /\ Done(h, "create", q, k)' => Now(q, k, j)'.is = "artifact"
  BY <1>3, <1>4, <1>5, <1>6, <1>7 DEF FileOf
<1>13. QED
  BY <1>4, <1>8, <1>9, <1>10, <1>11, <1>12 DEF FileOf

(* What the writer knows of the file it writes. *)
LEMMA PutThisFile ==
  ASSUME Types, Disk, NEW h \in Helpers, Listed(h), ~Idle(h),
         NEW r \in Roots, NEW l \in Kinds, NEW i \in Ids, NEW c, PutsIn(h, r, l, i, c), WorkOf(h, r)
  PROVE  FileOf(h, r, l)'
<1>1. /\ run' = run /\ AtFile(h, r, l, i) /\ Head(todo[h]).op \in Creates /\ Proceeds(h)
      /\ c \in Contents /\ c # Gone
      /\ Elsewhere(r, l, i) /\ Now(r, l, i)' = c /\ ~Durable(r, l, i)' /\ ~Flushed(r, l, i)'
  BY WrittenElsewhere DEF PutsIn
<1>2. /\ run[h].ids[r] = i /\ Has(h, r)
      /\ \A k \in Kinds : Place(l) < Place(k) => ~MayBeFound(r, k, i)
      /\ ~Durable(r, l, i) /\ (Flushed(r, l, i) => Now(r, l, i) = Gone)
      /\ FileOf(h, r, l)
  BY <1>1, TheWritten
<1>3. PICK t : t = Head(todo[h])
  OBVIOUS
<1>4. t = Step(t.op, r, l) /\ t.op \in Creates /\ Ahead(h) = Ahead(h)' \cup {t} /\ t \notin Ahead(h)' /\ Kind(h) = l /\ Root(h) = r
  <2>1. t.op # "validate"
    BY <1>1, <1>3 DEF Creates
  <2>2. QED
    BY <1>1, <1>3, <2>1, AtHead, Proceeding DEF AtFile
<1>5. InSession(h)' = InSession(h) /\ IsOpen(h, r)' = IsOpen(h, r) /\ (l # "record" => ~IsOpen(h, r))
      /\ (l \in Lifecycle => InSession(h))
  <2>1. Head(todo[h]).op \in Writes /\ Head(todo[h]).op \in Holds
    BY <1>1 DEF Writes, Holds
  <2>2. InSession(h)' = InSession(h) /\ IsOpen(h, r)' = IsOpen(h, r)
    BY <1>1, <2>1, SameMarks
  <2>3. (l # "record" => ~IsOpen(h, r)) /\ (l \in Lifecycle => InSession(h))
    BY <1>4, <2>1, TheWorker
  <2>4. QED
    BY <2>2, <2>3
<1>6. \A op \in Writes : op # t.op => (Done(h, op, r, l)' <=> Done(h, op, r, l))
  <2>1. \A op \in Writes : op # t.op => (Step(op, r, l) \in Ahead(h)' <=> Step(op, r, l) \in Ahead(h))
    BY <1>4, StepsDiffer
  <2>2. QED
    BY <1>5, <2>1 DEF Done
<1>7. Step("create", r, l) \notin Ahead(h)'
  <2>1. CASE t.op = "create"
    BY <1>4, <2>1
  <2>2. CASE t.op # "create"
    <3>1. Turn("create") < Turn(t.op)
      <4>1. t.op \in {"copy", "copyRest", "write"}
        BY <1>4, <2>2 DEF Creates
      <4>2. QED
        BY <4>1, TheTurns
    <3>2. Head(todo[h]).op \in Writes \cup {"reserve"} /\ "create" \in Writes \cup {"reserve"}
      BY <1>1 DEF Writes, Creates
    <3>3. Step("create", r, l) \notin Ahead(h)
      BY <1>3, <1>4, <3>1, <3>2, Behind
    <3>4. QED
      BY <1>4, <3>3
  <2>3. QED
    BY <2>1, <2>2
<1>8. l # "artifact" /\ Done(h, "write", r, l)' => c = Expected(h, r, l)'
  <2> SUFFICES ASSUME l # "artifact", Done(h, "write", r, l)' PROVE c = Expected(h, r, l)'
    OBVIOUS
  <2>1. t.op = "write"
    <3> SUFFICES ASSUME t.op # "write" PROVE FALSE
      OBVIOUS
    <3>1. t.op = "create"
      BY <1>1, <1>3 DEF Creates, PutsIn
    <3>2. Now(r, l, i) = Gone
      BY <1>3, <3>1 DEF PutsIn
    <3>3. Done(h, "write", r, l)
      BY <1>6 DEF Writes, Creates
    <3>4. Gone = Expected(h, r, l)
      BY <1>2, <3>2, <3>3 DEF FileOf
    <3>5. Expected(h, r, l) # Gone
      BY DEF Expected, Record, Seal, Manifest, Pair, Gone
    <3>6. QED
      BY <3>4, <3>5
  <2>2. c = Expected(h, r, l)
    BY <1>3, <2>1 DEF PutsIn
  <2>3. CASE l \notin Lifecycle
    <3>1. CASE l = "record"
      BY <1>1, <2>2, <3>1 DEF Expected
    <3>2. CASE l = "seal"
      <4>1. Now(r, "artifact", i)' = Now(r, "artifact", i)
        BY <1>1, <3>2, TheKinds DEF Elsewhere
      <4>2. (run[h].ids[r])' = i /\ (run[h].header)' = run[h].header
        BY <1>1, <1>2
      <4>3. QED
        BY <1>2, <2>2, <3>2, <4>1, <4>2 DEF Expected
    <3>3. QED
      BY <2>3, <3>1, <3>2, TheKinds
  <2>4. CASE l \in Lifecycle
    <3>1. InSession(h)
      BY <1>5, <2>4
    <3>2. \A s \in Roots : run[h].ids[s] \in Ids
      <4> SUFFICES ASSUME NEW s \in Roots PROVE run[h].ids[s] \in Ids
        OBVIOUS
      <4>1. Head(todo[h]).op \in Writes \cup {"reserve"} /\ "record" \notin Lifecycle /\ "record" \in Kinds
        BY <1>1, TheKinds DEF Writes
      <4>2. Step("reserve", s, "record") \notin Ahead(h)
        BY <1>4, <2>4, <4>1, Behind
      <4>3. run[h].ids[s] # NoId /\ run[h].ids \in [Roots -> Ids \cup {NoId}]
        BY <3>1, <4>2 DEF Listed, Types
      <4>4. QED
        BY <4>3
    <3>3. \A s \in Roots : Now(s, "artifact", run[h].ids[s])' = Now(s, "artifact", run[h].ids[s])
      BY <1>1, <2>4, <3>2, TheKinds DEF Elsewhere
    <3>4. Manifest(h)' = Manifest(h)
      BY <1>1, <3>3 DEF Manifest
    <3>5. QED
      BY <2>2, <2>4, <3>4 DEF Expected, Lifecycle
  <2>5. QED
    BY <2>3, <2>4
<1>9. ~Done(h, "sync", r, l)'
  <2>1. "sync" # t.op /\ "sync" \in Writes
    BY <1>4 DEF Writes, Creates
  <2>2. Done(h, "sync", r, l) => Flushed(r, l, i) /\ Now(r, l, i) # Gone
    BY <1>2 DEF FileOf
  <2>3. QED
    BY <1>2, <1>6, <2>1, <2>2
<1>10. l \in {"artifact", "pair", "pairSeal"} => ~Done(h, "full", r, l)'
  <2>1. "full" # t.op /\ "full" \in Writes
    BY <1>4 DEF Writes, Creates
  <2>2. l \in {"artifact", "pair", "pairSeal"} /\ Done(h, "full", r, l) => Durable(r, l, i)
    <3>1. Place(l) <= Place(l)
      BY ThePlaces
    <3>2. QED
      BY <1>2, <3>1 DEF FileOf
  <2>3. QED
    BY <1>2, <1>6, <2>1, <2>2
<1>11. \A k \in Kinds : Place(l) < Place(k) => ~MayBeFound(r, k, i)'
  <2> SUFFICES ASSUME NEW k \in Kinds, Place(l) < Place(k) PROVE ~MayBeFound(r, k, i)'
    OBVIOUS
  <2>1. k # l
    BY ThePlaces
  <2>2. MayBeFound(r, k, i)' <=> MayBeFound(r, k, i)
    BY <1>1, <2>1 DEF Elsewhere
  <2>3. QED
    BY <1>2, <2>2
<1>12. l = "artifact" => c.is = "artifact"
  BY DEF PutsIn
<1>13. (run[h].ids[r])' = i
  BY <1>1, <1>2
<1>14. l # "record" => ~IsOpen(h, r)'
  BY <1>5
<1>15. QED
  BY <1>1, <1>7, <1>8, <1>9, <1>10, <1>11, <1>12, <1>13, <1>14 DEF FileOf

(* The reservation of a writer is still its own. *)
LEMMA PutReservation ==
  ASSUME Types, Disk, NEW h \in Helpers, Listed(h), ~Idle(h),
         NEW r \in Roots, NEW l \in Kinds, NEW i \in Ids, NEW c, PutsIn(h, r, l, i, c), WorkOf(h, r),
         NEW q \in Roots, Has(h, q), WorkOf(h, q)
  PROVE  ReservationOf(h, q)'
<1>1. run' = run /\ held' = held /\ AtFile(h, r, l, i) /\ Head(todo[h]).op \in Creates /\ Proceeds(h) /\ Elsewhere(r, l, i)
  BY WrittenElsewhere DEF PutsIn
<1>2. run[h].ids[r] = i
  BY <1>1, TheWritten
<1>3. ReservationOf(h, q)
  BY DEF WorkOf
<1>4. InSession(h)' = InSession(h)
  BY <1>1, SameMarks DEF Writes
<1>5. \A j \in Ids \ {run[h].ids[q]} : May(q, "record", j)' = May(q, "record", j) /\ (Used(q, j)' <=> Used(q, j))
  BY <1>1, <1>2, TheKinds DEF Elsewhere, Used
<1>6. QED
  BY <1>1, <1>3, <1>4, <1>5 DEF ReservationOf

(* What is put into an artifact. *)
DataIn(h, r, i, c) ==
  /\ Head(todo[h]).op = "create" => c = Artifact(<<>>)
  /\ Head(todo[h]).op \in {"copy", "copyRest"} =>
       \E x \in Nat : /\ c = Artifact(Append(Now(r, "artifact", i).data, x))
                      /\ run[h].version <= x /\ x <= source
                      /\ r = "destination" => x = run[h].version

(* The data of the other root does not change. *)
LEMMA OtherData ==
  ASSUME Types, Disk, NEW h \in Helpers, Listed(h), ~Idle(h),
         NEW r \in Roots, NEW l \in Kinds, NEW i \in Ids, NEW c, PutsIn(h, r, l, i, c), WorkOf(h, r),
         NEW q \in Roots, Has(h, q), WorkOf(h, q), InSession(h), ~(q = r /\ l = "artifact")
  PROVE  DataOf(h, q)'
<1>1. run' = run /\ source' = source /\ AtFile(h, r, l, i) /\ Head(todo[h]).op \in Creates /\ Proceeds(h) /\ Elsewhere(r, l, i)
  BY WrittenElsewhere DEF PutsIn
<1>2. DataOf(h, q)
  BY DEF WorkOf
<1>3. PICK j : j = run[h].ids[q]
  OBVIOUS
<1>4. j \in Ids /\ (run[h].ids[q])' = j
  BY <1>1, <1>3 DEF WorkOf, ReservationOf
<1>5. Now(q, "artifact", j)' = Now(q, "artifact", j)
  BY <1>1, <1>4, TheKinds DEF Elsewhere
<1>6. \A op \in Writes : Step(op, q, "artifact") \in Ahead(h)' <=> Step(op, q, "artifact") \in Ahead(h)
  <2>1. Head(todo[h]).op \in Writes /\ ~(q = Root(h) /\ "artifact" = Kind(h))
    BY <1>1 DEF Writes, AtFile
  <2>2. QED
    BY <1>1, <2>1, OtherSets, TheKinds
<1>7. \A op \in {"copy", "copyRest", "sync"} : Step(op, q, "artifact") \in Ahead(h)' <=> Step(op, q, "artifact") \in Ahead(h)
  BY <1>6 DEF Writes, Creates
<1>8. QED
  BY <1>1, <1>2, <1>3, <1>4, <1>5, <1>7 DEF DataOf

(* What is copied is of a version the source had since the session began. *)
LEMMA ThisData ==
  ASSUME Types, Disk, NEW h \in Helpers, Listed(h), ~Idle(h),
         NEW r \in Roots, NEW i \in Ids, NEW c, PutsIn(h, r, "artifact", i, c), WorkOf(h, r), InSession(h),
         DataIn(h, r, i, c)
  PROVE  DataOf(h, r)'
<1> DEFINE S(op) == Step(op, r, "artifact")
<1>1. /\ run' = run /\ source' = source /\ AtFile(h, r, "artifact", i) /\ Head(todo[h]).op \in Creates /\ Proceeds(h)
      /\ Now(r, "artifact", i)' = c
  BY WrittenElsewhere, TheKinds DEF PutsIn
<1>2. /\ run[h].ids[r] = i /\ Has(h, r) /\ FileOf(h, r, "artifact")
      /\ Flushed(r, "artifact", i) => Now(r, "artifact", i) = Gone
  BY <1>1, TheWritten, TheKinds
<1>3. DataOf(h, r)
  BY <1>2 DEF WorkOf
<1>4. PICK t : t = Head(todo[h])
  OBVIOUS
<1>5. /\ t = S(t.op) /\ t.op \in {"create", "copy", "copyRest"} /\ Ahead(h) = Ahead(h)' \cup {t} /\ t \notin Ahead(h)'
      /\ Kind(h) = "artifact" /\ Root(h) = r
  <2>1. t.op # "validate" /\ t.op \in {"create", "copy", "copyRest"}
    BY <1>1, <1>4 DEF Creates, PutsIn
  <2>2. QED
    BY <1>1, <1>4, <2>1, AtHead, Proceeding DEF AtFile
<1>6. PICK old : old = Now(r, "artifact", i)
  OBVIOUS
<1>7. old \in Contents
  BY <1>6, TheFile, TheKinds
<1>8. ~IsOpen(h, r)
  BY <1>1, <1>5, TheWorker DEF Holds, Writes
<1>9. S("sync") \in Ahead(h)
  <2> SUFFICES ASSUME S("sync") \notin Ahead(h) PROVE FALSE
    OBVIOUS
  <2>1. Done(h, "sync", r, "artifact")
    BY <1>8, TheKinds DEF Done
  <2>2. Flushed(r, "artifact", i) /\ Now(r, "artifact", i) # Gone
    BY <1>2, <2>1 DEF FileOf
  <2>3. QED
    BY <1>2, <2>2
<1>10. S("sync") \in Ahead(h)'
  BY <1>5, <1>9, StepsDiffer
<1>11. (run[h].ids[r])' = i /\ (run[h].version)' = run[h].version
  BY <1>1, <1>2
<1>12. \A p \in {"create", "copy", "copyRest"} : Turn(p) < Turn(t.op) => S(p) \notin Ahead(h)
  <2> SUFFICES ASSUME NEW p \in {"create", "copy", "copyRest"}, Turn(p) < Turn(t.op) PROVE S(p) \notin Ahead(h)
    OBVIOUS
  <2>1. p \in Writes \cup {"reserve"} /\ Head(todo[h]).op \in Writes \cup {"reserve"} /\ "artifact" \in Kinds
    BY <1>1, TheKinds DEF Writes, Creates
  <2>2. QED
    BY <1>4, <1>5, <2>1, Behind
<1>13. CASE t.op = "create"
  <2>1. old = Gone /\ c = Artifact(<<>>)
    BY <1>4, <1>6, <1>13 DEF PutsIn, DataIn
  <2>2. S("copyRest") \in Ahead(h) /\ S("copy") \in Ahead(h)
    BY <1>2, <1>3, <1>6, <2>1 DEF DataOf, Gone
  <2>3. S("copyRest") \in Ahead(h)' /\ S("copy") \in Ahead(h)'
    BY <1>5, <1>13, <2>2, StepsDiffer
  <2>4. c.is = "artifact" /\ c.data = <<>> /\ Len(c.data) = 0 /\ DOMAIN c.data = {}
    BY <2>1 DEF Artifact
  <2>5. QED
    BY <1>1, <1>10, <1>11, <2>3, <2>4 DEF DataOf
<1>14. CASE t.op \in {"copy", "copyRest"}
  <2>1. PICK x \in Nat : /\ c = Artifact(Append(old.data, x))
                         /\ run[h].version <= x /\ x <= source
                         /\ r = "destination" => x = run[h].version
    BY <1>4, <1>6, <1>14 DEF DataIn
  <2>2. old.is = "artifact"
    <3>1. Turn("create") < Turn(t.op)
      BY <1>14, TheTurns
    <3>2. S("create") \notin Ahead(h)
      BY <1>12, <3>1
    <3>3. Done(h, "create", r, "artifact")
      BY <1>8, <3>2, TheKinds DEF Done
    <3>4. QED
      BY <1>2, <1>6, <3>3 DEF FileOf
  <2>3. PICK d \in Seq(Nat) : d = old.data
    BY <1>7, <2>2, WhatIs
  <2>4. /\ \A n \in DOMAIN d : run[h].version <= d[n] /\ d[n] <= source /\ (r = "destination" => d[n] = run[h].version)
        /\ S("copyRest") \in Ahead(h) => Len(d) = IF S("copy") \in Ahead(h) THEN 0 ELSE 1
        /\ S("copy") \in Ahead(h) => S("copyRest") \in Ahead(h)
    BY <1>2, <1>3, <1>6, <2>2, <2>3 DEF DataOf
  <2>5. PICK e \in Seq(Nat) : e = Append(d, x)
    <3>1. x \in Nat /\ d \in Seq(Nat)
      BY <2>1, <2>3
    <3>2. Append(d, x) \in Seq(Nat)
      BY <3>1
    <3>3. QED
      BY <3>2
  <2>6. c.is = "artifact" /\ c.data = e
    BY <2>1, <2>3, <2>5 DEF Artifact
  <2>7. Len(e) = Len(d) + 1
    BY <2>5
  <2>8. \A n \in DOMAIN e : run[h].version <= e[n] /\ e[n] <= source /\ (r = "destination" => e[n] = run[h].version)
    <3> SUFFICES ASSUME NEW n \in DOMAIN e
                 PROVE  run[h].version <= e[n] /\ e[n] <= source /\ (r = "destination" => e[n] = run[h].version)
      OBVIOUS
    <3>1. CASE n = Len(d) + 1
      <4>1. e[n] = x
        BY <2>5, <3>1
      <4>2. QED
        BY <2>1, <4>1
    <3>2. CASE n # Len(d) + 1
      <4>1. n \in DOMAIN d /\ e[n] = d[n]
        BY <2>5, <3>2
      <4>2. QED
        BY <2>4, <4>1
    <3>3. QED
      BY <3>1, <3>2
  <2>9. CASE t.op = "copy"
    <3>1. S("copy") \in Ahead(h)
      BY <1>5, <2>9
    <3>2. S("copyRest") \in Ahead(h) /\ Len(d) = 0
      BY <2>4, <3>1
    <3>3. S("copyRest") \in Ahead(h)' /\ S("copy") \notin Ahead(h)'
      BY <1>5, <2>9, <3>2, StepsDiffer
    <3>4. Len(e) = 1
      BY <2>7, <3>2
    <3>5. QED
      BY <1>1, <1>10, <1>11, <2>6, <2>8, <3>3, <3>4 DEF DataOf
  <2>10. CASE t.op = "copyRest"
    <3>1. Turn("copy") < Turn(t.op)
      BY <2>10, TheTurns
    <3>2. S("copy") \notin Ahead(h) /\ S("copyRest") \in Ahead(h)
      BY <1>5, <1>12, <2>10, <3>1
    <3>3. Len(d) = 1
      BY <2>4, <3>2
    <3>4. S("copyRest") \notin Ahead(h)' /\ S("copy") \notin Ahead(h)'
      BY <1>5, <2>10, <3>2
    <3>5. Len(e) = 2
      BY <2>7, <3>3
    <3>6. QED
      BY <1>1, <1>10, <1>11, <2>6, <2>8, <3>4, <3>5 DEF DataOf
  <2>11. QED
    BY <1>14, <2>9, <2>10
<1>15. QED
  BY <1>5, <1>13, <1>14

(* The work of the helper that writes, on both roots. *)
LEMMA PutWork ==
  ASSUME Types, Disk, NEW h \in Helpers, Listed(h), ~Idle(h), \A q \in Roots : WorkOf(h, q),
         NEW r \in Roots, NEW l \in Kinds, NEW i \in Ids, NEW c, PutsIn(h, r, l, i, c),
         l = "artifact" /\ InSession(h) => DataIn(h, r, i, c)
  PROVE  \A q \in Roots : WorkOf(h, q)'
<1> SUFFICES ASSUME NEW q \in Roots PROVE WorkOf(h, q)'
  OBVIOUS
<1>1. run' = run /\ AtFile(h, r, l, i) /\ Head(todo[h]).op \in Creates /\ Proceeds(h)
  BY DEF PutsIn
<1>2. InSession(h)' = InSession(h) /\ Has(h, q)' = Has(h, q)
  <2>1. Head(todo[h]).op \in Writes \cup {"lock", "scan", "validate", "reserve"}
    BY <1>1 DEF Writes
  <2>2. InSession(h)' = InSession(h) /\ Works(h, q)' = Works(h, q)
    BY <1>1, <2>1, SameMarks
  <2>3. QED
    BY <1>1, <2>2 DEF Has
<1>3. SUFFICES ASSUME Has(h, q) PROVE (ReservationOf(h, q) /\ (\A k \in Kinds : FileOf(h, q, k)) /\ (InSession(h) => DataOf(h, q)))'
  BY <1>2 DEF WorkOf
<1>4. ReservationOf(h, q)'
  BY <1>3, PutReservation
<1>5. ASSUME NEW k \in Kinds PROVE FileOf(h, q, k)'
  <2>1. CASE q = r /\ k = l
    BY <2>1, PutThisFile
  <2>2. CASE ~(q = r /\ k = l)
    BY <1>3, <2>2, PutFileWork
  <2>3. QED
    BY <2>1, <2>2
<1>6. InSession(h)' => DataOf(h, q)'
  <2>1. CASE q = r /\ l = "artifact"
    BY <1>2, <2>1, ThisData
  <2>2. CASE ~(q = r /\ l = "artifact")
    BY <1>2, <1>3, <2>2, OtherData
  <2>3. QED
    BY <2>1, <2>2
<1>7. QED
  BY <1>4, <1>5, <1>6

-----------------------------------------------------------------------------
(* A helper synchronizes a file, or a drive.                                  *)

Settled(r, l, i, op) ==
  \A q \in Roots, k \in Kinds, j \in Ids :
    /\ Now(q, k, j)' = Now(q, k, j) /\ May(q, k, j)' \subseteq May(q, k, j)
    /\ MayBeFound(q, k, j)' => MayBeFound(q, k, j)
    /\ Durable(q, k, j) => Durable(q, k, j)'
    /\ Durable(q, k, j)' => Durable(q, k, j) \/ (Flushed(q, k, j) /\ Now(q, k, j) # Gone)
    /\ Flushed(q, k, j) => Flushed(q, k, j)'
    /\ Flushed(q, k, j)' => Flushed(q, k, j) \/ Now(q, k, j) = Gone \/ (q = r /\ k = l /\ j = i /\ op = "sync")
    /\ op = "sync" /\ q = r /\ k = l /\ j = i => Flushed(q, k, j)'
    /\ op = "full" /\ q = r /\ Flushed(q, k, j) /\ Now(q, k, j) # Gone => Durable(q, k, j)'

(* fsync, as a step that synchronizes. *)
LEMMA HandedOverSettles ==
  ASSUME Disk, NEW r \in Roots, NEW l \in Kinds, NEW i \in Ids, fs' = HandedOver(fs, r, {<<l, i>>})
  PROVE  Settled(r, l, i, "sync")
<1>1. fs \in [Roots -> [Kinds -> [Ids -> Files]]]
  BY DEF Disk
<1>2. /\ \A q \in Roots \ {r} : fs'[q] = fs[q]
      /\ \A k \in Kinds, j \in Ids : /\ SameContent(r, k, j)
                                     /\ (Flushed(r, k, j)' <=> Flushed(r, k, j) \/ <<k, j>> \in {<<l, i>>} \/ Now(r, k, j) = Gone)
  BY <1>1, HandedOverMoves
<1>3. \A k \in Kinds, j \in Ids : (Flushed(r, k, j)' <=> Flushed(r, k, j) \/ (k = l /\ j = i) \/ Now(r, k, j) = Gone)
  BY <1>2
<1>4. \A q \in Roots, k \in Kinds, j \in Ids : q # r => Kept(q, k, j)
  BY <1>2 DEF Kept
<1>5. \A q \in Roots, k \in Kinds, j \in Ids : q # r => SameContent(q, k, j) /\ Flushed(q, k, j)' = Flushed(q, k, j)
  BY <1>4, KeptFile DEF SameContent
<1>6. \A q \in Roots, k \in Kinds, j \in Ids : SameContent(q, k, j)
  BY <1>2, <1>5
<1>7. SUFFICES ASSUME NEW q \in Roots, NEW k \in Kinds, NEW j \in Ids
               PROVE  /\ Now(q, k, j)' = Now(q, k, j) /\ May(q, k, j)' \subseteq May(q, k, j)
                      /\ MayBeFound(q, k, j)' => MayBeFound(q, k, j)
                      /\ Durable(q, k, j) => Durable(q, k, j)'
                      /\ Durable(q, k, j)' => Durable(q, k, j) \/ (Flushed(q, k, j) /\ Now(q, k, j) # Gone)
                      /\ Flushed(q, k, j) => Flushed(q, k, j)'
                      /\ Flushed(q, k, j)' => Flushed(q, k, j) \/ Now(q, k, j) = Gone \/ (q = r /\ k = l /\ j = i)
                      /\ q = r /\ k = l /\ j = i => Flushed(q, k, j)'
  BY DEF Settled
<1>8. Durable(q, k, j)' = Durable(q, k, j) /\ MayBeFound(q, k, j)' = MayBeFound(q, k, j)
  BY <1>6, SameFile
<1>9. Now(q, k, j)' = Now(q, k, j) /\ May(q, k, j)' = May(q, k, j)
  BY <1>6 DEF SameContent
<1>10. CASE q = r
  BY <1>3, <1>8, <1>9, <1>10
<1>11. CASE q # r
  BY <1>5, <1>8, <1>9, <1>11
<1>12. QED
  BY <1>10, <1>11

(* F_FULLFSYNC, as a step that synchronizes. *)
LEMMA FlushDriveSettles ==
  ASSUME Disk, NEW r \in Roots, NEW l, NEW i, FlushDrive(r)
  PROVE  Settled(r, l, i, "full")
<1>1. fs \in [Roots -> [Kinds -> [Ids -> Files]]]
  BY DEF Disk
<1>2. /\ \A q \in Roots \ {r} : fs'[q] = fs[q]
      /\ \A k \in Kinds, j \in Ids : /\ Now(r, k, j)' = Now(r, k, j) /\ Flushed(r, k, j)' = Flushed(r, k, j)
                                     /\ (Flushed(r, k, j) => May(r, k, j)' = {Now(r, k, j)}) /\ (~Flushed(r, k, j) => May(r, k, j)' = May(r, k, j))
  BY <1>1, FlushDriveMoves
<1>3. SUFFICES ASSUME NEW q \in Roots, NEW k \in Kinds, NEW j \in Ids
               PROVE  /\ Now(q, k, j)' = Now(q, k, j) /\ May(q, k, j)' \subseteq May(q, k, j)
                      /\ MayBeFound(q, k, j)' => MayBeFound(q, k, j)
                      /\ Durable(q, k, j) => Durable(q, k, j)'
                      /\ Durable(q, k, j)' => Durable(q, k, j) \/ (Flushed(q, k, j) /\ Now(q, k, j) # Gone)
                      /\ Flushed(q, k, j)' = Flushed(q, k, j)
                      /\ q = r /\ Flushed(q, k, j) /\ Now(q, k, j) # Gone => Durable(q, k, j)'
  BY DEF Settled
<1>4. CASE q # r
  <2>1. Kept(q, k, j)
    BY <1>2, <1>4 DEF Kept
  <2>2. QED
    BY <1>4, <2>1, KeptFile
<1>5. CASE q = r
  <2>1. /\ Now(r, k, j)' = Now(r, k, j) /\ Flushed(r, k, j)' = Flushed(r, k, j)
        /\ (Flushed(r, k, j) => May(r, k, j)' = {Now(r, k, j)}) /\ (~Flushed(r, k, j) => May(r, k, j)' = May(r, k, j))
    BY <1>2
  <2>2. /\ Durable(r, k, j) <=> Now(r, k, j) # Gone /\ May(r, k, j) = {Now(r, k, j)}
        /\ MayBeFound(r, k, j) <=> May(r, k, j) # {Gone}
        /\ Now(r, k, j) \in May(r, k, j)
    BY TheFile DEF FileOK
  <2>3. /\ Durable(r, k, j)' <=> Now(r, k, j)' # Gone /\ May(r, k, j)' = {Now(r, k, j)'}
        /\ MayBeFound(r, k, j)' <=> May(r, k, j)' # {Gone}
    BY DEF Durable, MayBeFound, May
  <2>4. CASE Flushed(r, k, j)
    BY <1>5, <2>1, <2>2, <2>3, <2>4
  <2>5. CASE ~Flushed(r, k, j)
    BY <1>5, <2>1, <2>2, <2>3, <2>5
  <2>6. QED
    BY <2>4, <2>5
<1>6. QED
  BY <1>4, <1>5

(* The lifecycle record of a session names the session's artifacts. *)
LEMMA ManifestIds ==
  ASSUME Disk, NEW h \in Helpers, NEW q \in Roots, NEW k \in Kinds, NEW j \in Ids, Now(q, k, j) = Manifest(h)
  PROVE  \A s \in Roots : run[h].ids[s] \in Ids
<1>1. PICK pair : pair = Manifest(h)
  OBVIOUS
<1>2. pair \in Contents /\ pair.is = "pair" /\ pair.ids = run[h].ids
  BY <1>1, TheFile DEF Manifest, Pair
<1>3. QED
  BY <1>2, WhatIs

(* What is written is never an absent file. *)
LEMMA ExpectedIsNotGone ==
  ASSUME NEW h, NEW r, NEW k
  PROVE  Expected(h, r, k) # Gone
BY DEF Expected, Record, Seal, Manifest, Pair, Gone

(* The contents expected do not change with a synchronization. *)
LEMMA SettledExpected ==
  ASSUME Types, Disk, NEW h \in Helpers, NEW r, NEW l, NEW i, NEW op, Settled(r, l, i, op), run' = run,
         NEW q \in Roots, NEW k \in Kinds \ {"artifact"}, run[h].ids[q] \in Ids, Now(q, k, run[h].ids[q]) = Expected(h, q, k)
  PROVE  Expected(h, q, k)' = Expected(h, q, k)
<1>1. \A s \in Roots : run[h].ids[s] \in Ids => Now(s, "artifact", run[h].ids[s])' = Now(s, "artifact", run[h].ids[s])
  BY TheKinds DEF Settled
<1>2. CASE k = "record"
  BY <1>2 DEF Expected
<1>3. CASE k = "seal"
  BY <1>1, <1>3 DEF Expected
<1>4. CASE k \in Lifecycle
  <2>1. Expected(h, q, k) = Manifest(h)
    BY <1>4 DEF Expected, Lifecycle
  <2>2. \A s \in Roots : run[h].ids[s] \in Ids
    BY <2>1, ManifestIds
  <2>3. Manifest(h)' = Manifest(h)
    BY <1>1, <2>2 DEF Manifest
  <2>4. QED
    BY <1>4, <2>1, <2>3 DEF Expected, Lifecycle
<1>5. QED
  BY <1>2, <1>3, <1>4, TheKinds

Settles(h, r, l, i) ==
  /\ AtFile(h, r, l, i)
  /\ Head(todo[h]).op \in {"sync", "full"}
  /\ Settled(r, l, i, Head(todo[h]).op)
  /\ Proceeds(h)
  /\ run' = run /\ source' = source /\ held' = held
  /\ Head(todo[h]).op = "sync" /\ l = "artifact" => SourceIsExact(h)

(* A helper knows that the file it synchronizes is there. *)
LEMMA TheSettled ==
  ASSUME Types, Disk, NEW h \in Helpers, Listed(h), ~Idle(h), Head(todo[h]).op \in {"sync", "full"},
         NEW r \in Roots, NEW l \in Kinds, NEW i \in Ids, AtFile(h, r, l, i), WorkOf(h, r)
  PROVE  /\ run[h].ids[r] = i /\ Has(h, r) /\ (l # "record" => ~IsOpen(h, r)) /\ (l \in Lifecycle => InSession(h))
         /\ \A k \in Kinds : FileOf(h, r, k)
         /\ \A a \in Writes : Turn(a) < Turn(Head(todo[h]).op) => Step(a, r, l) \notin Ahead(h)
         /\ \A a \in Writes, k \in Kinds : Place(k) < Place(l) => Step(a, r, k) \notin Ahead(h)
         /\ Now(r, l, i) # Gone
<1>1. Head(todo[h]).op \in Holds /\ Head(todo[h]).op \in Writes
  BY DEF Holds, Writes
<1>2. Has(h, r) /\ run[h].ids[r] = i /\ (l # "record" => ~IsOpen(h, r)) /\ (l \in Lifecycle => InSession(h))
  BY <1>1, TheWorker DEF AtFile, Id
<1>3. \A k \in Kinds : FileOf(h, r, k)
  BY <1>2 DEF WorkOf
<1>4. \A a \in Writes : Turn(a) < Turn(Head(todo[h]).op) => Step(a, r, l) \notin Ahead(h)
  <2> SUFFICES ASSUME NEW a \in Writes, Turn(a) < Turn(Head(todo[h]).op) PROVE Step(a, r, l) \notin Ahead(h)
    OBVIOUS
  <2>1. a \in Writes \cup {"reserve"} /\ Head(todo[h]).op \in Writes \cup {"reserve"} /\ r = Root(h) /\ l = Kind(h)
    BY <1>1 DEF AtFile
  <2>2. QED
    BY <2>1, Behind
<1>5. \A a \in Writes, k \in Kinds : Place(k) < Place(l) => Step(a, r, k) \notin Ahead(h)
  <2> SUFFICES ASSUME NEW a \in Writes, NEW k \in Kinds, Place(k) < Place(l) PROVE Step(a, r, k) \notin Ahead(h)
    OBVIOUS
  <2>1. a \in Writes \cup {"reserve"} /\ Head(todo[h]).op \in Writes \cup {"reserve"} /\ r = Root(h) /\ l = Kind(h)
    BY <1>1 DEF AtFile
  <2>2. QED
    BY <2>1, Behind
<1>6. Turn("create") < Turn(Head(todo[h]).op) /\ Turn("write") < Turn(Head(todo[h]).op)
  BY TheTurns
<1>7. Step("create", r, l) \notin Ahead(h) /\ Step("write", r, l) \notin Ahead(h)
  BY <1>4, <1>6 DEF Writes, Creates
<1>8. Done(h, "create", r, l) /\ Done(h, "write", r, l)
  BY <1>2, <1>7 DEF Done
<1>9. CASE l = "artifact"
  <2>1. Now(r, l, i).is = "artifact"
    BY <1>2, <1>3, <1>8, <1>9 DEF FileOf
  <2>2. QED
    BY <1>2, <1>3, <1>4, <1>5, <2>1 DEF Gone
<1>10. CASE l # "artifact"
  <2>1. Now(r, l, i) = Expected(h, r, l)
    BY <1>2, <1>3, <1>8, <1>10 DEF FileOf
  <2>2. QED
    BY <1>2, <1>3, <1>4, <1>5, <2>1, ExpectedIsNotGone
<1>11. QED
  BY <1>9, <1>10

(* A synchronization changes nothing of what is ahead but itself. *)
LEMMA SettleSets ==
  ASSUME Types, NEW h \in Helpers, Listed(h), ~Idle(h), Head(todo[h]).op \in {"sync", "full"}, Proceeds(h),
         NEW q \in Roots, NEW k \in Kinds
  PROVE  /\ InSession(h)' = InSession(h) /\ IsOpen(h, q)' = IsOpen(h, q) /\ Works(h, q)' = Works(h, q)
         /\ \A op \in Writes : /\ ~(q = Root(h) /\ k = Kind(h) /\ op = Head(todo[h]).op) =>
                                    /\ Step(op, q, k) \in Ahead(h)' <=> Step(op, q, k) \in Ahead(h)
                                    /\ Done(h, op, q, k)' <=> Done(h, op, q, k)
<1>1. PICK t : t = Head(todo[h])
  OBVIOUS
<1>2. t = Step(t.op, Root(h), Kind(h)) /\ Ahead(h) = Ahead(h)' \cup {t}
  BY <1>1, AtHead, Proceeding
<1>3. InSession(h)' = InSession(h) /\ IsOpen(h, q)' = IsOpen(h, q) /\ Works(h, q)' = Works(h, q)
  <2>1. Head(todo[h]).op \in Writes \cup {"lock", "scan", "validate", "reserve"}
    BY DEF Writes
  <2>2. QED
    BY <2>1, SameMarks
<1>4. ASSUME NEW op \in Writes, ~(q = Root(h) /\ k = Kind(h) /\ op = t.op)
      PROVE  /\ Step(op, q, k) \in Ahead(h)' <=> Step(op, q, k) \in Ahead(h)
             /\ Done(h, op, q, k)' <=> Done(h, op, q, k)
  <2>1. Step(op, q, k) # t
    BY <1>2, <1>4, StepsDiffer
  <2>2. Step(op, q, k) \in Ahead(h)' <=> Step(op, q, k) \in Ahead(h)
    BY <1>2, <2>1
  <2>3. QED
    BY <1>3, <2>2 DEF Done
<1>5. QED
  BY <1>1, <1>3, <1>4

(* What a helper that synchronizes knows of each file. *)
LEMMA SettleFile ==
  ASSUME Types, Disk, NEW h \in Helpers, Listed(h), ~Idle(h),
         NEW r \in Roots, NEW l \in Kinds, NEW i \in Ids, Settles(h, r, l, i), WorkOf(h, r),
         NEW q \in Roots, NEW k \in Kinds, Has(h, q), WorkOf(h, q)
  PROVE  FileOf(h, q, k)'
<1>1. run' = run /\ AtFile(h, r, l, i) /\ Proceeds(h) /\ Head(todo[h]).op \in {"sync", "full"}
  BY DEF Settles
<1>2. PICK p \in {"sync", "full"} : p = Head(todo[h]).op
  BY <1>1
<1>3. /\ run[h].ids[r] = i /\ (l # "record" => ~IsOpen(h, r)) /\ (l \in Lifecycle => InSession(h))
      /\ \A m \in Kinds : FileOf(h, r, m)
      /\ \A a \in Writes : Turn(a) < Turn(p) => Step(a, r, l) \notin Ahead(h)
      /\ \A a \in Writes, m \in Kinds : Place(m) < Place(l) => Step(a, r, m) \notin Ahead(h)
      /\ Now(r, l, i) # Gone
  BY <1>1, <1>2, TheSettled
<1>4. PICK j : j = run[h].ids[q]
  OBVIOUS
<1>5. j \in Ids /\ (run[h].ids[q])' = j /\ FileOf(h, q, k) /\ (q = r => j = i)
  BY <1>1, <1>3, <1>4 DEF WorkOf, ReservationOf
<1>6. /\ IsOpen(h, q)' = IsOpen(h, q)
      /\ \A op \in Writes : ~(q = r /\ k = l /\ op = p) => /\ Step(op, q, k) \in Ahead(h)' <=> Step(op, q, k) \in Ahead(h)
                                                           /\ Done(h, op, q, k)' <=> Done(h, op, q, k)
  BY <1>1, <1>2, SettleSets DEF AtFile
<1>7. \A op \in Creates : op \in Writes /\ op # p
  BY <1>2 DEF Writes, Creates
<1>8. \A m \in Kinds :
         /\ Now(q, m, j)' = Now(q, m, j)
         /\ MayBeFound(q, m, j)' => MayBeFound(q, m, j)
         /\ Durable(q, m, j) => Durable(q, m, j)'
         /\ Durable(q, m, j)' => Durable(q, m, j) \/ (Flushed(q, m, j) /\ Now(q, m, j) # Gone)
         /\ Flushed(q, m, j) => Flushed(q, m, j)'
         /\ Flushed(q, m, j)' => Flushed(q, m, j) \/ Now(q, m, j) = Gone \/ (q = r /\ m = l /\ p = "sync")
         /\ p = "sync" /\ q = r /\ m = l => Flushed(q, m, j)'
         /\ p = "full" /\ q = r /\ Flushed(q, m, j) /\ Now(q, m, j) # Gone => Durable(q, m, j)'
  <2>1. Settled(r, l, i, p)
    BY <1>2 DEF Settles
  <2>2. QED
    BY <1>5, <2>1 DEF Settled
<1>9. (Putting(q, k) \cap Ahead(h))' # {} =>
         /\ \A m \in Kinds : Place(k) < Place(m) => ~MayBeFound(q, m, j)'
         /\ ~Durable(q, k, j)' /\ (Flushed(q, k, j)' => Now(q, k, j)' = Gone)
  <2> SUFFICES ASSUME (Putting(q, k) \cap Ahead(h))' # {}
               PROVE  /\ \A m \in Kinds : Place(k) < Place(m) => ~MayBeFound(q, m, j)'
                      /\ ~Durable(q, k, j)' /\ (Flushed(q, k, j)' => Now(q, k, j)' = Gone)
    OBVIOUS
  <2>1. PICK a \in Creates : Step(a, q, k) \in Ahead(h)'
    BY DEF Putting
  <2>2. Step(a, q, k) \in Ahead(h)
    BY <1>6, <1>7, <2>1
  <2>3. /\ \A m \in Kinds : Place(k) < Place(m) => ~MayBeFound(q, m, j)
        /\ ~Durable(q, k, j) /\ (Flushed(q, k, j) => Now(q, k, j) = Gone)
    BY <1>4, <1>5, <2>2 DEF FileOf, Putting
  <2>4. ~(q = r /\ k = l)
    <3>1. Turn(a) < Turn(p)
      <4>1. a \in {"create", "copy", "copyRest", "write"}
        BY DEF Creates
      <4>2. QED
        BY <4>1, <1>2, TheTurns
    <3>2. QED
      BY <1>3, <1>7, <2>2, <3>1
  <2>5. QED
    BY <1>8, <2>3, <2>4
<1>10. k # "artifact" /\ Done(h, "write", q, k)' => Now(q, k, j)' = Expected(h, q, k)'
  <2> SUFFICES ASSUME k # "artifact", Done(h, "write", q, k)' PROVE Now(q, k, j)' = Expected(h, q, k)'
    OBVIOUS
  <2>1. Done(h, "write", q, k)
    BY <1>6, <1>7 DEF Creates
  <2>2. Now(q, k, j) = Expected(h, q, k)
    BY <1>4, <1>5, <2>1 DEF FileOf
  <2>3. Settled(r, l, i, p)
    BY <1>2 DEF Settles
  <2>4. Expected(h, q, k)' = Expected(h, q, k)
    BY <1>1, <1>4, <1>5, <2>2, <2>3, SettledExpected
  <2>5. QED
    BY <1>8, <2>2, <2>4
<1>11. k \in {"artifact", "pair", "pairSeal"} /\ Done(h, "full", q, k)' =>
           \A m \in Kinds : Place(m) <= Place(k) => Durable(q, m, j)'
  <2> SUFFICES ASSUME k \in {"artifact", "pair", "pairSeal"}, Done(h, "full", q, k)', NEW m \in Kinds, Place(m) <= Place(k)
               PROVE  Durable(q, m, j)'
    OBVIOUS
  <2>1. CASE ~(q = r /\ k = l /\ p = "full")
    <3>1. Done(h, "full", q, k)
      BY <1>6, <2>1 DEF Writes
    <3>2. Durable(q, m, j)
      BY <1>4, <1>5, <3>1 DEF FileOf
    <3>3. QED
      BY <1>8, <3>2
  <2>2. CASE q = r /\ k = l /\ p = "full"
    <3>1. Step("sync", r, m) \notin Ahead(h)
      <4>1. "sync" \in Writes /\ Turn("sync") < Turn(p)
        BY <2>2, TheTurns DEF Writes
      <4>2. CASE m = l
        BY <1>3, <4>1, <4>2
      <4>3. CASE m # l
        <5>1. Place(m) < Place(l)
          BY <2>2, <4>3, ThePlaces
        <5>2. QED
          BY <1>3, <4>1, <5>1
      <4>4. QED
        BY <4>2, <4>3
    <3>2. m \in Lifecycle => InSession(h)
      <4>1. m \in Lifecycle => l \in Lifecycle
        BY <2>2, ThePlaces, TheKinds
      <4>2. QED
        BY <1>3, <4>1
    <3>3. ~IsOpen(h, r)
      BY <1>3, <2>2
    <3>4. Done(h, "sync", r, m)
      BY <3>1, <3>2, <3>3 DEF Done
    <3>5. Flushed(r, m, i) /\ Now(r, m, i) # Gone
      BY <1>3, <3>4 DEF FileOf
    <3>6. QED
      BY <1>5, <1>8, <2>2, <3>5
  <2>3. QED
    BY <2>1, <2>2
<1>12. Done(h, "sync", q, k)' => Flushed(q, k, j)' /\ Now(q, k, j)' # Gone
  <2> SUFFICES ASSUME Done(h, "sync", q, k)' PROVE Flushed(q, k, j)' /\ Now(q, k, j)' # Gone
    OBVIOUS
  <2>1. CASE ~(q = r /\ k = l /\ p = "sync")
    <3>1. Done(h, "sync", q, k)
      BY <1>6, <2>1 DEF Writes
    <3>2. QED
      BY <1>4, <1>5, <1>8, <3>1 DEF FileOf
  <2>2. CASE q = r /\ k = l /\ p = "sync"
    BY <1>3, <1>5, <1>8, <2>2
  <2>3. QED
    BY <2>1, <2>2
<1>13. /\ Step("create", q, k) \in Ahead(h)' => ~MayBeFound(q, k, j)'
       /\ k # "record" /\ IsOpen(h, q)' => ~MayBeFound(q, k, j)'
       /\ k = "artifact" /\ Done(h, "create", q, k)' => Now(q, k, j)'.is = "artifact"
  <2>1. "create" \in Writes /\ "create" # p
    BY <1>7 DEF Creates
  <2>2. /\ Step("create", q, k) \in Ahead(h)' <=> Step("create", q, k) \in Ahead(h)
        /\ Done(h, "create", q, k)' <=> Done(h, "create", q, k)
    BY <1>6, <2>1
  <2>3. QED
    BY <1>4, <1>5, <1>6, <1>8, <2>2 DEF FileOf
<1>14. QED
  BY <1>5, <1>9, <1>10, <1>11, <1>12, <1>13 DEF FileOf

(* Once the artifact is synchronized its data is of the version that was reviewed. *)
LEMMA SettleData ==
  ASSUME Types, Disk, NEW h \in Helpers, Listed(h), ~Idle(h),
         NEW r \in Roots, NEW l \in Kinds, NEW i \in Ids, Settles(h, r, l, i),
         NEW q \in Roots, Has(h, q), WorkOf(h, q), InSession(h)
  PROVE  DataOf(h, q)'
<1>1. run' = run /\ source' = source /\ AtFile(h, r, l, i) /\ Proceeds(h) /\ Head(todo[h]).op \in {"sync", "full"}
  BY DEF Settles
<1>2. PICK p \in {"sync", "full"} : p = Head(todo[h]).op
  BY <1>1
<1>3. PICK j : j = run[h].ids[q]
  OBVIOUS
<1>4. j \in Ids /\ (run[h].ids[q])' = j /\ DataOf(h, q)
  BY <1>1, <1>3 DEF WorkOf, ReservationOf
<1>5. PICK c \in Contents : c = Now(q, "artifact", j)
  BY <1>4, TheFile, TheKinds
<1>6. Now(q, "artifact", j)' = c
  BY <1>1, <1>4, <1>5, TheKinds DEF Settles, Settled
<1>7. \A op \in Writes : ~(q = r /\ "artifact" = l /\ op = p) => (Step(op, q, "artifact") \in Ahead(h)' <=> Step(op, q, "artifact") \in Ahead(h))
  BY <1>1, <1>2, SettleSets, TheKinds DEF AtFile
<1>8. \A op \in {"copy", "copyRest"} : Step(op, q, "artifact") \in Ahead(h)' <=> Step(op, q, "artifact") \in Ahead(h)
  BY <1>7 DEF Writes, Creates
<1>9. c.is = "artifact" => \A n \in DOMAIN c.data : run[h].version <= c.data[n] /\ c.data[n] <= source /\ c.data[n] \in Nat
  <2> SUFFICES ASSUME c.is = "artifact" PROVE \A n \in DOMAIN c.data : run[h].version <= c.data[n] /\ c.data[n] <= source /\ c.data[n] \in Nat
    OBVIOUS
  <2>1. \A n \in DOMAIN c.data : run[h].version <= c.data[n] /\ c.data[n] <= source
    BY <1>3, <1>4, <1>5 DEF DataOf
  <2>2. c.data \in Seq(Nat)
    BY <1>5, WhatIs
  <2>3. QED
    BY <2>1, <2>2
<1>10. c.is = "artifact" /\ Step("sync", q, "artifact") \notin Ahead(h)' => \A n \in DOMAIN c.data : c.data[n] = run[h].version
  <2> SUFFICES ASSUME c.is = "artifact", Step("sync", q, "artifact") \notin Ahead(h)' PROVE \A n \in DOMAIN c.data : c.data[n] = run[h].version
    OBVIOUS
  <2>1. CASE ~(q = r /\ "artifact" = l /\ "sync" = p)
    <3>1. Step("sync", q, "artifact") \notin Ahead(h)
      BY <1>7, <2>1 DEF Writes
    <3>2. QED
      BY <1>3, <1>4, <1>5, <3>1 DEF DataOf
  <2>2. CASE q = r /\ "artifact" = l /\ "sync" = p
    <3>1. SourceIsExact(h)
      BY <1>2, <2>2 DEF Settles
    <3>2. run[h].version \in Nat \ {0} /\ source \in Nat
      BY DEF Listed, Types
    <3>3. run[h].version = source
      BY <3>1, <3>2 DEF SourceIsExact, NoVersion
    <3>4. QED
      BY <1>9, <3>2, <3>3
  <2>3. QED
    BY <2>1, <2>2
<1>11. QED
  BY <1>1, <1>3, <1>4, <1>5, <1>6, <1>8, <1>10 DEF DataOf

(* The work of the helper that synchronizes, on both roots. *)
LEMMA SettleWork ==
  ASSUME Types, Disk, NEW h \in Helpers, Listed(h), ~Idle(h), \A q \in Roots : WorkOf(h, q),
         NEW r \in Roots, NEW l \in Kinds, NEW i \in Ids, Settles(h, r, l, i)
  PROVE  \A q \in Roots : WorkOf(h, q)'
<1> SUFFICES ASSUME NEW q \in Roots PROVE WorkOf(h, q)'
  OBVIOUS
<1>1. run' = run /\ held' = held /\ AtFile(h, r, l, i) /\ Head(todo[h]).op \in {"sync", "full"} /\ Proceeds(h)
  BY DEF Settles
<1>2. InSession(h)' = InSession(h) /\ Has(h, q)' = Has(h, q)
  <2>1. InSession(h)' = InSession(h) /\ Works(h, q)' = Works(h, q)
    BY <1>1, SettleSets, TheKinds
  <2>2. QED
    BY <1>1, <2>1 DEF Has
<1>3. SUFFICES ASSUME Has(h, q) PROVE (ReservationOf(h, q) /\ (\A k \in Kinds : FileOf(h, q, k)) /\ (InSession(h) => DataOf(h, q)))'
  BY <1>2 DEF WorkOf
<1>4. ReservationOf(h, q)'
  <2>1. ReservationOf(h, q)
    BY <1>3 DEF WorkOf
  <2>2. \A j \in Ids : May(q, "record", j)' \subseteq May(q, "record", j) /\ (Used(q, j)' => Used(q, j))
    BY TheKinds DEF Settles, Settled, Used
  <2>3. QED
    BY <1>1, <1>2, <2>1, <2>2 DEF ReservationOf
<1>5. ASSUME NEW k \in Kinds PROVE FileOf(h, q, k)'
  BY <1>3, SettleFile
<1>6. InSession(h)' => DataOf(h, q)'
  BY <1>2, <1>3, SettleData
<1>7. QED
  BY <1>4, <1>5, <1>6

-----------------------------------------------------------------------------
(* A step of one helper.                                                      *)

Alone(h) ==
  \A g \in Helpers \ {h} : todo'[g] = todo[g] /\ run'[g] = run[g] /\ held'[g] = held[g] /\ slots'[g] = slots[g]

(* A helper writes in one root at a time, and holds it. *)
Touches(h) == fs' = fs \/ \E r \in held[h] : \A q \in Roots \ {r} : fs'[q] = fs[q]

(* A step that leaves the files alone. *)
LEMMA SameDisk ==
  ASSUME Disk, fs' = fs
  PROVE  Disk' /\ Steady
<1>1. fs' \in [Roots -> [Kinds -> [Ids -> Files]]]
  BY DEF Disk
<1>2. \A r \in Roots, k \in Kinds, i \in Ids : SameContent(r, k, i)
  BY DEF SameContent, Now, May
<1>3. QED
  BY <1>1, <1>2, SameContentsKeep

(* What one helper does, no other one notices: who has work in a root has it locked. *)
LEMMA OthersStay ==
  ASSUME Types, Locks, Disk, source' \in Nat, source <= source', NEW h \in Helpers, Alone(h), Touches(h), held[h] \in SUBSET Roots,
         NEW g \in Helpers \ {h}, Listed(g), NEW q \in Roots, WorkOf(g, q)
  PROVE  Listed(g)' /\ WorkOf(g, q)'
<1>1. todo'[g] = todo[g] /\ run'[g] = run[g] /\ held'[g] = held[g] /\ slots'[g] = slots[g]
  BY DEF Alone
<1>2. Listed(g)'
  BY <1>1, ListedStays
<1>3. SameSteps(g)
  BY <1>1 DEF SameSteps, Ahead, InSession, IsOpen, Works
<1>4. CASE fs' = fs
  <2>1. WorkOf(g, q)'
    BY <1>1, <1>3, <1>4, SameWork
  <2>2. QED
    BY <1>2, <2>1
<1>5. CASE fs' # fs
  <2>1. PICK r \in held[h] : \A s \in Roots \ {r} : fs'[s] = fs[s]
    BY <1>5 DEF Touches
  <2>2. r \notin held[g] /\ r \in Roots
    BY <2>1 DEF Locks
  <2>3. CASE ~Has(g, q)
    <3>1. ~Has(g, q)'
      BY <1>1, <1>3, <2>3 DEF Has, SameSteps
    <3>2. QED
      BY <1>2, <3>1 DEF WorkOf
  <2>4. CASE Has(g, q)
    <3>1. ReservationOf(g, q)
      BY <2>4 DEF WorkOf
    <3>2. q # r /\ ~InSession(g)
      BY <2>2, <3>1 DEF ReservationOf
    <3>3. fs'[q] = fs[q]
      BY <2>1, <3>2
    <3>4. WorkOf(g, q)'
      BY <1>1, <1>3, <3>2, <3>3, SameWork
    <3>5. QED
      BY <1>2, <3>4
  <2>5. QED
    BY <2>3, <2>4
<1>6. QED
  BY <1>4, <1>5

(* A step of one helper keeps the invariant when it does so for that helper. *)
LEMMA HelperKeeps ==
  ASSUME IInv, NEW h \in Helpers, Alone(h), Touches(h), source' = source,
         Types', Locks', Disk', Steady,
         Listed(h)', \A r \in Roots : WorkOf(h, r)',
         \A s \in staged' : s \in staged \/ StagedOK(s)'
  PROVE  IInv' /\ Steady
<1>1. /\ Types /\ Locks /\ Disk
      /\ \A g \in Helpers : Listed(g) /\ \A r \in Roots : WorkOf(g, r)
      /\ \A s \in staged : StagedOK(s)
  BY DEF IInv
<1>2. source' \in Nat /\ source <= source'
  BY <1>1 DEF Types
<1>3. held[h] \in SUBSET Roots
  BY <1>1 DEF Types
<1>4. ASSUME NEW g \in Helpers PROVE Listed(g)' /\ \A r \in Roots : WorkOf(g, r)'
  <2>1. CASE g = h
    BY <2>1
  <2>2. CASE g # h
    <3>1. g \in Helpers \ {h}
      BY <2>2
    <3>2. ASSUME NEW r \in Roots PROVE Listed(g)' /\ WorkOf(g, r)'
      BY <1>1, <1>2, <1>3, <3>1, OthersStay
    <3>3. QED
      BY <3>2, TheRoots
  <2>3. QED
    BY <2>1, <2>2
<1>5. ASSUME NEW s \in staged' PROVE StagedOK(s)'
  BY <1>1, StagedStays
<1>6. QED
  BY <1>4, <1>5 DEF IInv

-----------------------------------------------------------------------------
(* The writes of a session are allowed.                                       *)

(* By the time of the lifecycle records both stages are finished. *)
LEMMA TheFinishedStage ==
  ASSUME Types, Disk, NEW h \in Helpers, Listed(h), ~Idle(h), Head(todo[h]).op \in Writes, Kind(h) \in Lifecycle,
         NEW q \in Roots, WorkOf(h, q), InSession(h)
  PROVE  LET j == run[h].ids[q]
             v == run[h].version
         IN  /\ j \in Ids /\ Has(h, q) /\ v \in Nat
             /\ Durable(q, "record", j) /\ Now(q, "record", j) = Record(run[h].header)
             /\ Durable(q, "artifact", j) /\ Now(q, "artifact", j) = Artifact(<<v, v>>)
             /\ Now(q, "artifact", j).data = <<v, v>>
<1>1. \A a \in Writes \cup {"reserve"}, k \in Kinds : k \notin Lifecycle => Step(a, q, k) \notin Ahead(h)
  <2> SUFFICES ASSUME NEW a \in Writes \cup {"reserve"}, NEW k \in Kinds, k \notin Lifecycle PROVE Step(a, q, k) \notin Ahead(h)
    OBVIOUS
  <2>1. Head(todo[h]).op \in Writes \cup {"reserve"}
    OBVIOUS
  <2>2. QED
    BY <2>1, Behind
<1>2. run[h].ids[q] # NoId /\ run[h].version \in Nat
  BY <1>1, TheKinds DEF Listed
<1>3. Has(h, q)
  BY <1>2 DEF Has, Works
<1>4. PICK j \in Ids : j = run[h].ids[q]
  BY <1>3 DEF WorkOf, ReservationOf
<1>5. (\A k \in Kinds : FileOf(h, q, k)) /\ DataOf(h, q)
  BY <1>3 DEF WorkOf
<1>6. ~IsOpen(h, q)
  BY DEF Listed
<1>7. \A a \in {"create", "copy", "copyRest", "write", "sync", "full"} : \A k \in {"record", "artifact"} :
         Step(a, q, k) \notin Ahead(h) /\ Done(h, a, q, k)
  BY <1>1, <1>6, TheKinds DEF Writes, Creates, Done
<1>8. Durable(q, "record", j) /\ Durable(q, "artifact", j)
  <2>1. FileOf(h, q, "artifact")
    BY <1>5, TheKinds
  <2>2. \A l \in Kinds : Place(l) <= Place("artifact") => Durable(q, l, j)
    BY <1>4, <1>7, <2>1 DEF FileOf
  <2>3. QED
    BY <2>2, ThePlaces, TheKinds
<1>9. Now(q, "record", j) = Record(run[h].header)
  <2>1. FileOf(h, q, "record")
    BY <1>5, TheKinds
  <2>2. Now(q, "record", j) = Expected(h, q, "record")
    BY <1>4, <1>7, <2>1 DEF FileOf
  <2>3. QED
    BY <2>2 DEF Expected
<1>10. PICK c \in Contents : c = Now(q, "artifact", j)
  BY TheFile, TheKinds
<1>11. c.is = "artifact" /\ Len(c.data) = 2 /\ \A n \in DOMAIN c.data : c.data[n] = run[h].version
  BY <1>4, <1>5, <1>7, <1>10 DEF DataOf
<1>12. PICK d \in Seq(Nat) : d = c.data /\ c = Artifact(d)
  BY <1>11, WhatIs
<1>13. PICK v \in Nat : v = run[h].version
  BY <1>2
<1>14. d = <<v, v>>
  <2>1. Len(d) = 2 /\ \A n \in DOMAIN d : d[n] = v
    BY <1>11, <1>12, <1>13
  <2>2. DOMAIN d = 1 .. 2 /\ d[1] = v /\ d[2] = v
    BY <2>1
  <2>3. QED
    BY <2>2
<1>15. QED
  BY <1>3, <1>4, <1>8, <1>9, <1>10, <1>12, <1>13, <1>14

(* What a helper writes, at the place where it is, is allowed. *)
LEMMA PutAllowed ==
  ASSUME Types, Disk, NEW h \in Helpers, Listed(h), ~Idle(h), \A q \in Roots : WorkOf(h, q),
         NEW r \in Roots, NEW l \in Kinds, NEW i \in Ids, NEW c, PutsIn(h, r, l, i, c),
         Head(todo[h]).op = "create" => l # "record" /\ (l # "artifact" => c = Torn)
  PROVE  Allowed(r, l, i, c)
<1>1. /\ AtFile(h, r, l, i) /\ Head(todo[h]).op \in Creates /\ c \in Contents /\ c # Gone
      /\ Head(todo[h]).op = "write" => c = Expected(h, r, l) /\ l # "artifact"
      /\ Head(todo[h]).op \in {"copy", "copyRest"} => l = "artifact"
      /\ l = "artifact" => c.is = "artifact"
  BY DEF PutsIn
<1>2. Head(todo[h]).op \in Writes /\ Head(todo[h]).op \in Holds /\ r = Root(h) /\ l = Kind(h)
  BY <1>1 DEF Writes, Holds, AtFile
<1>3. /\ run[h].ids[r] = i /\ Has(h, r) /\ ReservationOf(h, r)
      /\ \A k \in Kinds : FileOf(h, r, k)
      /\ \A k \in Kinds : Place(l) < Place(k) => ~MayBeFound(r, k, i)
      /\ ~Durable(r, l, i)
  BY <1>1, TheWritten
<1>4. (l # "record" => ~IsOpen(h, r)) /\ (l \in Lifecycle => InSession(h))
  BY <1>2, TheWorker
<1>5. c = Torn \/ c.is = "artifact" \/ c = Expected(h, r, l)
  BY <1>1 DEF Creates
<1>6. run[h].header \in Headers
  BY <1>3 DEF ReservationOf
<1>7. \A a \in Writes, k \in Kinds : Place(k) < Place(l) => Step(a, r, k) \notin Ahead(h)
  <2> SUFFICES ASSUME NEW a \in Writes, NEW k \in Kinds, Place(k) < Place(l) PROVE Step(a, r, k) \notin Ahead(h)
    OBVIOUS
  <2>1. a \in Writes \cup {"reserve"} /\ Head(todo[h]).op \in Writes \cup {"reserve"} /\ Place(k) < Place(Kind(h))
    BY <1>2
  <2>2. QED
    BY <1>2, <2>1, Behind
<1>8. \A a \in Writes, k \in Kinds : Place(k) < Place(l) /\ (k \in Lifecycle => InSession(h)) => Done(h, a, r, k)
  <2> SUFFICES ASSUME NEW a \in Writes, NEW k \in Kinds, Place(k) < Place(l), k \in Lifecycle => InSession(h) PROVE Done(h, a, r, k)
    OBVIOUS
  <2>1. l # "record"
    <3>1. Place(k) \in 1 .. 5
      BY ThePlaces
    <3>2. QED
      BY <3>1, ThePlaces
  <2>2. QED
    BY <1>4, <1>7, <2>1 DEF Done
<1>9. "create" \in Writes /\ "write" \in Writes /\ "sync" \in Writes /\ "full" \in Writes
  BY DEF Writes, Creates
<1>10. "record" \notin Lifecycle /\ "artifact" \notin Lifecycle /\ "seal" \notin Lifecycle
  BY TheKinds
<1>11. l = "record" => c = Torn \/ c.is = "record"
  <2>1. Expected(h, r, "record").is = "record"
    BY DEF Expected, Record
  <2>2. l = "record" => Head(todo[h]).op = "write"
    BY <1>1 DEF Creates
  <2>3. QED
    BY <1>1, <2>1, <2>2
<1>12. l # "record" => Now(r, "record", i) = Record(run[h].header)
  <2> SUFFICES ASSUME l # "record" PROVE Now(r, "record", i) = Record(run[h].header)
    OBVIOUS
  <2>1. Place("record") < Place(l)
    BY ThePlaces, TheKinds
  <2>2. Done(h, "write", r, "record") /\ FileOf(h, r, "record")
    BY <1>3, <1>8, <1>9, <1>10, <2>1, TheKinds
  <2>3. Now(r, "record", i) = Expected(h, r, "record")
    BY <1>3, <2>2 DEF FileOf
  <2>4. QED
    BY <2>3 DEF Expected
<1>13. l = "artifact" => \E x \in Headers :
          /\ Now(r, "record", i) = Record(x)
          /\ \A j \in Ids \ {i} : Used(r, j) => Record(x) \notin May(r, "record", j)
  BY <1>3, <1>6, <1>12 DEF ReservationOf
<1>14. l = "seal" =>
          /\ Durable(r, "record", i) /\ Durable(r, "artifact", i) /\ Now(r, "artifact", i).is = "artifact"
          /\ c.is = "seal" => Now(r, "record", i) = Record(c.header) /\ Now(r, "artifact", i) = Artifact(c.data)
  <2> SUFFICES ASSUME l = "seal"
               PROVE  /\ Durable(r, "record", i) /\ Durable(r, "artifact", i) /\ Now(r, "artifact", i).is = "artifact"
                      /\ c.is = "seal" => Now(r, "record", i) = Record(c.header) /\ Now(r, "artifact", i) = Artifact(c.data)
    OBVIOUS
  <2>1. Place("artifact") < Place(l)
    BY ThePlaces
  <2>2. Done(h, "full", r, "artifact") /\ Done(h, "create", r, "artifact") /\ FileOf(h, r, "artifact")
    BY <1>3, <1>8, <1>9, <1>10, <2>1, TheKinds
  <2>3. Now(r, "artifact", i).is = "artifact" /\ \A k \in Kinds : Place(k) <= Place("artifact") => Durable(r, k, i)
    BY <1>3, <2>2 DEF FileOf
  <2>4. Durable(r, "record", i) /\ Durable(r, "artifact", i)
    BY <2>3, ThePlaces, TheKinds
  <2>5. PICK a \in Contents : a = Now(r, "artifact", i)
    BY TheFile, TheKinds
  <2>6. a = Artifact(a.data)
    BY <2>3, <2>5, WhatIs
  <2>7. c.is = "seal" => c = Seal(run[h].header, a.data)
    <3>1. c.is = "seal" => c # Torn /\ c.is # "artifact"
      BY DEF Torn
    <3>2. Expected(h, r, "seal") = Seal(run[h].header, a.data)
      BY <1>3, <2>5 DEF Expected
    <3>3. QED
      BY <1>5, <3>1, <3>2
  <2>8. c.is = "seal" => c.header = run[h].header /\ c.data = a.data
    BY <2>7 DEF Seal
  <2>9. QED
    BY <1>12, <2>3, <2>4, <2>5, <2>6, <2>8
<1>15. l = "pairSeal" => Durable(r, "pair", i) /\ Durable(r, "seal", i)
  <2> SUFFICES ASSUME l = "pairSeal" PROVE Durable(r, "pair", i) /\ Durable(r, "seal", i)
    OBVIOUS
  <2>1. Place("pair") < Place(l) /\ InSession(h)
    BY <1>4, ThePlaces, TheKinds
  <2>2. Done(h, "full", r, "pair") /\ FileOf(h, r, "pair")
    BY <1>3, <1>8, <1>9, <2>1, TheKinds
  <2>3. \A k \in Kinds : Place(k) <= Place("pair") => Durable(r, k, i)
    BY <1>3, <2>2 DEF FileOf
  <2>4. QED
    BY <2>3, ThePlaces, TheKinds
<1>16. l \in Lifecycle /\ c.is = "pair" => c = Manifest(h)
  <2>1. c.is = "pair" => c # Torn /\ c.is # "artifact"
    BY DEF Torn
  <2>2. l \in Lifecycle => Expected(h, r, l) = Manifest(h)
    BY DEF Expected, Lifecycle
  <2>3. QED
    BY <1>5, <2>1, <2>2
<1>17. l \in Lifecycle /\ c.is = "pair" => c.ids[r] = i /\ Backed(c)
  <2> SUFFICES ASSUME l \in Lifecycle, c.is = "pair" PROVE c.ids[r] = i /\ Backed(c)
    OBVIOUS
  <2>1. c = Manifest(h)
    BY <1>16
  <2>2. /\ c.ids = run[h].ids /\ c.header = run[h].header /\ c.version = run[h].version
        /\ c.seals = [q \in Roots |-> Now(q, "artifact", run[h].ids[q]).data]
    BY <2>1 DEF Manifest, Pair
  <2>3. InSession(h) /\ Kind(h) \in Lifecycle
    BY <1>2, <1>4
  <2>4. ASSUME NEW q \in Roots
        PROVE  /\ Durable(q, "record", c.ids[q]) /\ Now(q, "record", c.ids[q]) = Record(c.header)
               /\ Durable(q, "artifact", c.ids[q])
               /\ Now(q, "artifact", c.ids[q]) = Artifact(<<c.version, c.version>>)
               /\ c.seals[q] = <<c.version, c.version>>
    <3>1. PICK j, v : j = run[h].ids[q] /\ v = run[h].version
      OBVIOUS
    <3>2. /\ Durable(q, "record", j) /\ Now(q, "record", j) = Record(run[h].header)
          /\ Durable(q, "artifact", j) /\ Now(q, "artifact", j) = Artifact(<<v, v>>)
          /\ Now(q, "artifact", j).data = <<v, v>>
      BY <1>2, <2>3, <3>1, TheFinishedStage
    <3>3. c.ids[q] = j /\ c.version = v /\ c.seals[q] = Now(q, "artifact", j).data
      BY <2>2, <3>1
    <3>4. QED
      BY <2>2, <3>2, <3>3
  <2>5. QED
    BY <1>3, <2>2, <2>4 DEF Backed
<1>18. l = "pair" /\ r = Second /\ c.is = "pair" => Durable(First, "pairSeal", c.ids[First])
  <2> SUFFICES ASSUME l = "pair", r = Second, c.is = "pair" PROVE Durable(First, "pairSeal", c.ids[First])
    OBVIOUS
  <2>1. c = Manifest(h) /\ InSession(h) /\ First \in Roots /\ "pairSeal" \in Kinds /\ "pairSeal" \in Lifecycle
    BY <1>4, <1>16, TheKinds, TheRoots
  <2>2. c.ids = run[h].ids
    BY <2>1 DEF Manifest, Pair
  <2>3. Step("full", First, "pairSeal") \notin Ahead(h)
    <3>1. "full" \in Writes \cup {"reserve"} /\ Head(todo[h]).op \in Writes \cup {"reserve"} /\ Kind(h) \in Lifecycle /\ Root(h) = Second
      BY <1>2, TheKinds DEF Writes
    <3>2. QED
      BY <2>1, <3>1, Behind
  <2>4. Has(h, First)
    BY <1>2, <2>1, TheFinishedStage, TheKinds
  <2>5. FileOf(h, First, "pairSeal")
    BY <2>1, <2>4 DEF WorkOf
  <2>6. ~IsOpen(h, First)
    BY <2>1 DEF Listed
  <2>7. Done(h, "full", First, "pairSeal")
    BY <2>1, <2>3, <2>6 DEF Done
  <2>8. \A k \in Kinds : Place(k) <= Place("pairSeal") => Durable(First, k, run[h].ids[First])
    BY <2>5, <2>7 DEF FileOf
  <2>9. QED
    BY <2>1, <2>2, <2>8, ThePlaces
<1>19. QED
  BY <1>1, <1>3, <1>11, <1>13, <1>14, <1>15, <1>17, <1>18 DEF Allowed

(* The three steps that write keep the invariant. *)
LEMMA PutsKeep ==
  ASSUME IInv, NEW h \in Helpers, ~Idle(h),
         NEW r \in Roots, NEW l \in Kinds, NEW i \in Ids, NEW c, PutsIn(h, r, l, i, c),
         Head(todo[h]).op = "create" => l # "record" /\ (l # "artifact" => c = Torn),
         l = "artifact" /\ InSession(h) => DataIn(h, r, i, c),
         slots' = slots, staged' = staged
  PROVE  IInv' /\ Steady
<1>1. /\ Types /\ Locks /\ Disk /\ Listed(h) /\ \A q \in Roots : WorkOf(h, q)
  BY DEF IInv
<1>2. /\ AtFile(h, r, l, i) /\ Head(todo[h]).op \in Creates /\ Put(r, l, i, c) /\ Proceeds(h)
      /\ run' = run /\ source' = source /\ held' = held
  BY DEF PutsIn
<1>3. Head(todo[h]).op \in Writes /\ Head(todo[h]).op \in Holds
  BY <1>2 DEF Writes, Holds
<1>4. Allowed(r, l, i, c)
  BY <1>1, PutAllowed
<1>5. Disk' /\ Steady
  BY <1>1, <1>2, <1>4, PutKeeps, PutIsSteady
<1>6. /\ todo' \in [Helpers -> Seq(Steps)]
      /\ \A g \in Helpers \ {h} : todo'[g] = todo[g]
  BY <1>1, <1>2, Proceeding
<1>7. Types' /\ Locks' /\ Alone(h)
  BY <1>1, <1>2, <1>6 DEF Types, Locks, Alone
<1>8. Touches(h)
  <2>1. r \in held[h]
    BY <1>1, <1>2, <1>3, TheWorker DEF AtFile
  <2>2. \A q \in Roots \ {r} : fs'[q] = fs[q]
    BY <1>1, <1>2 DEF Put, Disk
  <2>3. QED
    BY <2>1, <2>2 DEF Touches
<1>9. Listed(h)'
  <2>1. Head(todo[h]).op # "lock" /\ Head(todo[h]).op # "sync"
    BY <1>2 DEF Creates
  <2>2. QED
    BY <1>1, <1>2, <1>3, <2>1, ListedProceeds
<1>10. \A q \in Roots : WorkOf(h, q)'
  BY <1>1, PutWork
<1>11. QED
  BY <1>2, <1>5, <1>7, <1>8, <1>9, <1>10, HelperKeeps

(* The file at which a helper works. *)
LEMMA TheFileAtHead ==
  ASSUME IInv, NEW h \in Helpers, ~Idle(h), Head(todo[h]).op \in Writes
  PROVE  /\ AtFile(h, Root(h), Kind(h), Id(h)) /\ run[h].ids[Root(h)] = Id(h)
         /\ Root(h) \in held[h] /\ Has(h, Root(h)) /\ WellFormed(Head(todo[h])) /\ Head(todo[h]).kind = Kind(h)
         /\ ReservationOf(h, Root(h)) /\ \A k \in Kinds : FileOf(h, Root(h), k)
         /\ (Kind(h) # "record" => ~IsOpen(h, Root(h)))
         /\ (Head(todo[h]).op \in {"copy", "copyRest"} \/ Kind(h) \in Lifecycle => InSession(h))
<1>1. Types /\ Listed(h) /\ \A q \in Roots : WorkOf(h, q)
  BY DEF IInv
<1>2. Head(todo[h]).op \in Holds
  BY DEF Holds
<1>3. Root(h) \in Roots /\ Kind(h) \in Kinds /\ WellFormed(Head(todo[h]))
  BY <1>1, AtHead
<1>4. /\ run[h].ids[Root(h)] \in Ids /\ Has(h, Root(h)) /\ Root(h) \in held[h] /\ (Kind(h) # "record" => ~IsOpen(h, Root(h)))
      /\ (Head(todo[h]).op \in {"copy", "copyRest"} \/ Kind(h) \in Lifecycle => InSession(h))
  BY <1>1, <1>2, TheWorker
<1>5. ReservationOf(h, Root(h)) /\ \A k \in Kinds : FileOf(h, Root(h), k)
  BY <1>1, <1>3, <1>4 DEF WorkOf
<1>6. QED
  BY <1>3, <1>4, <1>5 DEF AtFile, Id, Kind

(* One lemma for each action from here on. *)
LEMMA CreateKeeps ==
  ASSUME IInv, NEW h \in Helpers, Create(h)
  PROVE  IInv' /\ Steady
<1>1. /\ ~Idle(h) /\ Head(todo[h]).op = "create"
      /\ Now(Root(h), Kind(h), Id(h)) = Gone
      /\ Put(Root(h), Kind(h), Id(h), IF Kind(h) = "artifact" THEN Artifact(<<>>) ELSE Torn)
      /\ Proceeds(h)
      /\ source' = source /\ run' = run /\ held' = held /\ slots' = slots /\ staged' = staged
  BY DEF Create, At, Idle
<1>2. AtFile(h, Root(h), Kind(h), Id(h)) /\ WellFormed(Head(todo[h])) /\ Head(todo[h]).kind = Kind(h)
  BY <1>1, TheFileAtHead DEF Writes, Creates
<1>3. PICK r \in Roots, l \in Kinds, i \in Ids : r = Root(h) /\ l = Kind(h) /\ i = Id(h)
  BY <1>2 DEF AtFile
<1>4. PICK c : c = IF l = "artifact" THEN Artifact(<<>>) ELSE Torn
  OBVIOUS
<1>5. l # "record"
  BY <1>1, <1>2, <1>3 DEF WellFormed
<1>6. c \in Contents /\ c # Gone /\ (l = "artifact" => c.is = "artifact" /\ c = Artifact(<<>>)) /\ (l # "artifact" => c = Torn)
  <2>1. <<>> \in Seq(Nat)
    OBVIOUS
  <2>2. QED
    BY <1>4, <2>1, TheContents
<1>7. PutsIn(h, r, l, i, c)
  BY <1>1, <1>2, <1>3, <1>4, <1>6 DEF PutsIn, Creates
<1>8. l = "artifact" => DataIn(h, r, i, c)
  BY <1>1, <1>6 DEF DataIn
<1>9. QED
  BY <1>1, <1>5, <1>6, <1>7, <1>8, PutsKeep

LEMMA CopyChunkKeeps ==
  ASSUME IInv, NEW h \in Helpers, CopyChunk(h)
  PROVE  IInv' /\ Steady
<1>1. /\ ~Idle(h) /\ Head(todo[h]).op \in {"copy", "copyRest"}
      /\ Root(h) = "destination" => SourceIsExact(h)
      /\ Proceeds(h)
      /\ source' = source /\ run' = run /\ held' = held /\ slots' = slots /\ staged' = staged
  BY DEF CopyChunk, At, Idle
<1>2. Types /\ Disk /\ Listed(h) /\ \A q \in Roots : WorkOf(h, q)
  BY DEF IInv
<1>3. /\ AtFile(h, Root(h), Kind(h), Id(h)) /\ WellFormed(Head(todo[h])) /\ Head(todo[h]).kind = Kind(h) /\ run[h].ids[Root(h)] = Id(h)
      /\ Has(h, Root(h)) /\ ~IsOpen(h, Root(h)) /\ InSession(h) /\ Kind(h) = "artifact" /\ \A k \in Kinds : FileOf(h, Root(h), k)
  <2>1. Head(todo[h]).op \in Writes
    BY <1>1 DEF Writes, Creates
  <2>2. Kind(h) = "artifact"
    BY <1>1, <2>1, TheFileAtHead DEF WellFormed
  <2>3. QED
    BY <1>1, <2>1, <2>2, TheFileAtHead
<1>4. PICK r \in Roots, i \in Ids : r = Root(h) /\ i = Id(h)
  BY <1>3 DEF AtFile
<1>5. PICK op \in {"copy", "copyRest"} : op = Head(todo[h]).op
  BY <1>1
<1>6. \A a \in Writes : Turn(a) < Turn(op) => Step(a, r, "artifact") \notin Ahead(h)
  <2> SUFFICES ASSUME NEW a \in Writes, Turn(a) < Turn(op) PROVE Step(a, r, "artifact") \notin Ahead(h)
    OBVIOUS
  <2>1. a \in Writes \cup {"reserve"} /\ Head(todo[h]).op \in Writes \cup {"reserve"} /\ "artifact" \in Kinds
    BY <1>1, TheKinds DEF Writes, Creates
  <2>2. QED
    BY <1>1, <1>2, <1>3, <1>4, <1>5, <2>1, Behind
<1>7. PICK old \in Contents : old = Now(r, "artifact", i)
  BY <1>2, TheFile, TheKinds
<1>8. old.is = "artifact"
  <2>1. Step("create", r, "artifact") \notin Ahead(h)
    BY <1>6, TheTurns DEF Writes, Creates
  <2>2. Done(h, "create", r, "artifact")
    BY <1>3, <1>4, <2>1, TheKinds DEF Done
  <2>3. FileOf(h, r, "artifact")
    BY <1>3, <1>4, TheKinds
  <2>4. QED
    BY <1>3, <1>4, <1>7, <2>2, <2>3 DEF FileOf
<1>9. PICK data \in Seq(Nat) : data = old.data
  BY <1>8, WhatIs
<1>10. run[h].version \in Nat \ {0} /\ run[h].version <= source /\ source \in Nat
  BY <1>2, <1>3 DEF Listed, Types
<1>11. PICK x : x = IF r = "source" THEN source ELSE Now("source", "artifact", run[h].ids["source"]).data[Len(data) + 1]
  OBVIOUS
<1>12. Put(r, "artifact", i, Artifact(Append(data, x)))
  BY <1>4, <1>7, <1>9, <1>11 DEF CopyChunk
<1>13. r = "destination" => x = run[h].version
  <2> SUFFICES ASSUME r = "destination" PROVE x = run[h].version
    OBVIOUS
  <2>1. \A a \in Writes \cup {"reserve"}, k \in {"record", "artifact", "seal"} : Step(a, "source", k) \notin Ahead(h)
    <3> SUFFICES ASSUME NEW a \in Writes \cup {"reserve"}, NEW k \in {"record", "artifact", "seal"} PROVE Step(a, "source", k) \notin Ahead(h)
      OBVIOUS
    <3>1. Head(todo[h]).op \in Writes \cup {"reserve"} /\ k \in Kinds /\ k \notin Lifecycle /\ Kind(h) \notin Lifecycle /\ Root(h) = "destination"
      BY <1>1, <1>3, <1>4, TheKinds DEF Writes, Creates
    <3>2. QED
      BY <1>1, <1>2, <3>1, TheRoots, Behind
  <2>2. run[h].ids["source"] # NoId
    BY <1>2, <1>3, <2>1, TheRoots DEF Listed
  <2>3. Has(h, "source")
    BY <1>3, <2>2 DEF Has, Works
  <2>4. DataOf(h, "source") /\ run[h].ids["source"] \in Ids
    BY <1>2, <1>3, <2>3, TheRoots DEF WorkOf, ReservationOf
  <2>5. PICK s \in Contents : s = Now("source", "artifact", run[h].ids["source"])
    BY <1>2, <2>4, TheFile, TheRoots, TheKinds
  <2>6. s.is = "artifact" /\ Len(s.data) = 2 /\ \A n \in DOMAIN s.data : s.data[n] = run[h].version
    <3>1. Step("copyRest", "source", "artifact") \notin Ahead(h) /\ Step("sync", "source", "artifact") \notin Ahead(h)
      BY <2>1 DEF Writes, Creates
    <3>2. QED
      BY <2>4, <2>5, <3>1 DEF DataOf
  <2>7. s.data \in Seq(Nat)
    BY <2>6, WhatIs
  <2>8. Len(data) \in {0, 1}
    <3>1. DataOf(h, r)
      BY <1>2, <1>3, <1>4 DEF WorkOf
    <3>2. Step(op, r, "artifact") \in Ahead(h)
      <4>1. Head(todo[h]) \in Ahead(h) /\ Head(todo[h]) = Step(Head(todo[h]).op, Root(h), Kind(h))
        BY <1>1, <1>2, AtHead
      <4>2. QED
        BY <1>3, <1>4, <1>5, <4>1
    <3>3. Step("copyRest", r, "artifact") \in Ahead(h)
      BY <3>1, <3>2 DEF DataOf
    <3>4. QED
      BY <1>3, <1>4, <1>7, <1>8, <1>9, <3>1, <3>3 DEF DataOf
  <2>9. PICK n \in 1 .. 2 : n = Len(data) + 1
    <3>1. PICK m \in {0, 1} : m = Len(data)
      BY <2>8
    <3>2. m + 1 \in 1 .. 2
      OBVIOUS
    <3>3. QED
      BY <3>1, <3>2
  <2>10. n \in DOMAIN s.data
    BY <2>6, <2>7
  <2>11. x = s.data[n]
    <3>1. "destination" # "source"
      OBVIOUS
    <3>2. QED
      BY <1>11, <2>5, <2>9, <3>1
  <2>12. QED
    BY <2>6, <2>10, <2>11
<1>14. x \in Nat /\ run[h].version <= x /\ x <= source
  <2>1. CASE r = "destination"
    BY <1>10, <1>13, <2>1
  <2>2. CASE r = "source"
    BY <1>10, <1>11, <2>2
  <2>3. QED
    BY <2>1, <2>2 DEF Roots
<1>15. PICK c : c = Artifact(Append(data, x))
  OBVIOUS
<1>16. c \in Contents /\ c # Gone /\ c.is = "artifact"
  <2>1. Append(data, x) \in Seq(Nat)
    BY <1>14
  <2>2. QED
    BY <1>15, <2>1, TheContents
<1>17. PutsIn(h, r, "artifact", i, c)
  <2>1. Head(todo[h]).op \in Creates /\ Head(todo[h]).op # "create" /\ Head(todo[h]).op # "write"
    BY <1>1 DEF Creates
  <2>2. AtFile(h, r, "artifact", i)
    BY <1>3, <1>4
  <2>3. QED
    BY <1>1, <1>12, <1>15, <1>16, <2>1, <2>2 DEF PutsIn
<1>18. DataIn(h, r, i, c)
  BY <1>1, <1>7, <1>9, <1>13, <1>14, <1>15 DEF DataIn
<1>19. Head(todo[h]).op # "create" /\ "artifact" \in Kinds
  BY <1>1, TheKinds
<1>20. QED
  BY <1>1, <1>17, <1>18, <1>19, PutsKeep

LEMMA WriteContentKeeps ==
  ASSUME IInv, NEW h \in Helpers, WriteContent(h)
  PROVE  IInv' /\ Steady
<1>1. /\ ~Idle(h) /\ Head(todo[h]).op = "write"
      /\ Put(Root(h), Kind(h), Id(h), Content(h))
      /\ Proceeds(h)
      /\ source' = source /\ run' = run /\ held' = held /\ slots' = slots /\ staged' = staged
  BY DEF WriteContent, At, Idle
<1>2. Types /\ Disk /\ Listed(h) /\ \A q \in Roots : WorkOf(h, q)
  BY DEF IInv
<1>3. Head(todo[h]).op \in Writes
  BY <1>1 DEF Writes, Creates
<1>4. /\ AtFile(h, Root(h), Kind(h), Id(h)) /\ WellFormed(Head(todo[h])) /\ Head(todo[h]).kind = Kind(h) /\ run[h].ids[Root(h)] = Id(h)
      /\ (Kind(h) # "record" => ~IsOpen(h, Root(h))) /\ (Kind(h) \in Lifecycle => InSession(h))
      /\ ReservationOf(h, Root(h)) /\ \A k \in Kinds : FileOf(h, Root(h), k)
  BY <1>1, <1>3, TheFileAtHead
<1>5. PICK r \in Roots, l \in Kinds, i \in Ids : r = Root(h) /\ l = Kind(h) /\ i = Id(h)
  BY <1>4 DEF AtFile
<1>6. l # "artifact"
  BY <1>1, <1>4, <1>5 DEF WellFormed
<1>7. Content(h) = Expected(h, r, l)
  BY <1>4, <1>5, <1>6, TheKinds DEF Content, Expected
<1>8. run[h].header \in Headers
  BY <1>4 DEF ReservationOf
<1>9. Expected(h, r, l) \in Contents
  <2>1. CASE l = "record"
    BY <1>8, <2>1, TheContents DEF Expected
  <2>2. CASE l = "seal"
    <3>1. Step("create", r, "artifact") \notin Ahead(h)
      <4>1. "create" \in Writes \cup {"reserve"} /\ Head(todo[h]).op \in Writes \cup {"reserve"} /\ r = Root(h) /\ Place("artifact") < Place(Kind(h))
        BY <1>3, <1>5, <2>2, ThePlaces DEF Writes, Creates
      <4>2. QED
        BY <1>1, <1>2, <4>1, TheKinds, Behind
    <3>2. Done(h, "create", r, "artifact")
      BY <1>4, <1>5, <2>2, <3>1, TheKinds DEF Done
    <3>3. FileOf(h, r, "artifact")
      BY <1>4, <1>5, TheKinds
    <3>4. PICK a \in Contents : a = Now(r, "artifact", i)
      BY <1>2, TheFile, TheKinds
    <3>5. a.is = "artifact"
      BY <1>4, <1>5, <3>2, <3>3, <3>4 DEF FileOf
    <3>6. a.data \in Seq(Nat)
      BY <3>5, WhatIs
    <3>7. Expected(h, r, l) = Seal(run[h].header, a.data)
      BY <1>4, <1>5, <2>2, <3>4 DEF Expected
    <3>8. QED
      BY <1>8, <3>6, <3>7, TheContents
  <2>3. CASE l \in Lifecycle
    <3>1. InSession(h) /\ Kind(h) \in Lifecycle
      BY <1>4, <1>5, <2>3
    <3>2. ASSUME NEW q \in Roots
          PROVE  /\ run[h].ids[q] \in Ids /\ run[h].version \in Nat
                 /\ Now(q, "artifact", run[h].ids[q]).data = <<run[h].version, run[h].version>>
      BY <1>1, <1>2, <1>3, <3>1, TheFinishedStage
    <3>3. PICK seals : seals = [q \in Roots |-> Now(q, "artifact", run[h].ids[q]).data]
      OBVIOUS
    <3>4. PICK v \in Nat : v = run[h].version
      BY <3>2, TheRoots
    <3>5. seals \in [Roots -> Seq(Nat)]
      <4>1. <<v, v>> \in Seq(Nat)
        OBVIOUS
      <4>2. \A q \in Roots : seals[q] = <<v, v>>
        BY <3>2, <3>3, <3>4
      <4>3. QED
        BY <3>3, <4>1, <4>2
    <3>6. PICK ids : ids = run[h].ids
      OBVIOUS
    <3>7. ids \in [Roots -> Ids]
      <4>1. ids \in [Roots -> Ids \cup {NoId}]
        BY <1>2, <3>6 DEF Types
      <4>2. QED
        BY <3>2, <3>6, <4>1
    <3>8. Expected(h, r, l) = Pair(run[h].header, ids, v, seals)
      <4>1. Expected(h, r, l) = Manifest(h)
        BY <2>3 DEF Expected, Lifecycle
      <4>2. QED
        BY <3>3, <3>4, <3>6, <4>1 DEF Manifest
    <3>9. PICK x \in Headers : x = run[h].header
      BY <1>8
    <3>10. Pair(x, ids, v, seals) \in Contents
      BY <3>5, <3>7, TheContents
    <3>11. QED
      BY <3>8, <3>9, <3>10
  <2>4. QED
    BY <1>6, <2>1, <2>2, <2>3, TheKinds
<1>10. PICK c : c = Expected(h, r, l)
  OBVIOUS
<1>11. PutsIn(h, r, l, i, c)
  <2>1. Head(todo[h]).op \in Creates /\ Head(todo[h]).op # "create" /\ Head(todo[h]).op \notin {"copy", "copyRest"}
    BY <1>1 DEF Creates
  <2>2. AtFile(h, r, l, i)
    BY <1>4, <1>5
  <2>3. Put(r, l, i, c)
    BY <1>1, <1>5, <1>7, <1>10
  <2>4. c # Gone
    BY <1>10, ExpectedIsNotGone
  <2>5. QED
    BY <1>1, <1>6, <1>9, <1>10, <2>1, <2>2, <2>3, <2>4 DEF PutsIn
<1>12. Head(todo[h]).op # "create"
  BY <1>1
<1>13. QED
  BY <1>1, <1>6, <1>11, <1>12, PutsKeep

(* The two steps that synchronize keep the invariant. *)
LEMMA SettlesKeep ==
  ASSUME IInv, NEW h \in Helpers, ~Idle(h),
         NEW r \in Roots, NEW l \in Kinds, NEW i \in Ids, Settles(h, r, l, i), Disk', Steady,
         \A q \in Roots \ {r} : fs'[q] = fs[q],
         slots' \in [Helpers -> SUBSET [root : Roots, header : Headers, id : Ids]], slots[h] \subseteq slots'[h],
         \A g \in Helpers \ {h} : slots'[g] = slots[g],
         Head(todo[h]).op = "sync" /\ l = "record" => slots'[h] # {},
         staged' = staged
  PROVE  IInv' /\ Steady
<1>1. /\ Types /\ Locks /\ Disk /\ Listed(h) /\ \A q \in Roots : WorkOf(h, q)
  BY DEF IInv
<1>2. /\ AtFile(h, r, l, i) /\ Head(todo[h]).op \in {"sync", "full"} /\ Proceeds(h)
      /\ run' = run /\ source' = source /\ held' = held
  BY DEF Settles
<1>3. Head(todo[h]).op \in Writes /\ Head(todo[h]).op \in Holds
  BY <1>2 DEF Writes, Holds
<1>4. /\ todo' \in [Helpers -> Seq(Steps)]
      /\ \A g \in Helpers \ {h} : todo'[g] = todo[g]
  BY <1>1, <1>2, Proceeding
<1>5. Types' /\ Locks' /\ Alone(h)
  BY <1>1, <1>2, <1>4 DEF Types, Locks, Alone
<1>6. Touches(h)
  <2>1. r \in held[h]
    BY <1>1, <1>2, <1>3, TheWorker DEF AtFile
  <2>2. QED
    BY <2>1 DEF Touches
<1>7. Listed(h)'
  <2>1. Head(todo[h]).op # "lock" /\ l = Kind(h)
    BY <1>2 DEF AtFile
  <2>2. QED
    BY <1>1, <1>2, <1>3, <2>1, ListedProceeds
<1>8. \A q \in Roots : WorkOf(h, q)'
  BY <1>1, SettleWork
<1>9. QED
  BY <1>2, <1>5, <1>6, <1>7, <1>8, HelperKeeps

LEMMA SynchronizeKeeps ==
  ASSUME IInv, NEW h \in Helpers, Synchronize(h)
  PROVE  IInv' /\ Steady
<1>1. /\ ~Idle(h) /\ Head(todo[h]).op = "sync"
      /\ Kind(h) = "artifact" => SourceIsExact(h)
      /\ fs' = HandedOver(fs, Root(h), {<<Kind(h), Id(h)>>})
      /\ Proceeds(h)
      /\ source' = source /\ run' = run /\ held' = held /\ staged' = staged
  BY DEF Synchronize, At, Idle
<1>2. Types /\ Disk
  BY DEF IInv
<1>3. AtFile(h, Root(h), Kind(h), Id(h)) /\ ReservationOf(h, Root(h))
  BY <1>1, TheFileAtHead DEF Writes
<1>4. PICK r \in Roots, l \in Kinds, i \in Ids : r = Root(h) /\ l = Kind(h) /\ i = Id(h)
  BY <1>3 DEF AtFile
<1>5. PICK x \in Headers : x = run[h].header
  BY <1>3 DEF ReservationOf
<1>6. slots' = [slots EXCEPT ![h] = IF l # "record" THEN slots[h] ELSE slots[h] \cup {[root |-> r, header |-> x, id |-> i]}]
  BY <1>2, <1>4, <1>5 DEF Synchronize, Types
<1>7. /\ slots' \in [Helpers -> SUBSET [root : Roots, header : Headers, id : Ids]] /\ slots[h] \subseteq slots'[h]
      /\ \A g \in Helpers \ {h} : slots'[g] = slots[g]
      /\ l = "record" => slots'[h] # {}
  <2>1. slots \in [Helpers -> SUBSET [root : Roots, header : Headers, id : Ids]]
    BY <1>2 DEF Types
  <2>2. [root |-> r, header |-> x, id |-> i] \in [root : Roots, header : Headers, id : Ids]
    OBVIOUS
  <2>3. QED
    BY <1>6, <2>1, <2>2
<1>8. fs' = HandedOver(fs, r, {<<l, i>>})
  BY <1>1, <1>4
<1>9. Disk' /\ Steady
  BY <1>2, <1>8, HandedOverKeeps
<1>10. Settled(r, l, i, "sync")
  BY <1>2, <1>8, HandedOverSettles
<1>11. \A q \in Roots \ {r} : fs'[q] = fs[q]
  <2>1. fs \in [Roots -> [Kinds -> [Ids -> Files]]]
    BY <1>2 DEF Disk
  <2>2. QED
    BY <1>8, <2>1, HandedOverMoves
<1>12. Settles(h, r, l, i)
  BY <1>1, <1>3, <1>4, <1>10 DEF Settles
<1>13. QED
  BY <1>1, <1>7, <1>9, <1>11, <1>12, SettlesKeep

LEMMA FullSyncKeeps ==
  ASSUME IInv, NEW h \in Helpers, FullSync(h)
  PROVE  IInv' /\ Steady
<1>1. /\ ~Idle(h) /\ Head(todo[h]).op = "full"
      /\ FlushDrive(Root(h))
      /\ Proceeds(h)
      /\ source' = source /\ run' = run /\ held' = held /\ slots' = slots /\ staged' = staged
  BY DEF FullSync, At, Idle
<1>2. Types /\ Disk
  BY DEF IInv
<1>3. AtFile(h, Root(h), Kind(h), Id(h))
  BY <1>1, TheFileAtHead DEF Writes
<1>4. PICK r \in Roots, l \in Kinds, i \in Ids : r = Root(h) /\ l = Kind(h) /\ i = Id(h)
  BY <1>3 DEF AtFile
<1>5. slots' \in [Helpers -> SUBSET [root : Roots, header : Headers, id : Ids]] /\ slots[h] \subseteq slots'[h]
      /\ \A g \in Helpers \ {h} : slots'[g] = slots[g]
  BY <1>1, <1>2 DEF Types
<1>6. FlushDrive(r)
  BY <1>1, <1>4
<1>7. Disk' /\ Steady
  BY <1>2, <1>6, FlushDriveKeeps
<1>8. Settled(r, l, i, "full")
  BY <1>2, <1>6, FlushDriveSettles
<1>9. \A q \in Roots \ {r} : fs'[q] = fs[q]
  <2>1. fs \in [Roots -> [Kinds -> [Ids -> Files]]]
    BY <1>2 DEF Disk
  <2>2. QED
    BY <1>6, <2>1, FlushDriveMoves
<1>10. Settles(h, r, l, i)
  BY <1>1, <1>3, <1>4, <1>8 DEF Settles
<1>11. Head(todo[h]).op # "sync"
  BY <1>1
<1>12. QED
  BY <1>1, <1>5, <1>7, <1>9, <1>10, <1>11, SettlesKeep

-----------------------------------------------------------------------------
(* Steps that leave the roots alone.                                          *)

(* A step of one helper that leaves the files alone. *)
LEMMA QuietKeeps ==
  ASSUME IInv, NEW h \in Helpers, Alone(h), fs' = fs, source' = source,
         Types', Locks', Listed(h)', \A r \in Roots : WorkOf(h, r)',
         \A s \in staged' : s \in staged \/ StagedOK(s)'
  PROVE  IInv' /\ Steady
<1>1. Disk' /\ Steady
  BY SameDisk DEF IInv
<1>2. Touches(h)
  BY DEF Touches
<1>3. QED
  BY <1>1, <1>2, HelperKeeps

(* Nothing is asked of a helper that has no work in a root. *)
LEMMA WithoutWork ==
  ASSUME NEW h \in Helpers, \A r \in Roots : ~Works(h, r)' \/ (run[h].ids[r])' = NoId
  PROVE  \A r \in Roots : WorkOf(h, r)'
BY DEF WorkOf, Has

(* Steps that need nothing. *)
LEMMA FreeList ==
  ASSUME NEW h \in Helpers, (todo[h] \in Seq(Steps) /\ InOrder(todo[h]))',
         \A t \in Ahead(h)' : t.op \in {"lock", "staged", "validate", "permit"}
  PROVE  Listed(h)' /\ \A r \in Roots : ~Works(h, r)'
<1>1. \A r \in Roots : ~IsOpen(h, r)' /\ ~Works(h, r)' /\ Step("reserve", r, "record") \notin Ahead(h)'
  BY DEF IsOpen, Works, InSession, Returning, Step
<1>2. ~InSession(h)'
  BY DEF InSession, Returning, Step
<1>3. ASSUME NEW t \in Ahead(h)'
      PROVE  /\ t.root \in Roots /\ t.op \notin Holds /\ t.op \notin Writes /\ t.op \notin {"copy", "copyRest", "return", "reserve", "scan"}
             /\ t.kind \notin Lifecycle
  <2>1. t \in Steps
    BY DEF Ahead, Elements
  <2>2. t.root \in Roots /\ WellFormed(t) /\ t.op \in {"lock", "staged", "validate", "permit"}
    BY <2>1, TheOtherRanks
  <2>3. t.kind \in {"record", "artifact"}
    BY <2>2 DEF WellFormed
  <2>4. QED
    BY <2>2, <2>3, TheKinds DEF Holds, Writes, Creates
<1>4. QED
  BY <1>1, <1>2, <1>3 DEF Listed

LEMMA AbandonKeeps ==
  ASSUME IInv, NEW h \in Helpers, Abandon(h)
  PROVE  IInv' /\ Steady
<1>1. Types /\ Locks
  BY DEF IInv
<1>2. /\ todo' = [todo EXCEPT ![h] = <<>>] /\ run' = [run EXCEPT ![h] = NoRun]
      /\ held' = [held EXCEPT ![h] = {}] /\ slots' = [slots EXCEPT ![h] = {}]
      /\ fs' = fs /\ source' = source /\ staged' = staged
  BY DEF Abandon, disk
<1>3. todo'[h] = <<>> /\ held'[h] = {} /\ Alone(h)
  BY <1>1, <1>2 DEF Types, Alone
<1>4. <<>> \in Seq(Steps)
  OBVIOUS
<1>5. NoRun \in [header : Headers \cup {NoHeader}, version : Nat, ids : [Roots -> Ids \cup {NoId}]]
  BY DEF NoRun, NoVersion
<1>6. Types' /\ Locks'
  BY <1>1, <1>2, <1>3, <1>4, <1>5 DEF Types, Locks
<1>7. (todo[h] \in Seq(Steps) /\ InOrder(todo[h]))' /\ Ahead(h)' = {}
  BY <1>3, <1>4 DEF InOrder, Ahead, Elements
<1>8. Listed(h)' /\ \A r \in Roots : ~Works(h, r)'
  BY <1>7, FreeList
<1>9. \A r \in Roots : WorkOf(h, r)'
  BY <1>8, WithoutWork
<1>10. QED
  BY <1>2, <1>3, <1>6, <1>8, <1>9, QuietKeeps

(* What a session that begins has ahead. *)
LEMMA TheSessionSteps ==
  SessionSteps = Locking \cup {Step("reserve", r, "record") : r \in Roots} \cup Wanted("source") \cup Wanted("destination") \cup {Returning}
<1>1. /\ StageSteps("source") \cup PairSteps("source") = {Step("reserve", "source", "record")} \cup Wanted("source")
      /\ StageSteps("destination") \cup PairSteps("destination") = {Step("reserve", "destination", "record")} \cup Wanted("destination")
  BY TheWanted, TheRoots
<1>2. PairSteps(First) \cup PairSteps(Second) = PairSteps("source") \cup PairSteps("destination")
  <2>1. (First = "source" /\ Second = "destination") \/ (First = "destination" /\ Second = "source")
    BY TheRoots DEF Roots
  <2>2. QED
    BY <2>1
<1>3. {Step("reserve", r, "record") : r \in Roots} = {Step("reserve", "source", "record"), Step("reserve", "destination", "record")}
  BY DEF Roots
<1>4. QED
  BY <1>1, <1>2, <1>3 DEF SessionSteps

(* Its list is in order. *)
LEMMA SessionListed ==
  ASSUME NEW h \in Helpers, (todo[h] \in Seq(Steps) /\ InOrder(todo[h]))', Ahead(h)' = SessionSteps,
         (run[h].version)' \in Nat \ {0}, (run[h].version <= source)', (run[h].header \in Headers)', \A r \in Roots : (run[h].ids[r])' = NoId
  PROVE  Listed(h)'
<1>1. Ahead(h)' = Locking \cup {Step("reserve", r, "record") : r \in Roots} \cup Wanted("source") \cup Wanted("destination") \cup {Returning}
  BY TheSessionSteps
<1>2. InSession(h)' /\ \A r \in Roots : Step("reserve", r, "record") \in Ahead(h)' /\ Wanted(r) \subseteq Ahead(h)' /\ Step("lock", r, "record") \in Ahead(h)'
  <2>1. InSession(h)'
    BY <1>1 DEF InSession
  <2>2. \A r \in Roots : Step("reserve", r, "record") \in Ahead(h)' /\ Wanted(r) \subseteq Ahead(h)'
    BY <1>1 DEF Roots
  <2>3. \A r \in Roots : Step("lock", r, "record") \in Ahead(h)'
    BY <1>1, TheRoots DEF Locking
  <2>4. QED
    BY <2>1, <2>2, <2>3
<1>3. ASSUME NEW t \in Ahead(h)'
      PROVE  t.root \in Roots /\ t.op \in {"lock", "reserve", "return"} \cup Writes
  <2>1. CASE t \in Locking \cup {Returning} \cup {Step("reserve", r, "record") : r \in Roots}
    BY <2>1, TheRoots DEF Locking, Returning, Step
  <2>2. CASE t \in Wanted("source") \cup Wanted("destination")
    BY <2>2, TheRoots DEF Wanted
  <2>3. QED
    BY <1>1, <2>1, <2>2
<1>4. \A r \in Roots : ~IsOpen(h, r)'
  <2> SUFFICES ASSUME NEW r \in Roots, Step("open", r, "record") \in Ahead(h)' PROVE FALSE
    BY DEF IsOpen
  <2>1. Step("open", r, "record").op \in {"lock", "reserve", "return"} \cup Writes
    BY <1>3
  <2>2. QED
    BY <2>1 DEF Step, Writes, Creates
<1>5. \A r \in Roots : Step("write", r, "record") \in Ahead(h)' /\ Step("sync", r, "record") \in Ahead(h)'
  <2> SUFFICES ASSUME NEW r \in Roots PROVE Step("write", r, "record") \in Wanted(r) /\ Step("sync", r, "record") \in Wanted(r)
    BY <1>2
  <2>1. Step("write", r, "record") \in Steps /\ Step("sync", r, "record") \in Steps
    BY TheSteps, TheKinds
  <2>2. QED
    BY <2>1 DEF Wanted, Step, Writes, Creates
<1>6. ASSUME NEW t \in Ahead(h)'
      PROVE  /\ t.op \in Holds => Works(h, t.root)'
             /\ t.op \in {"copy", "copyRest", "return"} \/ t.kind \in Lifecycle => InSession(h)'
             /\ t.op \in Writes => (Step("reserve", t.root, "record") \in Ahead(h) \/ run[h].ids[t.root] # NoId)'
             /\ t.op = "reserve" => /\ (run[h].ids[t.root] = NoId /\ run[h].header \in Headers)'
                                    /\ (IsOpen(h, t.root) \/ InSession(h))'
                                    /\ ({Step("write", t.root, "record"), Step("sync", t.root, "record")} \subseteq Ahead(h))'
             /\ t.op = "scan" => (run[h].ids[t.root] = NoId)' /\ IsOpen(h, t.root)'
             /\ IsOpen(h, t.root)' => t.kind = "record"
  <2>1. t.root \in Roots /\ t.op # "scan"
    BY <1>3 DEF Writes, Creates
  <2>2. Works(h, t.root)'
    BY <1>2 DEF Works
  <2>3. QED
    BY <1>2, <1>4, <1>5, <2>1, <2>2
<1>7. QED
  BY <1>2, <1>4, <1>6 DEF Listed

LEMMA StartSessionKeeps ==
  ASSUME IInv, NEW h \in Helpers, NEW x \in Headers, StartSession(h, x)
  PROVE  IInv' /\ Steady
<1>1. Types /\ Locks
  BY DEF IInv
<1>2. PICK v \in Nat \ {0} : v = source
  BY <1>1 DEF Types
<1>3. PICK new : new = [NoRun EXCEPT !.header = x, !.version = v]
  OBVIOUS
<1>4. /\ new \in [header : Headers \cup {NoHeader}, version : Nat, ids : [Roots -> Ids \cup {NoId}]]
      /\ new.header = x /\ new.version = v /\ \A r \in Roots : new.ids[r] = NoId
  BY <1>2, <1>3 DEF NoRun, NoVersion
<1>5. /\ todo' = [todo EXCEPT ![h] = Session] /\ run' = [run EXCEPT ![h] = new]
      /\ held' = held /\ slots' = slots
      /\ fs' = fs /\ source' = source /\ staged' = staged
  BY <1>2, <1>3 DEF StartSession, Begins, GoesOn, disk
<1>6. todo'[h] = Session /\ run'[h] = new /\ Alone(h)
  BY <1>1, <1>5 DEF Types, Alone
<1>7. Session \in Seq(Steps) /\ InOrder(Session) /\ Elements(Session) = SessionSteps
  BY TheSession DEF IsList
<1>8. Types' /\ Locks'
  BY <1>1, <1>4, <1>5, <1>7 DEF Types, Locks
<1>9. (todo[h] \in Seq(Steps) /\ InOrder(todo[h]))' /\ Ahead(h)' = SessionSteps
  BY <1>6, <1>7 DEF Ahead
<1>10. \A r \in Roots : (run[h].ids[r])' = NoId
  BY <1>4, <1>6
<1>11. (run[h].version)' \in Nat \ {0} /\ (run[h].version <= source)' /\ (run[h].header \in Headers)'
  BY <1>2, <1>4, <1>5, <1>6
<1>12. Listed(h)'
  BY <1>9, <1>10, <1>11, SessionListed
<1>13. \A r \in Roots : WorkOf(h, r)'
  BY <1>10, WithoutWork
<1>14. QED
  BY <1>5, <1>6, <1>8, <1>12, <1>13, QuietKeeps

(* The lists of a ledger. *)
LEMMA LedgerListed ==
  ASSUME NEW h \in Helpers, (todo[h] \in Seq(Steps) /\ InOrder(todo[h]))', NEW r \in Roots,
         Ahead(h)' = {Step("lock", r, "record"), Step("open", r, "record")}
           \/ Ahead(h)' = {Step("scan", r, "record"), Step("open", r, "record")}
           \/ (Ahead(h)' = ReserveSteps(r) \cup {Step("open", r, "record")} /\ (run[h].header \in Headers)'),
         (r \in held[h] \/ Step("lock", r, "record") \in Ahead(h))',
         (run[h].ids[r])' = NoId
  PROVE  Listed(h)'
<1>1. \A t \in Ahead(h)' : t \in {Step("lock", r, "record"), Step("scan", r, "record"), Step("open", r, "record"),
                                  Step("reserve", r, "record"), Step("write", r, "record"), Step("sync", r, "record")}
  BY DEF ReserveSteps
<1>2. \A t \in Ahead(h)' : t.root = r /\ t.kind = "record" /\ t.op \in {"lock", "scan", "open", "reserve", "write", "sync"}
  BY <1>1 DEF Step
<1>3. ~InSession(h)'
  BY <1>2 DEF InSession, Returning, Step
<1>4. IsOpen(h, r)' /\ Works(h, r)'
  BY DEF IsOpen, Works
<1>5. \A q \in Roots : q # r => ~Works(h, q)' /\ ~IsOpen(h, q)'
  <2>1. \A q \in Roots : q # r => Step("open", q, "record") \notin Ahead(h)' /\ Step("sealed", q, "record") \notin Ahead(h)'
    BY <1>2 DEF Step
  <2>2. QED
    BY <1>3, <2>1 DEF Works, IsOpen
<1>6. ASSUME NEW t \in Ahead(h)'
      PROVE  /\ t.op \in Writes \cup {"reserve"} => /\ Step("reserve", r, "record") \in Ahead(h)'
                                                    /\ {Step("write", r, "record"), Step("sync", r, "record")} \subseteq Ahead(h)'
                                                    /\ (run[h].header \in Headers)'
             /\ t.op \notin {"copy", "copyRest", "return"}
             /\ t.kind \notin Lifecycle
  <2>1. CASE Ahead(h)' = ReserveSteps(r) \cup {Step("open", r, "record")} /\ (run[h].header \in Headers)'
    BY <1>2, <2>1, TheKinds DEF ReserveSteps
  <2>2. CASE \/ Ahead(h)' = {Step("lock", r, "record"), Step("open", r, "record")}
             \/ Ahead(h)' = {Step("scan", r, "record"), Step("open", r, "record")}
    <3>1. t.op \in {"lock", "scan", "open"}
      BY <2>2 DEF Step
    <3>2. QED
      BY <1>2, <3>1, TheKinds DEF Writes, Creates
  <2>3. QED
    BY <2>1, <2>2
<1>7. QED
  BY <1>2, <1>3, <1>4, <1>5, <1>6 DEF Listed

LEMMA OpenLedgerKeeps ==
  ASSUME IInv, NEW h \in Helpers, NEW r \in Roots, OpenLedger(h, r)
  PROVE  IInv' /\ Steady
<1>1. Types /\ Locks
  BY DEF IInv
<1>2. PICK new : new = [NoRun EXCEPT !.header = NoHeader, !.version = NoVersion]
  OBVIOUS
<1>3. /\ new \in [header : Headers \cup {NoHeader}, version : Nat, ids : [Roots -> Ids \cup {NoId}]]
      /\ \A q \in Roots : new.ids[q] = NoId
  BY <1>2 DEF NoRun, NoVersion
<1>4. PICK list : list = <<Step("lock", r, "record")>> \o Ledger(r)
  OBVIOUS
<1>5. /\ todo' = [todo EXCEPT ![h] = list] /\ run' = [run EXCEPT ![h] = new]
      /\ held' = held /\ slots' = slots
      /\ fs' = fs /\ source' = source /\ staged' = staged
  BY <1>2, <1>4 DEF OpenLedger, Begins, GoesOn, disk
<1>6. todo'[h] = list /\ run'[h] = new /\ Alone(h)
  BY <1>1, <1>5 DEF Types, Alone
<1>7. list \in Seq(Steps) /\ InOrder(list) /\ Elements(list) = {Step("lock", r, "record"), Step("open", r, "record")}
  <2>1. IsList(<<Step("lock", r, "record")>> \o Ledger(r), {Step("lock", r, "record"), Step("open", r, "record")}, 0, 300)
    BY TheOtherLists
  <2>2. IsList(list, {Step("lock", r, "record"), Step("open", r, "record")}, 0, 300)
    BY <1>4, <2>1
  <2>3. QED
    BY <2>2 DEF IsList
<1>8. Types' /\ Locks'
  BY <1>1, <1>3, <1>5, <1>7 DEF Types, Locks
<1>9. (todo[h] \in Seq(Steps) /\ InOrder(todo[h]))' /\ Ahead(h)' = {Step("lock", r, "record"), Step("open", r, "record")}
  BY <1>6, <1>7 DEF Ahead
<1>10. \A q \in Roots : (run[h].ids[q])' = NoId
  BY <1>3, <1>6
<1>11. Listed(h)'
  BY <1>9, <1>10, LedgerListed
<1>12. \A q \in Roots : WorkOf(h, q)'
  BY <1>10, WithoutWork
<1>13. QED
  BY <1>5, <1>6, <1>8, <1>11, <1>12, QuietKeeps

(* A ledger that waits. *)
LEMMA TheOpen ==
  ASSUME IInv, NEW h \in Helpers, At(h, "open")
  PROVE  /\ ~Idle(h) /\ Listed(h) /\ Root(h) \in Roots /\ Root(h) \in held[h] /\ IsOpen(h, Root(h)) /\ ~InSession(h) /\ Works(h, Root(h))
         /\ \A u \in Steps : u.op \in Writes \cup {"reserve", "lock", "scan"} => u \notin Ahead(h)
         /\ run[h].ids[Root(h)] \in Ids \cup {NoId} /\ (run[h].ids[Root(h)] # NoId => slots[h] # {})
<1>1. Types /\ Listed(h)
  BY DEF IInv
<1>2. ~Idle(h) /\ Head(todo[h]).op = "open"
  BY DEF At, Idle
<1>3. /\ Root(h) \in Roots /\ WellFormed(Head(todo[h])) /\ Head(todo[h]) \in Ahead(h)
      /\ Head(todo[h]) = Step("open", Root(h), Kind(h))
  BY <1>1, <1>2, AtHead
<1>4. Kind(h) = "record"
  BY <1>2, <1>3 DEF WellFormed, Kind
<1>5. IsOpen(h, Root(h))
  BY <1>3, <1>4 DEF IsOpen
<1>6. Works(h, Root(h)) /\ Root(h) \in held[h]
  BY <1>1, <1>2, TheWorker DEF Holds
<1>7. \A u \in Steps : u.op \in Writes \cup {"reserve", "lock", "scan"} => u \notin Ahead(h)
  BY <1>1, <1>2, AllBehind
<1>8. Step("sync", Root(h), "record") \notin Ahead(h)
  <2>1. Step("sync", Root(h), "record") \in Steps /\ Step("sync", Root(h), "record").op = "sync"
    BY <1>3, TheSteps, TheKinds DEF Step
  <2>2. QED
    BY <1>7, <2>1 DEF Writes
<1>9. ~InSession(h) /\ (run[h].ids[Root(h)] # NoId => slots[h] # {})
  BY <1>1, <1>3, <1>5, <1>8 DEF Listed
<1>10. run[h].ids[Root(h)] \in Ids \cup {NoId}
  BY <1>1, <1>3 DEF Types
<1>11. QED
  BY <1>1, <1>2, <1>3, <1>5, <1>6, <1>7, <1>9, <1>10

LEMMA LedgerReserveKeeps ==
  ASSUME IInv, NEW h \in Helpers, NEW x \in Headers, LedgerReserve(h, x)
  PROVE  IInv' /\ Steady
<1>1. Types /\ Locks
  BY DEF IInv
<1>2. PICK new : new = [NoRun EXCEPT !.header = x, !.version = NoVersion]
  OBVIOUS
<1>3. /\ new \in [header : Headers \cup {NoHeader}, version : Nat, ids : [Roots -> Ids \cup {NoId}]]
      /\ new.header = x /\ \A q \in Roots : new.ids[q] = NoId
  BY <1>2 DEF NoRun, NoVersion
<1>4. PICK r \in Roots : r = Root(h) /\ r \in held[h]
  BY TheOpen DEF LedgerReserve
<1>5. PICK list : list = Reserving(r) \o Ledger(r)
  OBVIOUS
<1>6. /\ todo' = [todo EXCEPT ![h] = list] /\ run' = [run EXCEPT ![h] = new]
      /\ held' = held /\ slots' = slots
      /\ fs' = fs /\ source' = source /\ staged' = staged
  BY <1>2, <1>4, <1>5 DEF LedgerReserve, Begins, GoesOn, disk
<1>7. todo'[h] = list /\ run'[h] = new /\ Alone(h)
  BY <1>1, <1>6 DEF Types, Alone
<1>8. list \in Seq(Steps) /\ InOrder(list) /\ Elements(list) = ReserveSteps(r) \cup {Step("open", r, "record")}
  <2>1. IsList(Reserving(r) \o Ledger(r), ReserveSteps(r) \cup {Step("open", r, "record")}, 0, 300)
    BY TheOtherLists
  <2>2. IsList(list, ReserveSteps(r) \cup {Step("open", r, "record")}, 0, 300)
    BY <1>5, <2>1
  <2>3. QED
    BY <2>2 DEF IsList
<1>9. Types' /\ Locks'
  BY <1>1, <1>3, <1>6, <1>8 DEF Types, Locks
<1>10. (todo[h] \in Seq(Steps) /\ InOrder(todo[h]))' /\ Ahead(h)' = ReserveSteps(r) \cup {Step("open", r, "record")}
  BY <1>7, <1>8 DEF Ahead
<1>11. (\A q \in Roots : (run[h].ids[q])' = NoId) /\ (run[h].header \in Headers)' /\ (r \in held[h])'
  BY <1>3, <1>4, <1>6, <1>7
<1>12. Listed(h)'
  BY <1>10, <1>11, LedgerListed
<1>13. \A q \in Roots : WorkOf(h, q)'
  BY <1>11, WithoutWork
<1>14. QED
  BY <1>6, <1>7, <1>9, <1>12, <1>13, QuietKeeps

LEMMA ReconcileKeeps ==
  ASSUME IInv, NEW h \in Helpers, Reconcile(h)
  PROVE  IInv' /\ Steady
<1>1. Types /\ Locks
  BY DEF IInv
<1>2. slots[h] = {} /\ At(h, "open")
  BY DEF Reconcile
<1>3. PICK r \in Roots : r = Root(h) /\ r \in held[h] /\ run[h].ids[r] = NoId
  BY <1>2, TheOpen
<1>4. PICK list : list = <<Step("scan", r, "record")>> \o Ledger(r)
  OBVIOUS
<1>5. /\ todo' = [todo EXCEPT ![h] = list] /\ run' = run
      /\ held' = held /\ slots' = slots
      /\ fs' = fs /\ source' = source /\ staged' = staged
  BY <1>3, <1>4 DEF Reconcile, GoesOn, disk
<1>6. todo'[h] = list /\ Alone(h)
  BY <1>1, <1>5 DEF Types, Alone
<1>7. list \in Seq(Steps) /\ InOrder(list) /\ Elements(list) = {Step("scan", r, "record"), Step("open", r, "record")}
  <2>1. IsList(<<Step("scan", r, "record")>> \o Ledger(r), {Step("scan", r, "record"), Step("open", r, "record")}, 0, 300)
    BY TheOtherLists
  <2>2. IsList(list, {Step("scan", r, "record"), Step("open", r, "record")}, 0, 300)
    BY <1>4, <2>1
  <2>3. QED
    BY <2>2 DEF IsList
<1>8. Types' /\ Locks'
  BY <1>1, <1>5, <1>7 DEF Types, Locks
<1>9. (todo[h] \in Seq(Steps) /\ InOrder(todo[h]))' /\ Ahead(h)' = {Step("scan", r, "record"), Step("open", r, "record")}
  BY <1>6, <1>7 DEF Ahead
<1>10. (run[h].ids[r])' = NoId /\ (r \in held[h])'
  BY <1>3, <1>5
<1>11. Listed(h)'
  BY <1>9, <1>10, LedgerListed
<1>12. \A q \in Roots : WorkOf(h, q)'
  <2> SUFFICES ASSUME NEW q \in Roots PROVE ~Works(h, q)' \/ (run[h].ids[q])' = NoId
    BY WithoutWork
  <2>1. CASE q = r
    BY <1>10, <2>1
  <2>2. CASE q # r
    <3>1. \A t \in Ahead(h)' : t.root = r
      BY <1>9 DEF Step
    <3>2. Step("open", q, "record") \notin Ahead(h)' /\ Step("sealed", q, "record") \notin Ahead(h)' /\ Returning \notin Ahead(h)'
      <4>1. Step("open", q, "record").root = q /\ Step("sealed", q, "record").root = q
        BY DEF Step
      <4>2. Returning \notin Ahead(h)'
        BY <1>9 DEF Returning, Step
      <4>3. QED
        BY <2>2, <3>1, <4>1, <4>2
    <3>3. QED
      BY <3>2 DEF Works, InSession, IsOpen
  <2>3. QED
    BY <2>1, <2>2
<1>13. QED
  BY <1>5, <1>6, <1>8, <1>11, <1>12, QuietKeeps

(* Locking, scanning and validating are no work on a root. *)
LEMMA ProceedsSame ==
  ASSUME Types, NEW h \in Helpers, Listed(h), ~Idle(h), Proceeds(h), Head(todo[h]).op \in {"lock", "scan", "validate"}
  PROVE  SameSteps(h)
<1>1. PICK t : t = Head(todo[h])
  OBVIOUS
<1>2. Ahead(h) = Ahead(h)' \cup {t} /\ t.op \in {"lock", "scan", "validate"}
  BY <1>1, Proceeding
<1>3. \A u : u.op \in Writes => (u \in Ahead(h)' <=> u \in Ahead(h))
  BY <1>2 DEF Writes, Creates
<1>4. InSession(h)' = InSession(h) /\ \A r \in Roots : IsOpen(h, r)' = IsOpen(h, r) /\ Works(h, r)' = Works(h, r)
  BY SameMarks
<1>5. QED
  BY <1>3, <1>4 DEF SameSteps

LEMMA OpenKeeps ==
  ASSUME IInv, NEW h \in Helpers, Open(h)
  PROVE  IInv' /\ Steady
<1>1. Types /\ Locks /\ Disk /\ Listed(h) /\ \A q \in Roots : WorkOf(h, q)
  BY DEF IInv
<1>2. /\ ~Idle(h) /\ Head(todo[h]).op = "lock" /\ Proceeds(h)
      /\ \A g \in Helpers : Root(h) \notin held[g]
      /\ held' = [held EXCEPT ![h] = held[h] \cup {Root(h)}]
      /\ run' = run /\ slots' = slots /\ fs' = fs /\ source' = source /\ staged' = staged
  BY <1>1 DEF Open, At, Idle, disk, Types
<1>3. /\ todo' \in [Helpers -> Seq(Steps)]
      /\ \A g \in Helpers \ {h} : todo'[g] = todo[g]
  BY <1>1, <1>2, Proceeding
<1>4. PICK r \in Roots : r = Root(h)
  BY <1>1, <1>2, AtHead
<1>5. held' = [held EXCEPT ![h] = held[h] \cup {r}] /\ \A g \in Helpers : r \notin held[g]
  BY <1>2, <1>4
<1>6. held \in [Helpers -> SUBSET Roots]
  BY <1>1 DEF Types
<1>7. held'[h] = held[h] \cup {r} /\ held' \in [Helpers -> SUBSET Roots] /\ \A g \in Helpers \ {h} : held'[g] = held[g]
  BY <1>5, <1>6
<1>8. Types' /\ Alone(h)
  BY <1>1, <1>2, <1>3, <1>7 DEF Types, Alone
<1>9. Locks'
  <2> SUFFICES ASSUME NEW g \in Helpers, NEW k \in Helpers, g # k PROVE held'[g] \cap held'[k] = {}
    BY DEF Locks
  <2>1. held[g] \cap held[k] = {}
    BY <1>1 DEF Locks
  <2>2. CASE g = h
    BY <1>5, <1>7, <2>1, <2>2
  <2>3. CASE k = h
    BY <1>5, <1>7, <2>1, <2>3
  <2>4. CASE g # h /\ k # h
    BY <1>7, <2>1, <2>4
  <2>5. QED
    BY <2>2, <2>3, <2>4
<1>10. Listed(h)'
  BY <1>1, <1>2, <1>4, <1>7, ListedProceeds
<1>11. SameSteps(h)
  BY <1>1, <1>2, ProceedsSame
<1>12. ASSUME NEW q \in Roots PROVE WorkOf(h, q)'
  <2>1. source' \in Nat /\ source <= source'
    BY <1>1, <1>2 DEF Types
  <2>2. (q \in held[h] => q \in held'[h]) /\ (held[h] = Roots => held'[h] = Roots)
    BY <1>7
  <2>3. QED
    BY <1>1, <1>2, <1>11, <2>1, <2>2, SameWork
<1>13. QED
  BY <1>2, <1>8, <1>9, <1>10, <1>12, QuietKeeps

LEMMA ValidateKeeps ==
  ASSUME IInv, NEW h \in Helpers, Validate(h)
  PROVE  IInv' /\ Steady
<1>1. Types /\ Locks /\ Disk /\ Listed(h) /\ \A q \in Roots : WorkOf(h, q)
  BY DEF IInv
<1>2. /\ ~Idle(h) /\ Head(todo[h]).op = "validate" /\ Proceeds(h)
      /\ held' = held /\ run' = run /\ slots' = slots /\ fs' = fs /\ source' = source /\ staged' = staged
  BY DEF Validate, At, Idle, disk
<1>3. /\ todo' \in [Helpers -> Seq(Steps)]
      /\ \A g \in Helpers \ {h} : todo'[g] = todo[g]
  BY <1>1, <1>2, Proceeding
<1>4. Types' /\ Alone(h) /\ Locks'
  BY <1>1, <1>2, <1>3 DEF Types, Alone, Locks
<1>5. Listed(h)'
  <2>1. Head(todo[h]).op # "lock" /\ Head(todo[h]).op # "sync"
    BY <1>2
  <2>2. QED
    BY <1>1, <1>2, <2>1, ListedProceeds
<1>6. SameSteps(h)
  BY <1>1, <1>2, ProceedsSame
<1>7. ASSUME NEW q \in Roots PROVE WorkOf(h, q)'
  <2>1. source' \in Nat /\ source <= source'
    BY <1>1, <1>2 DEF Types
  <2>2. QED
    BY <1>1, <1>2, <1>6, <2>1, SameWork
<1>8. QED
  BY <1>2, <1>4, <1>5, <1>7, QuietKeeps

LEMMA PrepareKeeps ==
  ASSUME IInv, NEW h \in Helpers, Prepare(h)
  PROVE  IInv' /\ Steady
<1>1. Types /\ Locks
  BY DEF IInv
<1>2. /\ todo' = [todo EXCEPT ![h] = Preparing]
      /\ held' = held /\ run' = run /\ slots' = slots /\ fs' = fs /\ source' = source /\ staged' = staged
  BY DEF Prepare, GoesOn, disk
<1>3. todo'[h] = Preparing /\ Alone(h)
  BY <1>1, <1>2 DEF Types, Alone
<1>4. Types' /\ Locks'
  BY <1>1, <1>2, ThePreparing DEF Types, Locks
<1>5. (todo[h] \in Seq(Steps) /\ InOrder(todo[h]))'
  BY <1>3, ThePreparing
<1>6. \A t \in Ahead(h)' : t.op \in {"lock", "staged", "validate", "permit"}
  BY <1>3, ThePreparing DEF Ahead, Step
<1>7. Listed(h)' /\ \A r \in Roots : ~Works(h, r)'
  BY <1>5, <1>6, FreeList
<1>8. \A r \in Roots : WorkOf(h, r)'
  BY <1>7, WithoutWork
<1>9. QED
  BY <1>2, <1>3, <1>4, <1>7, <1>8, QuietKeeps

(* What a session returns is finished. *)
LEMMA TheReturned ==
  ASSUME IInv, NEW h \in Helpers, At(h, "return"), \A r \in Roots : HasExactLifecycleManifest(h, r),
         NEW s, s.header = run[h].header, s.ids = run[h].ids
  PROVE  StagedOK(s)
<1>1. Types /\ Disk /\ Listed(h) /\ \A q \in Roots : WorkOf(h, q)
  BY DEF IInv
<1>2. ~Idle(h) /\ Head(todo[h]).op = "return"
  BY DEF At, Idle
<1>3. InSession(h)
  <2>1. Head(todo[h]) \in Ahead(h)
    BY <1>1, <1>2, AtHead
  <2>2. QED
    BY <1>1, <1>2, <2>1 DEF Listed
<1>4. \A u \in Steps : u.op \in Writes \cup {"reserve", "lock", "scan"} => u \notin Ahead(h)
  BY <1>1, <1>2, AllBehind
<1>5. \A r \in Roots : /\ Step("reserve", r, "record") \notin Ahead(h) /\ Step("full", r, "pairSeal") \notin Ahead(h)
                       /\ Step("write", r, "seal") \notin Ahead(h)
  <2> SUFFICES ASSUME NEW r \in Roots
               PROVE  /\ Step("reserve", r, "record") \notin Ahead(h) /\ Step("full", r, "pairSeal") \notin Ahead(h)
                      /\ Step("write", r, "seal") \notin Ahead(h)
    OBVIOUS
  <2>1. /\ Step("reserve", r, "record") \in Steps /\ Step("full", r, "pairSeal") \in Steps /\ Step("write", r, "seal") \in Steps
        /\ Step("reserve", r, "record").op = "reserve" /\ Step("full", r, "pairSeal").op = "full" /\ Step("write", r, "seal").op = "write"
    BY TheSteps, TheKinds DEF Step
  <2>2. QED
    BY <1>4, <2>1 DEF Writes, Creates
<1>6. run[h].header \in Headers
  BY <1>1, <1>3 DEF Listed
<1>7. \A r \in Roots : Has(h, r) /\ run[h].ids[r] \in Ids /\ ~IsOpen(h, r)
  <2> SUFFICES ASSUME NEW r \in Roots PROVE Has(h, r) /\ run[h].ids[r] \in Ids /\ ~IsOpen(h, r)
    OBVIOUS
  <2>1. run[h].ids[r] # NoId /\ ~IsOpen(h, r)
    BY <1>1, <1>3, <1>5 DEF Listed
  <2>2. Has(h, r)
    BY <1>3, <2>1 DEF Has, Works
  <2>3. QED
    BY <1>1, <2>1, <2>2 DEF WorkOf, ReservationOf
<1>8. PICK ids : ids = run[h].ids
  OBVIOUS
<1>9. ids \in [Roots -> Ids]
  <2>1. ids \in [Roots -> Ids \cup {NoId}]
    BY <1>1, <1>8 DEF Types
  <2>2. QED
    BY <1>7, <1>8, <2>1
<1>10. \A r \in Roots, k \in Kinds : Durable(r, k, ids[r])
  <2> SUFFICES ASSUME NEW r \in Roots PROVE \A k \in Kinds : Durable(r, k, ids[r])
    OBVIOUS
  <2>1. FileOf(h, r, "pairSeal")
    BY <1>1, <1>7, TheKinds DEF WorkOf
  <2>2. Done(h, "full", r, "pairSeal")
    BY <1>3, <1>5, <1>7 DEF Done
  <2>3. \A k \in Kinds : Place(k) <= Place("pairSeal") => Durable(r, k, ids[r])
    BY <1>8, <2>1, <2>2 DEF FileOf
  <2>4. \A k \in Kinds : Place(k) <= Place("pairSeal")
    BY ThePlaces
  <2>5. QED
    BY <2>3, <2>4
<1>11. \A r \in Roots : Now(r, "seal", ids[r]).is = "seal"
  <2> SUFFICES ASSUME NEW r \in Roots PROVE Now(r, "seal", ids[r]).is = "seal"
    OBVIOUS
  <2>1. FileOf(h, r, "seal")
    BY <1>1, <1>7, TheKinds DEF WorkOf
  <2>2. Done(h, "write", r, "seal")
    BY <1>5, <1>7, TheKinds DEF Done
  <2>3. Now(r, "seal", ids[r]) = Expected(h, r, "seal")
    BY <1>8, <2>1, <2>2 DEF FileOf
  <2>4. QED
    BY <2>3 DEF Expected, Seal
<1>12. \A r \in Roots, k \in Lifecycle : Now(r, k, ids[r]) = Manifest(h)
  BY <1>8 DEF HasExactLifecycleManifest
<1>13. PICK pair : pair = Manifest(h)
  OBVIOUS
<1>14. pair.is = "pair" /\ pair.header = s.header /\ pair.ids = s.ids /\ s.ids = ids /\ s.header \in Headers
  BY <1>6, <1>8, <1>13 DEF Manifest, Pair
<1>15. Now(First, "pair", s.ids[First]) = pair /\ \A r \in Roots, k \in Lifecycle : Now(r, k, s.ids[r]) = pair
  BY <1>12, <1>13, <1>14, TheRoots, TheKinds
<1>16. QED
  BY <1>9, <1>10, <1>11, <1>14, <1>15 DEF StagedOK

LEMMA ReturnKeeps ==
  ASSUME IInv, NEW h \in Helpers, Return(h)
  PROVE  IInv' /\ Steady
<1>1. Types /\ Locks
  BY DEF IInv
<1>2. PICK list : list = <<Step("staged", "destination", "artifact")>>
  OBVIOUS
<1>3. /\ todo' = [todo EXCEPT ![h] = list]
      /\ held' = [held EXCEPT ![h] = {}] /\ slots' = [slots EXCEPT ![h] = {}]
      /\ run' = run /\ fs' = fs /\ source' = source
      /\ staged' = staged \cup {[header |-> run[h].header, ids |-> run[h].ids]}
      /\ At(h, "return") /\ \A r \in Roots : HasExactLifecycleManifest(h, r)
  BY <1>2 DEF Return, GoesOn, disk
<1>4. todo'[h] = list /\ held'[h] = {} /\ Alone(h)
  BY <1>1, <1>3 DEF Types, Alone
<1>5. list \in Seq(Steps) /\ InOrder(list) /\ Elements(list) = {Step("staged", "destination", "artifact")}
  <2>1. "destination" \in Roots
    BY TheRoots
  <2>2. IsList(<<Step("staged", "destination", "artifact")>>, {Step("staged", "destination", "artifact")}, 301, 301)
    BY <2>1, TheOtherLists
  <2>3. IsList(list, {Step("staged", "destination", "artifact")}, 301, 301)
    BY <1>2, <2>2
  <2>4. QED
    BY <2>3 DEF IsList
<1>6. Types' /\ Locks'
  BY <1>1, <1>3, <1>4, <1>5 DEF Types, Locks
<1>7. (todo[h] \in Seq(Steps) /\ InOrder(todo[h]))' /\ Ahead(h)' = {Step("staged", "destination", "artifact")}
  BY <1>4, <1>5 DEF Ahead
<1>8. \A t \in Ahead(h)' : t.op \in {"lock", "staged", "validate", "permit"}
  BY <1>7 DEF Step
<1>9. Listed(h)' /\ \A r \in Roots : ~Works(h, r)'
  BY <1>7, <1>8, FreeList
<1>10. \A r \in Roots : WorkOf(h, r)'
  BY <1>9, WithoutWork
<1>11. PICK s : s = [header |-> run[h].header, ids |-> run[h].ids]
  OBVIOUS
<1>12. s.header = run[h].header /\ s.ids = run[h].ids
  BY <1>11
<1>13. StagedOK(s)
  BY <1>3, <1>12, TheReturned
<1>14. Disk /\ Disk' /\ Steady
  BY <1>3, SameDisk DEF IInv
<1>15. StagedOK(s)'
  BY <1>13, <1>14, StagedStays
<1>16. \A u \in staged' : u \in staged \/ StagedOK(u)'
  BY <1>3, <1>11, <1>15
<1>17. QED
  BY <1>3, <1>4, <1>6, <1>9, <1>10, <1>16, QuietKeeps

-----------------------------------------------------------------------------
(* A ledger on its own.                                                       *)

(* A ledger that scans has no reservation of its own. *)
LEMMA TheScan ==
  ASSUME IInv, NEW h \in Helpers, At(h, "scan")
  PROVE  /\ ~Idle(h) /\ Listed(h) /\ Root(h) \in Roots /\ Root(h) \in held[h] /\ ~InSession(h)
         /\ run[h].ids[Root(h)] = NoId
<1>1. Types /\ Listed(h)
  BY DEF IInv
<1>2. ~Idle(h) /\ Head(todo[h]).op = "scan"
  BY DEF At, Idle
<1>3. Root(h) \in Roots /\ Head(todo[h]) \in Ahead(h) /\ Head(todo[h]).root = Root(h)
  BY <1>1, <1>2, AtHead DEF Root
<1>4. run[h].ids[Root(h)] = NoId /\ IsOpen(h, Root(h))
  BY <1>1, <1>2, <1>3 DEF Listed
<1>5. ~InSession(h)
  BY <1>1, <1>3, <1>4 DEF Listed
<1>6. Root(h) \in held[h]
  BY <1>1, <1>2, TheWorker DEF Holds
<1>7. QED
  BY <1>1, <1>2, <1>3, <1>4, <1>5, <1>6

(* Work on the other root, if there is any, is not touched. *)
LEMMA ScannedWork ==
  ASSUME IInv, NEW h \in Helpers, At(h, "scan"), SameSteps(h), run' = run, held' = held, source' = source,
         \A q \in Roots \ {Root(h)} : fs'[q] = fs[q]
  PROVE  \A q \in Roots : WorkOf(h, q)'
<1>1. Types /\ Disk /\ \A q \in Roots : WorkOf(h, q)
  BY DEF IInv
<1>2. ~InSession(h) /\ run[h].ids[Root(h)] = NoId
  BY TheScan
<1>3. source' \in Nat /\ source <= source'
  BY <1>1 DEF Types
<1>4. SUFFICES ASSUME NEW q \in Roots PROVE WorkOf(h, q)'
  OBVIOUS
<1>5. CASE q = Root(h)
  <2>1. (run[h].ids[q])' = NoId
    BY <1>2, <1>5
  <2>2. QED
    BY <2>1 DEF WorkOf, Has
<1>6. CASE q # Root(h)
  <2>1. fs'[q] = fs[q]
    BY <1>6
  <2>2. QED
    BY <1>1, <1>2, <1>3, <2>1, SameWork
<1>7. QED
  BY <1>5, <1>6

LEMMA ReconcileOneKeeps ==
  ASSUME IInv, NEW h \in Helpers, NEW i \in Ids, ReconcileOne(h, i)
  PROVE  IInv' /\ Steady
<1>1. Types /\ Locks /\ Disk /\ Listed(h)
  BY DEF IInv
<1>2. /\ At(h, "scan") /\ Removable(Root(h), i) /\ fs' = Unlinked(Root(h), i)
      /\ todo' = todo /\ held' = held /\ run' = run /\ slots' = slots /\ source' = source /\ staged' = staged
  BY DEF ReconcileOne
<1>3. PICK r \in Roots : r = Root(h) /\ r \in held[h]
  BY <1>2, TheScan
<1>4. Unlinks(r, i) /\ Now(r, "artifact", i) = Gone
  BY <1>2, <1>3, TheKinds DEF Unlinks, Removable
<1>5. Disk' /\ Steady
  BY <1>1, <1>4, UnlinkKeeps
<1>6. \A q \in Roots \ {r} : fs'[q] = fs[q]
  BY <1>1, <1>4, UnlinkMoves
<1>7. Touches(h)
  BY <1>3, <1>6 DEF Touches
<1>8. Alone(h) /\ Types' /\ Locks'
  BY <1>1, <1>2 DEF Alone, Types, Locks
<1>9. SameSteps(h)
  BY <1>2 DEF SameSteps, Ahead, InSession, IsOpen, Works
<1>10. Listed(h)'
  <2>1. source' \in Nat /\ source <= source'
    BY <1>1, <1>2 DEF Types
  <2>2. QED
    BY <1>1, <1>2, <2>1, ListedStays
<1>11. \A q \in Roots : WorkOf(h, q)'
  BY <1>2, <1>3, <1>6, <1>9, ScannedWork
<1>12. QED
  BY <1>2, <1>5, <1>7, <1>8, <1>10, <1>11, HelperKeeps

LEMMA ReconcileEndsKeeps ==
  ASSUME IInv, NEW h \in Helpers, ReconcileEnds(h)
  PROVE  IInv' /\ Steady
<1>1. Types /\ Locks /\ Disk /\ Listed(h)
  BY DEF IInv
<1>2. /\ At(h, "scan") /\ (fs' = fs \/ fs' = HandedOver(fs, Root(h), {})) /\ Proceeds(h)
      /\ held' = held /\ run' = run /\ slots' = slots /\ source' = source /\ staged' = staged
  BY DEF ReconcileEnds
<1>3. PICK r \in Roots : r = Root(h) /\ r \in held[h]
  BY <1>2, TheScan
<1>4. ~Idle(h) /\ Head(todo[h]).op = "scan"
  BY <1>2 DEF At, Idle
<1>5. Disk' /\ Steady /\ \A q \in Roots \ {r} : fs'[q] = fs[q]
  <2>1. CASE fs' = fs
    BY <1>1, <2>1, SameDisk
  <2>2. CASE fs' = HandedOver(fs, r, {})
    <3>1. fs \in [Roots -> [Kinds -> [Ids -> Files]]]
      BY <1>1 DEF Disk
    <3>2. \A q \in Roots \ {r} : fs'[q] = fs[q]
      BY <2>2, <3>1, HandedOverMoves
    <3>3. QED
      BY <1>1, <2>2, <3>2, HandedOverKeeps
  <2>3. QED
    BY <1>2, <1>3, <2>1, <2>2
<1>6. Touches(h)
  BY <1>3, <1>5 DEF Touches
<1>7. /\ todo' \in [Helpers -> Seq(Steps)]
      /\ \A g \in Helpers \ {h} : todo'[g] = todo[g]
  BY <1>1, <1>2, <1>4, Proceeding
<1>8. Alone(h) /\ Types' /\ Locks'
  BY <1>1, <1>2, <1>7 DEF Alone, Types, Locks
<1>9. SameSteps(h)
  BY <1>1, <1>2, <1>4, ProceedsSame
<1>10. Listed(h)'
  <2>1. Head(todo[h]).op # "lock" /\ Head(todo[h]).op # "sync"
    BY <1>4
  <2>2. QED
    BY <1>1, <1>2, <1>4, <2>1, ListedProceeds
<1>11. \A q \in Roots : WorkOf(h, q)'
  BY <1>2, <1>3, <1>5, <1>9, ScannedWork
<1>12. QED
  BY <1>2, <1>5, <1>6, <1>8, <1>10, <1>11, HelperKeeps

LEMMA ReleaseKeeps ==
  ASSUME IInv, NEW h \in Helpers, Release(h)
  PROVE  IInv' /\ Steady
<1>1. Types /\ Locks /\ Disk /\ Listed(h)
  BY DEF IInv
<1>2. PICK r \in Roots : r = Root(h) /\ r \in held[h] /\ run[h].ids[r] \in Ids \cup {NoId}
  BY TheOpen DEF Release
<1>3. PICK i \in Ids : i = Id(h)
  BY <1>2 DEF Release, HasReservation, Id
<1>4. PICK slot : slot = Slot(h)
  OBVIOUS
<1>5. /\ At(h, "open") /\ Now(r, "artifact", i) = Gone
      /\ \/ fs' = Unlinked(r, i) /\ slots' = slots
         \/ fs' = HandedOver(Unlinked(r, i), r, {}) /\ slots' = [slots EXCEPT ![h] = slots[h] \ {slot}]
      /\ run' = [run EXCEPT ![h] = NoRun]
      /\ todo' = todo /\ held' = held /\ source' = source /\ staged' = staged
  BY <1>1, <1>2, <1>3, <1>4 DEF Release, Types
<1>6. Unlinks(r, i)
  BY <1>5 DEF Unlinks
<1>7. Disk' /\ Steady
  BY <1>1, <1>5, <1>6, UnlinkKeeps
<1>8. \A q \in Roots \ {r} : fs'[q] = fs[q]
  BY <1>1, <1>6, UnlinkMoves
<1>9. Touches(h)
  BY <1>2, <1>8 DEF Touches
<1>10. NoRun \in [header : Headers \cup {NoHeader}, version : Nat, ids : [Roots -> Ids \cup {NoId}]] /\ \A q \in Roots : NoRun.ids[q] = NoId
  BY DEF NoRun, NoVersion
<1>11. slots' \in [Helpers -> SUBSET [root : Roots, header : Headers, id : Ids]] /\ \A g \in Helpers \ {h} : slots'[g] = slots[g]
  <2>1. slots \in [Helpers -> SUBSET [root : Roots, header : Headers, id : Ids]]
    BY <1>1 DEF Types
  <2>2. QED
    BY <1>5, <2>1
<1>12. Alone(h) /\ Types' /\ Locks' /\ run'[h] = NoRun
  BY <1>1, <1>5, <1>10, <1>11 DEF Alone, Types, Locks
<1>13. \A q \in Roots : WorkOf(h, q)'
  <2>1. \A q \in Roots : (run[h].ids[q])' = NoId
    BY <1>10, <1>12
  <2>2. QED
    BY <2>1, WithoutWork
<1>14. Listed(h)'
  <2>1. Ahead(h)' = Ahead(h) /\ InSession(h)' = InSession(h) /\ \A q \in Roots : IsOpen(h, q)' = IsOpen(h, q) /\ Works(h, q)' = Works(h, q)
    BY <1>5 DEF Ahead, InSession, IsOpen, Works
  <2>2. ~InSession(h) /\ \A u \in Steps : u.op \in Writes \cup {"reserve", "lock", "scan"} => u \notin Ahead(h)
    BY <1>5, TheOpen
  <2>3. \A u \in Ahead(h) : u \in Steps /\ u.root \in Roots /\ u.op \notin Writes \cup {"reserve", "lock", "scan"}
    <3>1. \A u \in Ahead(h) : u \in Steps
      BY <1>1 DEF Listed, Ahead, Elements
    <3>2. QED
      BY <2>2, <3>1, TheOtherRanks
  <2>4. \A u \in Ahead(h) : /\ u.op \in Holds => Works(h, u.root)
                            /\ u.op \in {"copy", "copyRest", "return"} \/ u.kind \in Lifecycle => InSession(h)
                            /\ IsOpen(h, u.root) => u.kind = "record"
    BY <1>1 DEF Listed
  <2>5. \A q \in Roots : (Works(h, q) => q \in held[h] \/ Step("lock", q, "record") \in Ahead(h)) /\ (IsOpen(h, q) => ~InSession(h))
    BY <1>1 DEF Listed
  <2>6. \A q \in Roots : (run[h].ids[q])' = NoId
    BY <1>10, <1>12
  <2>7. (todo[h] \in Seq(Steps))' /\ InOrder(todo[h])'
    BY <1>1, <1>5 DEF Listed
  <2>8. ASSUME NEW u \in Ahead(h)'
        PROVE  /\ u.root \in Roots /\ u.op \notin Writes /\ u.op # "reserve" /\ u.op # "scan"
               /\ u.op \in Holds => Works(h, u.root)'
               /\ u.op \in {"copy", "copyRest", "return"} \/ u.kind \in Lifecycle => InSession(h)'
               /\ IsOpen(h, u.root)' => u.kind = "record"
    BY <2>1, <2>3, <2>4
  <2>9. \A q \in Roots : /\ Works(h, q)' => (q \in held[h] \/ Step("lock", q, "record") \in Ahead(h))'
                         /\ ~InSession(h)'
    BY <1>5, <2>1, <2>2, <2>5
  <2>10. ~InSession(h)'
    BY <2>1, <2>2
  <2>11. QED
    BY <2>6, <2>7, <2>8, <2>9, <2>10 DEF Listed
<1>15. QED
  BY <1>5, <1>7, <1>9, <1>12, <1>13, <1>14, HelperKeeps

(* The list of a ledger that materializes an empty artifact. *)
LEMMA MaterializingListed ==
  ASSUME NEW h \in Helpers, NEW r \in Roots, (todo[h] \in Seq(Steps) /\ InOrder(todo[h]))',
         Ahead(h)' = {Step("create", r, "artifact")} \cup SyncSteps(r) \cup SealSteps(r) \cup {Step("sealed", r, "record")},
         (run[h].ids[r])' # NoId, r \in held'[h]
  PROVE  Listed(h)' /\ ~InSession(h)' /\ \A q \in Roots : ~IsOpen(h, q)' /\ (Works(h, q)' <=> q = r)
<1>1. \A t \in Ahead(h)' : t \in {Step("create", r, "artifact"), Step("sync", r, "artifact"), Step("full", r, "artifact"),
                                  Step("create", r, "seal"), Step("write", r, "seal"), Step("sync", r, "seal"), Step("sealed", r, "record")}
  BY DEF SyncSteps, SealSteps
<1>2. \A t \in Ahead(h)' : t.root = r /\ t.kind \in {"record", "artifact", "seal"} /\ t.op \in {"create", "sync", "full", "write", "sealed"}
  BY <1>1 DEF Step
<1>3. ~InSession(h)'
  BY <1>2 DEF InSession, Returning, Step
<1>4. Works(h, r)'
  BY DEF Works
<1>5. \A q \in Roots : ~IsOpen(h, q)' /\ (q # r => ~Works(h, q)')
  <2>1. \A q \in Roots : Step("open", q, "record") \notin Ahead(h)' /\ (q # r => Step("sealed", q, "record") \notin Ahead(h)')
    BY <1>2 DEF Step
  <2>2. QED
    BY <1>3, <2>1 DEF Works, IsOpen
<1>6. ASSUME NEW t \in Ahead(h)'
      PROVE  t.root = r /\ t.op \notin {"copy", "copyRest", "return", "reserve", "scan"} /\ t.kind \notin Lifecycle
  BY <1>2, TheKinds
<1>7. Listed(h)'
  BY <1>3, <1>4, <1>5, <1>6 DEF Listed
<1>8. QED
  BY <1>3, <1>4, <1>5, <1>7

(* What it knows of its reservation: nothing was written under it. *)
LEMMA MaterializingWork ==
  ASSUME IInv, NEW h \in Helpers, At(h, "open"), NEW r \in Roots, r = Root(h), run[h].ids[r] # NoId,
         fs' = fs, run' = run, held' = held, ~InSession(h)', ~IsOpen(h, r)',
         Ahead(h)' = {Step("create", r, "artifact")} \cup SyncSteps(r) \cup SealSteps(r) \cup {Step("sealed", r, "record")}
  PROVE  WorkOf(h, r)'
<1>1. Types /\ Disk /\ Listed(h) /\ WorkOf(h, r)
  BY DEF IInv
<1>2. IsOpen(h, r) /\ Works(h, r) /\ \A u \in Steps : u.op \in Writes \cup {"reserve", "lock", "scan"} => u \notin Ahead(h)
  BY TheOpen
<1>3. ReservationOf(h, r) /\ \A k \in Kinds : FileOf(h, r, k)
  BY <1>1, <1>2 DEF WorkOf, Has
<1>4. PICK i \in Ids : i = run[h].ids[r]
  BY <1>3 DEF ReservationOf
<1>5. \A k \in Kinds : \A j : /\ Now(r, k, j)' = Now(r, k, j) /\ May(r, k, j)' = May(r, k, j) /\ Flushed(r, k, j)' = Flushed(r, k, j)
                              /\ Durable(r, k, j)' = Durable(r, k, j) /\ MayBeFound(r, k, j)' = MayBeFound(r, k, j)
  BY DEF Now, May, Flushed, Durable, MayBeFound
<1>6. \A k \in Kinds : k # "record" => ~MayBeFound(r, k, i) /\ ~Durable(r, k, i) /\ Now(r, k, i) = Gone
  <2> SUFFICES ASSUME NEW k \in Kinds, k # "record" PROVE ~MayBeFound(r, k, i) /\ ~Durable(r, k, i) /\ Now(r, k, i) = Gone
    OBVIOUS
  <2>1. ~MayBeFound(r, k, i)
    BY <1>2, <1>3, <1>4 DEF FileOf
  <2>2. QED
    BY <1>1, <2>1, TheFile
<1>7. Now(r, "record", i) = Record(run[h].header) /\ Flushed(r, "record", i)
  <2>1. /\ Step("write", r, "record") \in Steps /\ Step("sync", r, "record") \in Steps
        /\ Step("write", r, "record").op = "write" /\ Step("sync", r, "record").op = "sync"
    BY TheSteps, TheKinds DEF Step
  <2>2. Step("write", r, "record") \notin Ahead(h) /\ Step("sync", r, "record") \notin Ahead(h)
    BY <1>2, <2>1 DEF Writes, Creates
  <2>3. Done(h, "write", r, "record") /\ Done(h, "sync", r, "record")
    BY <2>2, TheKinds DEF Done
  <2>4. FileOf(h, r, "record")
    BY <1>3, TheKinds
  <2>5. Now(r, "record", i) = Expected(h, r, "record") /\ Flushed(r, "record", i)
    BY <1>4, <2>3, <2>4 DEF FileOf
  <2>6. QED
    BY <2>5 DEF Expected
<1>8. (run[h].ids[r])' = i /\ (run[h].header)' = run[h].header
  BY <1>4
<1>9. FileOf(h, r, "record")'
  <2>1. \A op : Step(op, r, "record") \in Ahead(h)' => op = "sealed"
    BY DEF SyncSteps, SealSteps, Step
  <2>2. (Putting(r, "record") \cap Ahead(h))' = {} /\ Step("create", r, "record") \notin Ahead(h)'
    BY <2>1 DEF Putting, Creates
  <2>3. Expected(h, r, "record")' = Record(run[h].header)
    BY <1>8 DEF Expected
  <2>4. Now(r, "record", i)' = Record(run[h].header) /\ Flushed(r, "record", i)' /\ Record(run[h].header) # Gone
    BY <1>5, <1>7, TheKinds DEF Record, Gone
  <2>5. QED
    BY <1>8, <2>2, <2>3, <2>4 DEF FileOf
<1>10. ASSUME NEW k \in Kinds, k # "record" PROVE FileOf(h, r, k)'
  <2>1. \A l \in Kinds : l # "record" => ~MayBeFound(r, l, i)' /\ ~Durable(r, l, i)' /\ Now(r, l, i)' = Gone
    BY <1>5, <1>6
  <2>2. \A l \in Kinds : Place(k) < Place(l) => ~MayBeFound(r, l, i)'
    <3> SUFFICES ASSUME NEW l \in Kinds, Place(k) < Place(l) PROVE ~MayBeFound(r, l, i)'
      OBVIOUS
    <3>1. Place(k) \in 1 .. 5
      BY ThePlaces
    <3>2. l # "record"
      BY <3>1, ThePlaces
    <3>3. QED
      BY <2>1, <3>2
  <2>3. CASE k \in Lifecycle
    <3>1. \A op : ~Done(h, op, r, k)'
      BY <2>3 DEF Done
    <3>2. k # "artifact"
      BY <2>3, TheKinds
    <3>3. QED
      BY <1>8, <1>10, <2>1, <2>2, <3>1, <3>2 DEF FileOf
  <2>4. CASE k = "artifact"
    <3>1. Step("create", r, k) \in Ahead(h)' /\ Step("sync", r, k) \in Ahead(h)' /\ Step("full", r, k) \in Ahead(h)'
      BY <2>4 DEF SyncSteps
    <3>2. ~Done(h, "create", r, k)' /\ ~Done(h, "sync", r, k)' /\ ~Done(h, "full", r, k)'
      BY <3>1 DEF Done
    <3>3. QED
      BY <1>8, <1>10, <2>1, <2>2, <2>4, <3>2 DEF FileOf
  <2>5. CASE k = "seal"
    <3>1. Step("write", r, k) \in Ahead(h)' /\ Step("sync", r, k) \in Ahead(h)'
      BY <2>5 DEF SealSteps
    <3>2. ~Done(h, "write", r, k)' /\ ~Done(h, "sync", r, k)'
      BY <3>1 DEF Done
    <3>3. QED
      BY <1>8, <1>10, <2>1, <2>2, <2>5, <3>2 DEF FileOf
  <2>6. QED
    BY <1>10, <2>3, <2>4, <2>5, TheKinds
<1>11. ReservationOf(h, r)'
  <2>1. \A j : May(r, "record", j)' = May(r, "record", j) /\ Used(r, j)' = Used(r, j)
    BY <1>5, TheKinds DEF Used
  <2>2. QED
    BY <1>3, <2>1 DEF ReservationOf
<1>12. QED
  BY <1>9, <1>10, <1>11 DEF WorkOf

LEMMA MaterializeEmptyAndSealKeeps ==
  ASSUME IInv, NEW h \in Helpers, MaterializeEmptyAndSeal(h)
  PROVE  IInv' /\ Steady
<1>1. Types /\ Locks
  BY DEF IInv
<1>2. At(h, "open") /\ run[h].ids[Root(h)] # NoId
  BY DEF MaterializeEmptyAndSeal, HasReservation, Id
<1>3. PICK r \in Roots : r = Root(h) /\ r \in held[h] /\ run[h].ids[r] # NoId
  BY <1>2, TheOpen
<1>4. PICK list : list = Materializing(r) \o <<Step("sealed", r, "record")>>
  OBVIOUS
<1>5. /\ todo' = [todo EXCEPT ![h] = list] /\ run' = run
      /\ held' = held /\ slots' = slots
      /\ fs' = fs /\ source' = source /\ staged' = staged
  BY <1>3, <1>4 DEF MaterializeEmptyAndSeal, GoesOn, disk
<1>6. todo'[h] = list /\ Alone(h)
  BY <1>1, <1>5 DEF Types, Alone
<1>7. /\ list \in Seq(Steps) /\ InOrder(list)
      /\ Elements(list) = {Step("create", r, "artifact")} \cup SyncSteps(r) \cup SealSteps(r) \cup {Step("sealed", r, "record")}
  BY <1>4, TheOtherLists DEF IsList
<1>8. Types' /\ Locks'
  BY <1>1, <1>5, <1>7 DEF Types, Locks
<1>9. /\ (todo[h] \in Seq(Steps) /\ InOrder(todo[h]))'
      /\ Ahead(h)' = {Step("create", r, "artifact")} \cup SyncSteps(r) \cup SealSteps(r) \cup {Step("sealed", r, "record")}
  BY <1>6, <1>7 DEF Ahead
<1>10. (run[h].ids[r])' # NoId /\ r \in held'[h]
  BY <1>3, <1>5
<1>11. Listed(h)' /\ ~InSession(h)' /\ \A q \in Roots : ~IsOpen(h, q)' /\ (Works(h, q)' <=> q = r)
  BY <1>9, <1>10, MaterializingListed
<1>12. ASSUME NEW q \in Roots PROVE WorkOf(h, q)'
  <2>1. CASE q = r
    <3>1. WorkOf(h, r)'
      BY <1>2, <1>3, <1>5, <1>9, <1>11, MaterializingWork
    <3>2. QED
      BY <2>1, <3>1
  <2>2. CASE q # r
    BY <1>11, <2>2 DEF WorkOf, Has
  <2>3. QED
    BY <2>1, <2>2
<1>13. QED
  BY <1>5, <1>6, <1>8, <1>11, <1>12, QuietKeeps

-----------------------------------------------------------------------------
(* The environment.                                                           *)

(* Nothing happens but that the source may change. *)
LEMMA StillKeeps ==
  ASSUME IInv, source' \in Nat \ {0}, source <= source',
         fs' = fs, todo' = todo, run' = run, held' = held, slots' = slots, staged' = staged
  PROVE  IInv' /\ Steady
<1>1. Types /\ Locks /\ Disk /\ (\A h \in Helpers : Listed(h) /\ \A r \in Roots : WorkOf(h, r)) /\ \A s \in staged : StagedOK(s)
  BY DEF IInv
<1>2. source' \in Nat
  OBVIOUS
<1>3. Types' /\ Locks'
  BY <1>1 DEF Types, Locks
<1>4. Disk' /\ Steady
  BY <1>1, SameDisk
<1>5. ASSUME NEW h \in Helpers PROVE Listed(h)' /\ \A r \in Roots : WorkOf(h, r)'
  <2>1. Listed(h)'
    BY <1>1, <1>2, ListedStays
  <2>2. SameSteps(h)
    BY DEF SameSteps, Ahead, InSession, IsOpen, Works
  <2>3. ASSUME NEW r \in Roots PROVE WorkOf(h, r)'
    BY <1>1, <1>2, <2>2, SameWork
  <2>4. QED
    BY <2>1, <2>3
<1>6. ASSUME NEW s \in staged' PROVE StagedOK(s)'
  BY <1>1, <1>4, StagedStays
<1>7. QED
  BY <1>3, <1>4, <1>5, <1>6 DEF IInv

LEMMA ModifyKeeps ==
  ASSUME IInv, Modify
  PROVE  IInv' /\ Steady
<1>1. /\ source' = source + 1
      /\ fs' = fs /\ todo' = todo /\ run' = run /\ held' = held /\ slots' = slots /\ staged' = staged
  BY DEF Modify
<1>2. source \in Nat
  BY DEF IInv, Types
<1>3. source' \in Nat \ {0} /\ source <= source'
  BY <1>1, <1>2
<1>4. QED
  BY <1>1, <1>3, StillKeeps

(* Nobody has anything to do. *)
LEMMA NothingToDo ==
  ASSUME NEW h \in Helpers, todo'[h] = <<>>
  PROVE  Listed(h)' /\ \A r \in Roots : WorkOf(h, r)'
<1>1. <<>> \in Seq(Steps)
  OBVIOUS
<1>2. (todo[h] \in Seq(Steps) /\ InOrder(todo[h]))' /\ Ahead(h)' = {}
  BY <1>1 DEF InOrder, Ahead, Elements
<1>3. Listed(h)' /\ \A r \in Roots : ~Works(h, r)'
  BY <1>2, FreeList
<1>4. QED
  BY <1>3, WithoutWork

LEMMA PowerLossKeepsAll ==
  ASSUME IInv, PowerLoss
  PROVE  IInv' /\ Steady
<1>1. Types /\ Disk /\ \A s \in staged : StagedOK(s)
  BY DEF IInv
<1>2. /\ todo' = [h \in Helpers |-> <<>>] /\ run' = [h \in Helpers |-> NoRun] /\ held' = [h \in Helpers |-> {}]
      /\ slots' = [h \in Helpers |-> {}] /\ source' = source /\ staged' = staged
  BY DEF PowerLoss
<1>3. <<>> \in Seq(Steps)
  OBVIOUS
<1>4. NoRun \in [header : Headers \cup {NoHeader}, version : Nat, ids : [Roots -> Ids \cup {NoId}]]
  BY DEF NoRun, NoVersion
<1>5. Types'
  BY <1>1, <1>2, <1>3, <1>4 DEF Types
<1>6. Locks'
  BY <1>2 DEF Locks
<1>7. Disk' /\ Steady
  BY <1>1, PowerLossKeeps
<1>8. ASSUME NEW h \in Helpers PROVE Listed(h)' /\ \A r \in Roots : WorkOf(h, r)'
  <2>1. todo'[h] = <<>>
    BY <1>2
  <2>2. QED
    BY <2>1, NothingToDo
<1>9. ASSUME NEW s \in staged' PROVE StagedOK(s)'
  BY <1>1, <1>2, <1>7, StagedStays
<1>10. QED
  BY <1>5, <1>6, <1>7, <1>8, <1>9 DEF IInv

-----------------------------------------------------------------------------
(* A reservation begins.                                                      *)

Reserves(h, r, i) ==
  /\ At(h, "reserve") /\ r = Root(h)
  /\ Unused(r, i)
  /\ Put(r, "record", i, Torn)
  /\ run' = [run EXCEPT ![h].ids[r] = i]
  /\ \A j \in Ids : Now(r, "record", j) # Record(run[h].header)
  /\ Proceeds(h)
  /\ source' = source /\ held' = held /\ slots' = slots /\ staged' = staged

(* What a helper that reserves has ahead. *)
LEMMA TheReserve ==
  ASSUME IInv, NEW h \in Helpers, NEW r \in Roots, NEW i \in Ids, Reserves(h, r, i)
  PROVE  /\ ~Idle(h) /\ Head(todo[h]) = Step("reserve", r, "record") /\ Head(todo[h]).op = "reserve"
         /\ Ahead(h) = Ahead(h)' \cup {Step("reserve", r, "record")} /\ Step("reserve", r, "record") \notin Ahead(h)'
         /\ Works(h, r) /\ r \in held[h] /\ (InSession(h) => held[h] = Roots)
         /\ run[h].ids[r] = NoId /\ run[h].header \in Headers /\ (IsOpen(h, r) \/ InSession(h))
         /\ {Step("write", r, "record"), Step("sync", r, "record")} \subseteq Ahead(h)'
         /\ (InSession(h) => Wanted(r) \subseteq Ahead(h)')
         /\ \A t \in Ahead(h)' : t.op # "scan"
<1>1. Types /\ Listed(h)
  BY DEF IInv
<1>2. ~Idle(h) /\ Head(todo[h]).op = "reserve" /\ r = Root(h) /\ Proceeds(h)
  BY DEF Reserves, At, Idle
<1>3. PICK t : t = Head(todo[h])
  OBVIOUS
<1>4. t \in Steps /\ t \in Ahead(h) /\ t = Step("reserve", r, Kind(h)) /\ WellFormed(t) /\ t.op = "reserve" /\ t.kind = Kind(h) /\ t.root = r
  BY <1>1, <1>2, <1>3, AtHead DEF Kind, Root
<1>5. t = Step("reserve", r, "record")
  BY <1>4 DEF WellFormed
<1>6. Ahead(h) = Ahead(h)' \cup {t} /\ t \notin Ahead(h)' /\ \A u \in Ahead(h)' : Before(t, u)
  BY <1>1, <1>2, <1>3, Proceeding
<1>7. Works(h, r) /\ r \in held[h] /\ (InSession(h) => held[h] = Roots)
  BY <1>1, <1>2, TheWorker DEF Holds
<1>8. /\ run[h].ids[r] = NoId /\ run[h].header \in Headers /\ (IsOpen(h, r) \/ InSession(h))
      /\ {Step("write", r, "record"), Step("sync", r, "record")} \subseteq Ahead(h)
      /\ InSession(h) => Wanted(r) \subseteq Ahead(h)
  BY <1>1, <1>4, <1>5 DEF Listed
<1>9. t \notin Wanted(r) /\ t # Step("write", r, "record") /\ t # Step("sync", r, "record")
  BY <1>5 DEF Wanted, Step, Writes, Creates
<1>10. \A u \in Ahead(h)' : u.op # "scan"
  <2> SUFFICES ASSUME NEW u \in Ahead(h)', u.op = "scan" PROVE FALSE
    OBVIOUS
  <2>1. u \in Steps
    BY <1>1, <1>6 DEF Listed, Ahead, Elements
  <2>2. Rank(u) = 2
    BY <2>1, TheOtherRanks
  <2>3. PICK m \in 10 .. 299 : m = Rank(t)
    BY <1>4, TheOtherRanks
  <2>4. m < 2
    BY <1>4, <1>6, <2>2, <2>3 DEF Before
  <2>5. QED
    BY <2>4
<1>11. QED
  BY <1>2, <1>3, <1>5, <1>6, <1>7, <1>8, <1>9, <1>10

(* A reservation gives the session its artifact. *)
LEMMA ReservesRun ==
  ASSUME Types, NEW h \in Helpers, NEW r \in Roots, NEW i \in Ids, Reserves(h, r, i)
  PROVE  /\ run' \in [Helpers -> [header : Headers \cup {NoHeader}, version : Nat, ids : [Roots -> Ids \cup {NoId}]]]
         /\ \A g \in Helpers \ {h} : run'[g] = run[g]
         /\ run'[h].header = run[h].header /\ run'[h].version = run[h].version
         /\ run'[h].ids[r] = i /\ \A q \in Roots \ {r} : run'[h].ids[q] = run[h].ids[q]
<1>1. run \in [Helpers -> [header : Headers \cup {NoHeader}, version : Nat, ids : [Roots -> Ids \cup {NoId}]]]
  BY DEF Types
<1>2. run' = [run EXCEPT ![h].ids[r] = i]
  BY DEF Reserves
<1>3. QED
  BY <1>1, <1>2

(* The list of a helper that has reserved. *)
LEMMA ReservesListed ==
  ASSUME IInv, NEW h \in Helpers, NEW r \in Roots, NEW i \in Ids, Reserves(h, r, i)
  PROVE  Listed(h)'
<1>1. Types /\ Listed(h)
  BY DEF IInv
<1>2. PICK s : s = Step("reserve", r, "record")
  OBVIOUS
<1>3. /\ ~Idle(h) /\ Head(todo[h]).op = "reserve" /\ Ahead(h) = Ahead(h)' \cup {s} /\ s \notin Ahead(h)'
      /\ {Step("write", r, "record"), Step("sync", r, "record")} \subseteq Ahead(h)'
      /\ \A t \in Ahead(h)' : t.op # "scan"
  BY <1>2, TheReserve
<1>4. /\ run'[h].header = run[h].header /\ run'[h].version = run[h].version
      /\ run'[h].ids[r] = i /\ \A q \in Roots \ {r} : run'[h].ids[q] = run[h].ids[q]
  BY <1>1, ReservesRun
<1>5. Proceeds(h) /\ source' = source /\ held' = held /\ slots' = slots
  BY DEF Reserves
<1>6. InSession(h)' = InSession(h) /\ \A q \in Roots : IsOpen(h, q)' = IsOpen(h, q) /\ Works(h, q)' = Works(h, q)
  BY <1>1, <1>3, <1>5, SameMarks
<1>7. i # NoId
  BY StagingAssumption
<1>8. \A u : u.op # "reserve" => (u \in Ahead(h)' <=> u \in Ahead(h))
  BY <1>2, <1>3 DEF Step
<1>9. \A q \in Roots : Step("reserve", q, "record") \in Ahead(h)' <=> (q # r /\ Step("reserve", q, "record") \in Ahead(h))
  BY <1>2, <1>3, StepsDiffer
<1>10. ASSUME NEW u \in Ahead(h)'
       PROVE  /\ u.root \in Roots
              /\ u.op \in Holds => Works(h, u.root)'
              /\ u.op \in {"copy", "copyRest", "return"} \/ u.kind \in Lifecycle => InSession(h)'
              /\ u.op \in Writes => (Step("reserve", u.root, "record") \in Ahead(h) \/ run[h].ids[u.root] # NoId)'
              /\ u.op = "reserve" => /\ (run[h].ids[u.root] = NoId /\ run[h].header \in Headers)'
                                     /\ (IsOpen(h, u.root) \/ InSession(h))'
                                     /\ ({Step("write", u.root, "record"), Step("sync", u.root, "record")} \subseteq Ahead(h))'
              /\ u.op # "scan"
              /\ IsOpen(h, u.root)' => u.kind = "record"
  <2>1. u \in Ahead(h) /\ u \in Steps /\ u.op # "scan"
    BY <1>1, <1>3, AtHead
  <2>2. u.root \in Roots /\ u = Step(u.op, u.root, u.kind) /\ WellFormed(u)
    BY <2>1, TheOtherRanks
  <2>3. /\ u.op \in Holds => Works(h, u.root)
        /\ u.op \in {"copy", "copyRest", "return"} \/ u.kind \in Lifecycle => InSession(h)
        /\ u.op \in Writes => Step("reserve", u.root, "record") \in Ahead(h) \/ run[h].ids[u.root] # NoId
        /\ u.op = "reserve" => /\ run[h].ids[u.root] = NoId /\ run[h].header \in Headers
                               /\ IsOpen(h, u.root) \/ InSession(h)
                               /\ {Step("write", u.root, "record"), Step("sync", u.root, "record")} \subseteq Ahead(h)
        /\ IsOpen(h, u.root) => u.kind = "record"
    BY <1>1, <2>1 DEF Listed
  <2>4. u.op \in Writes => (Step("reserve", u.root, "record") \in Ahead(h) \/ run[h].ids[u.root] # NoId)'
    <3>1. CASE u.root = r
      BY <1>4, <1>7, <3>1
    <3>2. CASE u.root # r
      BY <1>4, <1>9, <2>2, <2>3, <3>2
    <3>3. QED
      BY <3>1, <3>2
  <2>5. ASSUME u.op = "reserve"
        PROVE  u.root # r /\ {Step("write", u.root, "record"), Step("sync", u.root, "record")} \subseteq Ahead(h)'
    <3>1. u = Step("reserve", u.root, "record")
      BY <2>2, <2>5 DEF WellFormed
    <3>2. u.root # r
      BY <1>2, <1>3, <3>1
    <3>3. Step("write", u.root, "record").op # "reserve" /\ Step("sync", u.root, "record").op # "reserve"
      BY DEF Step
    <3>4. QED
      BY <1>8, <2>3, <2>5, <3>2, <3>3
  <2>6. QED
    BY <1>4, <1>6, <2>1, <2>2, <2>3, <2>4, <2>5
<1>11. ASSUME NEW q \in Roots
       PROVE  /\ Works(h, q)' => (q \in held[h] \/ Step("lock", q, "record") \in Ahead(h))'
              /\ IsOpen(h, q)' => ~InSession(h)'
              /\ IsOpen(h, q)' /\ (run[h].ids[q] # NoId)' /\ (Step("sync", q, "record") \notin Ahead(h))' => (slots[h] # {})'
  <2>1. /\ Works(h, q) => q \in held[h] \/ Step("lock", q, "record") \in Ahead(h)
        /\ IsOpen(h, q) => ~InSession(h)
        /\ IsOpen(h, q) /\ run[h].ids[q] # NoId /\ Step("sync", q, "record") \notin Ahead(h) => slots[h] # {}
    BY <1>1 DEF Listed
  <2>2. Step("lock", q, "record") \in Ahead(h)' <=> Step("lock", q, "record") \in Ahead(h)
    BY <1>8 DEF Step
  <2>3. Step("sync", q, "record") \in Ahead(h)' <=> Step("sync", q, "record") \in Ahead(h)
    BY <1>8 DEF Step
  <2>4. q = r => Step("sync", q, "record") \in Ahead(h)'
    BY <1>3
  <2>5. q # r => run'[h].ids[q] = run[h].ids[q]
    BY <1>4
  <2>6. QED
    BY <1>5, <1>6, <2>1, <2>2, <2>3, <2>4, <2>5
<1>12. InSession(h)' => /\ (run[h].version \in Nat \ {0} /\ run[h].version <= source /\ run[h].header \in Headers)'
                        /\ \A q \in Roots :
                             /\ (Step("reserve", q, "record") \in Ahead(h) \/ run[h].ids[q] # NoId)'
                             /\ (Step("reserve", q, "record") \in Ahead(h))' => Wanted(q) \subseteq Ahead(h)'
  <2> SUFFICES ASSUME InSession(h)
               PROVE  /\ (run[h].version \in Nat \ {0} /\ run[h].version <= source /\ run[h].header \in Headers)'
                      /\ \A q \in Roots :
                           /\ (Step("reserve", q, "record") \in Ahead(h) \/ run[h].ids[q] # NoId)'
                           /\ (Step("reserve", q, "record") \in Ahead(h))' => Wanted(q) \subseteq Ahead(h)'
    BY <1>6
  <2>1. /\ run[h].version \in Nat \ {0} /\ run[h].version <= source /\ run[h].header \in Headers
        /\ \A q \in Roots :
             /\ Step("reserve", q, "record") \in Ahead(h) \/ run[h].ids[q] # NoId
             /\ Step("reserve", q, "record") \in Ahead(h) => Wanted(q) \subseteq Ahead(h)
    BY <1>1 DEF Listed
  <2>2. (run[h].version \in Nat \ {0} /\ run[h].version <= source /\ run[h].header \in Headers)'
    BY <1>4, <1>5, <2>1
  <2>3. ASSUME NEW q \in Roots PROVE (Step("reserve", q, "record") \in Ahead(h) \/ run[h].ids[q] # NoId)'
    <3>1. CASE q = r
      BY <1>4, <1>7, <3>1
    <3>2. CASE q # r
      BY <1>4, <1>9, <2>1, <3>2
    <3>3. QED
      BY <3>1, <3>2
  <2>4. ASSUME NEW q \in Roots, (Step("reserve", q, "record") \in Ahead(h))' PROVE Wanted(q) \subseteq Ahead(h)'
    <3>1. Wanted(q) \subseteq Ahead(h)
      BY <1>9, <2>1, <2>4
    <3>2. \A u \in Wanted(q) : u.op # "reserve"
      BY DEF Wanted, Writes, Creates
    <3>3. QED
      BY <1>8, <3>1, <3>2
  <2>5. QED
    BY <2>2, <2>3, <2>4
<1>13. (todo[h] \in Seq(Steps))' /\ InOrder(todo[h])'
  <2>1. todo' \in [Helpers -> Seq(Steps)] /\ InOrder(todo'[h])
    BY <1>1, <1>3, <1>5, Proceeding
  <2>2. QED
    BY <2>1
<1>14. QED
  BY <1>10, <1>11, <1>12, <1>13 DEF Listed

(* The disk after a reservation. *)
LEMMA ReservesDisk ==
  ASSUME IInv, NEW h \in Helpers, NEW r \in Roots, NEW i \in Ids, Reserves(h, r, i)
  PROVE  /\ Disk' /\ Steady
         /\ Now(r, "record", i)' = Torn /\ ~Durable(r, "record", i)' /\ ~Flushed(r, "record", i)'
         /\ \A q \in Roots, k \in Kinds, j \in Ids : ~(q = r /\ k = "record" /\ j = i) => Kept(q, k, j)
         /\ \A q \in Roots \ {r} : fs'[q] = fs[q]
         /\ \A k \in Kinds : ~MayBeFound(r, k, i) /\ ~Durable(r, k, i) /\ Now(r, k, i) = Gone
<1>1. Disk
  BY DEF IInv
<1>2. Put(r, "record", i, Torn) /\ \A k \in Kinds : ~MayBeFound(r, k, i)
  BY DEF Reserves, Unused
<1>3. \A k \in Kinds : ~Durable(r, k, i) /\ Now(r, k, i) = Gone
  BY <1>1, <1>2, TheFile
<1>4. Torn \in Contents /\ Torn # Gone /\ Torn.is # "pair"
  BY TheContents DEF Torn
<1>5. Allowed(r, "record", i, Torn)
  BY <1>2, <1>3, <1>4, TheKinds DEF Allowed
<1>6. Disk' /\ Steady
  BY <1>1, <1>2, <1>5, PutKeeps, PutIsSteady, TheKinds
<1>7. /\ Now(r, "record", i)' = Torn /\ ~Durable(r, "record", i)' /\ ~Flushed(r, "record", i)'
      /\ \A q \in Roots, k \in Kinds, j \in Ids : ~(q = r /\ k = "record" /\ j = i) => Kept(q, k, j)
  BY <1>1, <1>2, <1>4, PutMoves, TheKinds
<1>8. \A q \in Roots \ {r} : fs'[q] = fs[q]
  BY <1>1, <1>2 DEF Put, Disk
<1>9. QED
  BY <1>2, <1>3, <1>6, <1>7, <1>8

(* A reservation drops its step only. *)
LEMMA ReservesSteps ==
  ASSUME IInv, NEW h \in Helpers, NEW r \in Roots, NEW i \in Ids, Reserves(h, r, i)
  PROVE  SameSteps(h)
<1>1. Types /\ Listed(h)
  BY DEF IInv
<1>2. ~Idle(h) /\ Head(todo[h]).op = "reserve" /\ Ahead(h) = Ahead(h)' \cup {Step("reserve", r, "record")}
  BY TheReserve
<1>3. \A u : u.op \in Writes => (u \in Ahead(h)' <=> u \in Ahead(h))
  BY <1>2 DEF Writes, Creates, Step
<1>4. InSession(h)' = InSession(h) /\ \A q \in Roots : IsOpen(h, q)' = IsOpen(h, q) /\ Works(h, q)' = Works(h, q)
  BY <1>1, <1>2, SameMarks DEF Reserves
<1>5. QED
  BY <1>3, <1>4 DEF SameSteps

(* A new artifact was never used: nobody has written under its name. *)
LEMMA ReservesThere ==
  ASSUME IInv, NEW h \in Helpers, NEW r \in Roots, NEW i \in Ids, Reserves(h, r, i)
  PROVE  WorkOf(h, r)'
<1>1. Types /\ Disk /\ Listed(h)
  BY DEF IInv
<1>2. /\ r \in held[h] /\ (InSession(h) => held[h] = Roots) /\ run[h].header \in Headers /\ (IsOpen(h, r) \/ InSession(h))
      /\ {Step("write", r, "record"), Step("sync", r, "record")} \subseteq Ahead(h)'
      /\ (InSession(h) => Wanted(r) \subseteq Ahead(h)')
  BY TheReserve
<1>3. /\ run'[h].header = run[h].header /\ run'[h].ids[r] = i
  BY <1>1, ReservesRun
<1>4. /\ InSession(h)' = InSession(h) /\ IsOpen(h, r)' = IsOpen(h, r)
  BY ReservesSteps DEF SameSteps
<1>5. /\ Now(r, "record", i)' = Torn /\ ~Durable(r, "record", i)' /\ ~Flushed(r, "record", i)'
      /\ \A q \in Roots, k \in Kinds, j \in Ids : ~(q = r /\ k = "record" /\ j = i) => Kept(q, k, j)
      /\ \A k \in Kinds : ~MayBeFound(r, k, i) /\ ~Durable(r, k, i) /\ Now(r, k, i) = Gone
  BY ReservesDisk
<1>6. \A k \in Kinds : k # "record" => ~MayBeFound(r, k, i)' /\ ~Durable(r, k, i)' /\ Now(r, k, i)' = Gone
  <2> SUFFICES ASSUME NEW k \in Kinds, k # "record" PROVE ~MayBeFound(r, k, i)' /\ ~Durable(r, k, i)' /\ Now(r, k, i)' = Gone
    OBVIOUS
  <2>1. Kept(r, k, i)
    BY <1>5
  <2>2. QED
    BY <1>5, <2>1, KeptFile
<1>7. InSession(h) => \A op \in Writes, k \in Kinds : Step(op, r, k) \in Steps => Step(op, r, k) \in Ahead(h)'
  <2> SUFFICES ASSUME InSession(h), NEW op \in Writes, NEW k \in Kinds, Step(op, r, k) \in Steps PROVE Step(op, r, k) \in Wanted(r)
    BY <1>2
  <2>1. Step(op, r, k).op = op /\ Step(op, r, k).root = r
    BY DEF Step
  <2>2. QED
    BY <2>1 DEF Wanted
<1>8. ReservationOf(h, r)'
  <2>1. ASSUME NEW j \in Ids \ {i}, Used(r, j)' PROVE Record(run[h].header) \notin May(r, "record", j)'
    <3>1. Kept(r, "artifact", j) /\ Kept(r, "record", j)
      BY <1>5, TheKinds
    <3>2. Used(r, j) /\ May(r, "record", j)' = May(r, "record", j)
      BY <2>1, <3>1, KeptFile DEF Used
    <3>3. Now(r, "record", j) # Record(run[h].header)
      BY DEF Reserves
    <3>4. RecordOK(r, j)
      BY <1>1 DEF Disk
    <3>5. QED
      BY <1>2, <3>2, <3>3, <3>4 DEF RecordOK
  <2>2. r \in held'[h] /\ (InSession(h)' => held'[h] = Roots)
    BY <1>2, <1>4 DEF Reserves
  <2>3. QED
    BY <1>2, <1>3, <2>1, <2>2 DEF ReservationOf
<1>9. FileOf(h, r, "record")'
  <2>1. ~Done(h, "write", r, "record")' /\ ~Done(h, "sync", r, "record")'
    BY <1>2 DEF Done
  <2>2. Step("create", r, "record") \notin Ahead(h)'
    <3>1. Ahead(h)' \subseteq Steps
      <4>1. ~Idle(h) /\ Ahead(h)' \subseteq Ahead(h)
        BY TheReserve
      <4>2. QED
        BY <1>1, <4>1, AtHead
    <3>2. Step("create", r, "record") \notin Steps
      <4>1. ~WellFormed(Step("create", r, "record"))
        BY DEF WellFormed, Step
      <4>2. QED
        BY <4>1 DEF Steps
    <3>3. QED
      BY <3>1, <3>2
  <2>3. \A l \in Kinds : Place("record") < Place(l) => ~MayBeFound(r, l, i)'
    BY <1>6, ThePlaces
  <2>4. QED
    BY <1>3, <1>5, <2>1, <2>2, <2>3 DEF FileOf
<1>10. ASSUME NEW k \in Kinds, k # "record" PROVE FileOf(h, r, k)'
  <2>1. \A l \in Kinds : Place(k) < Place(l) => ~MayBeFound(r, l, i)'
    <3> SUFFICES ASSUME NEW l \in Kinds, Place(k) < Place(l) PROVE ~MayBeFound(r, l, i)'
      OBVIOUS
    <3>1. Place(k) \in 1 .. 5
      BY ThePlaces
    <3>2. l # "record"
      BY <3>1, ThePlaces
    <3>3. QED
      BY <1>6, <3>2
  <2>2. /\ ~Done(h, "sync", r, k)'
        /\ k # "artifact" => ~Done(h, "write", r, k)'
        /\ k \in {"artifact", "pair", "pairSeal"} => ~Done(h, "full", r, k)'
        /\ k = "artifact" => ~Done(h, "create", r, k)'
    <3>1. CASE IsOpen(h, r)
      BY <1>4, <1>10, <3>1 DEF Done
    <3>2. CASE InSession(h)
      <4>1. /\ Step("sync", r, k) \in Steps
            /\ k # "artifact" => Step("write", r, k) \in Steps
            /\ k \in {"artifact", "pair", "pairSeal"} => Step("full", r, k) \in Steps
            /\ k = "artifact" => Step("create", r, k) \in Steps
        BY <1>10, TheSteps
      <4>2. QED
        BY <1>7, <3>2, <4>1 DEF Done, Writes, Creates
    <3>3. QED
      BY <1>2, <3>1, <3>2
  <2>3. QED
    BY <1>3, <1>6, <1>10, <2>1, <2>2 DEF FileOf
<1>11. InSession(h)' => DataOf(h, r)'
  <2> SUFFICES ASSUME InSession(h) PROVE DataOf(h, r)'
    BY <1>4
  <2>1. Now(r, "artifact", i)' = Gone /\ Gone.is # "artifact"
    BY <1>6, TheKinds DEF Gone
  <2>2. Step("copy", r, "artifact") \in Ahead(h)' /\ Step("copyRest", r, "artifact") \in Ahead(h)'
    BY <1>7, TheSteps, TheKinds DEF Writes, Creates
  <2>3. QED
    BY <1>3, <2>1, <2>2 DEF DataOf
<1>12. QED
  BY <1>8, <1>9, <1>10, <1>11 DEF WorkOf

(* The other root and the other files are as they were. *)
LEMMA ReservesElsewhere ==
  ASSUME IInv, NEW h \in Helpers, NEW r \in Roots, NEW i \in Ids, Reserves(h, r, i), NEW q \in Roots \ {r}
  PROVE  WorkOf(h, q)'
<1>1. Types /\ Disk /\ Listed(h) /\ WorkOf(h, q)
  BY DEF IInv
<1>2. SameSteps(h)
  BY ReservesSteps
<1>3. /\ run'[h].header = run[h].header /\ run'[h].version = run[h].version /\ run'[h].ids[q] = run[h].ids[q]
      /\ run[h].ids[r] = NoId /\ NoId \notin Ids
  BY <1>1, ReservesRun, TheReserve, StagingAssumption
<1>4. fs'[q] = fs[q] /\ held' = held /\ source' = source
  BY ReservesDisk DEF Reserves
<1>5. Has(h, q)' = Has(h, q) /\ InSession(h)' = InSession(h) /\ IsOpen(h, q)' = IsOpen(h, q)
  BY <1>2, <1>3 DEF Has, SameSteps
<1>6. SUFFICES ASSUME Has(h, q) PROVE (ReservationOf(h, q) /\ (\A k \in Kinds : FileOf(h, q, k)) /\ (InSession(h) => DataOf(h, q)))'
  BY <1>5 DEF WorkOf
<1>7. \A k \in Kinds : \A j : /\ Now(q, k, j)' = Now(q, k, j) /\ May(q, k, j)' = May(q, k, j) /\ Flushed(q, k, j)' = Flushed(q, k, j)
                              /\ Durable(q, k, j)' = Durable(q, k, j) /\ MayBeFound(q, k, j)' = MayBeFound(q, k, j)
  BY <1>4 DEF Now, May, Flushed, Durable, MayBeFound
<1>8. ReservationOf(h, q) /\ (\A k \in Kinds : FileOf(h, q, k)) /\ (InSession(h) => DataOf(h, q))
  BY <1>1, <1>6 DEF WorkOf
<1>9. PICK j \in Ids : j = run[h].ids[q]
  BY <1>8 DEF ReservationOf
<1>10. (run[h].ids[q])' = j
  BY <1>3, <1>9
<1>11. ReservationOf(h, q)'
  <2>1. \A n : May(q, "record", n)' = May(q, "record", n) /\ Used(q, n)' = Used(q, n)
    BY <1>7, TheKinds DEF Used
  <2>2. QED
    BY <1>3, <1>4, <1>5, <1>8, <2>1 DEF ReservationOf
<1>12. ASSUME NEW k \in Kinds PROVE FileOf(h, q, k)'
  <2>1. FileOf(h, q, k)
    BY <1>8
  <2>2. /\ \A op \in Writes : /\ Step(op, q, k) \in Ahead(h)' <=> Step(op, q, k) \in Ahead(h)
                              /\ Done(h, op, q, k)' = Done(h, op, q, k)
        /\ (Putting(q, k) \cap Ahead(h))' = Putting(q, k) \cap Ahead(h)
    BY <1>2, SameSets
  <2>3. "create" \in Writes /\ "write" \in Writes /\ "sync" \in Writes /\ "full" \in Writes
    BY DEF Writes, Creates
  <2>4. k # "artifact" /\ Done(h, "write", q, k) => Now(q, k, j)' = Expected(h, q, k)'
    <3> SUFFICES ASSUME k # "artifact", Done(h, "write", q, k) PROVE Now(q, k, j)' = Expected(h, q, k)'
      OBVIOUS
    <3>1. Now(q, k, j) = Expected(h, q, k)
      BY <1>9, <2>1 DEF FileOf
    <3>2. CASE k \in {"record", "seal"}
      <4>1. Expected(h, q, k)' = Expected(h, q, k)
        BY <1>3, <1>7, <3>2, TheKinds DEF Expected
      <4>2. QED
        BY <1>7, <3>1, <4>1
    <3>3. CASE k \in Lifecycle
      <4>1. Now(q, k, j) = Manifest(h)
        BY <3>1, <3>3 DEF Expected, Lifecycle
      <4>2. run[h].ids[r] \in Ids
        BY <1>1, <4>1, ManifestIds
      <4>3. QED
        BY <1>3, <4>2
    <3>4. QED
      BY <3>2, <3>3, TheKinds
  <2>5. QED
    BY <1>5, <1>7, <1>9, <1>10, <2>1, <2>2, <2>3, <2>4 DEF FileOf
<1>13. InSession(h)' => DataOf(h, q)'
  <2> SUFFICES ASSUME InSession(h) PROVE DataOf(h, q)'
    BY <1>5
  <2>1. DataOf(h, q)
    BY <1>8
  <2>2. \A op \in {"copy", "copyRest", "sync"} : Step(op, q, "artifact") \in Ahead(h)' <=> Step(op, q, "artifact") \in Ahead(h)
    BY <1>2, SameSets, TheKinds DEF Writes, Creates
  <2>3. PICK c : c = Now(q, "artifact", j)
    OBVIOUS
  <2>4. Now(q, "artifact", j)' = c
    BY <1>7, <2>3, TheKinds
  <2>5. QED
    BY <1>3, <1>4, <1>9, <1>10, <2>1, <2>2, <2>3, <2>4 DEF DataOf
<1>14. QED
  BY <1>11, <1>12, <1>13

LEMMA ReserveKeeps ==
  ASSUME IInv, NEW h \in Helpers, Reserve(h)
  PROVE  IInv' /\ Steady
<1>1. Types /\ Locks /\ Listed(h)
  BY DEF IInv
<1>2. ~Idle(h) /\ At(h, "reserve")
  BY DEF Reserve, At, Idle
<1>3. PICK r \in Roots : r = Root(h)
  BY <1>1, <1>2, AtHead
<1>4. PICK i \in Ids : Reserves(h, r, i)
  BY <1>3 DEF Reserve, Reserves
<1>5. Disk' /\ Steady /\ \A q \in Roots \ {r} : fs'[q] = fs[q]
  BY <1>4, ReservesDisk
<1>6. Touches(h)
  <2>1. r \in held[h]
    BY <1>4, TheReserve
  <2>2. QED
    BY <1>5, <2>1 DEF Touches
<1>7. /\ Proceeds(h) /\ source' = source /\ held' = held /\ slots' = slots /\ staged' = staged
  BY <1>4 DEF Reserves
<1>8. /\ todo' \in [Helpers -> Seq(Steps)]
      /\ \A g \in Helpers \ {h} : todo'[g] = todo[g]
  BY <1>1, <1>2, <1>7, Proceeding
<1>9. Types' /\ Locks' /\ Alone(h)
  BY <1>1, <1>4, <1>7, <1>8, ReservesRun DEF Types, Locks, Alone
<1>10. Listed(h)'
  BY <1>4, ReservesListed
<1>11. \A q \in Roots : WorkOf(h, q)'
  BY <1>4, ReservesThere, ReservesElsewhere
<1>12. QED
  BY <1>5, <1>6, <1>7, <1>9, <1>10, <1>11, HelperKeeps

-----------------------------------------------------------------------------
(* The invariant.                                                             *)

(* An empty disk is in order. *)
LEMMA InitialDisk ==
  ASSUME Init
  PROVE  Disk
<1>1. \A r \in Roots, k \in Kinds, i \in Ids : fs[r][k][i] = NoFile
  BY DEF Init
<1>2. NoFile \in Files
  BY DEF NoFile, Files, Contents
<1>3. fs \in [Roots -> [Kinds -> [Ids -> Files]]]
  BY <1>2 DEF Init
<1>4. \A r \in Roots, k \in Kinds, i \in Ids : Now(r, k, i) = Gone /\ May(r, k, i) = {Gone} /\ ~MayBeFound(r, k, i)
  BY <1>1 DEF NoFile, Now, May, MayBeFound
<1>5. IsFiniteSet({Gone})
  BY FS_Singleton
<1>6. ASSUME NEW r \in Roots, NEW k \in Kinds, NEW i \in Ids PROVE FileOK(r, k, i)
  BY <1>4, <1>5 DEF FileOK
<1>7. \A x : Record(x) # Gone
  BY DEF Record, Gone
<1>8. ASSUME NEW r \in Roots, NEW i \in Ids PROVE RecordOK(r, i) /\ SealOK(r, i) /\ PairOK(r, i)
  <2>1. RecordOK(r, i)
    BY <1>4, <1>7, TheKinds DEF RecordOK
  <2>2. Gone.is # "seal" /\ Gone.is # "pair"
    BY DEF Gone
  <2>3. SealOK(r, i)
    BY <1>4, <2>2, TheKinds DEF SealOK
  <2>4. PairOK(r, i)
    BY <1>4, <2>2, TheKinds DEF PairOK
  <2>5. QED
    BY <2>1, <2>3, <2>4
<1>9. OneUsed
  BY <1>4, <1>7, TheKinds DEF OneUsed
<1>10. QED
  BY <1>3, <1>6, <1>8, <1>9 DEF Disk

(* The invariant holds initially. *)
LEMMA InitIInv == Init => IInv
<1> SUFFICES ASSUME Init PROVE IInv
  OBVIOUS
<1>1. Disk
  BY InitialDisk
<1>2. NoRun \in [header : Headers \cup {NoHeader}, version : Nat, ids : [Roots -> Ids \cup {NoId}]]
  BY DEF NoRun, NoVersion
<1>3. <<>> \in Seq(Steps)
  OBVIOUS
<1>4. Types
  BY <1>2, <1>3 DEF Init, Types
<1>5. Locks
  BY DEF Init, Locks
<1>6. ASSUME NEW h \in Helpers PROVE Listed(h) /\ \A r \in Roots : WorkOf(h, r)
  <2>1. todo[h] = <<>>
    BY DEF Init
  <2>2. Ahead(h) = {} /\ InOrder(todo[h])
    BY <2>1 DEF Ahead, Elements, InOrder
  <2>3. \A r \in Roots : ~InSession(h) /\ ~IsOpen(h, r) /\ ~Works(h, r)
    BY <2>2 DEF InSession, IsOpen, Works
  <2>4. ~InSession(h)
    BY <2>2 DEF InSession
  <2>5. Listed(h)
    BY <1>3, <2>1, <2>2, <2>3, <2>4 DEF Listed
  <2>6. QED
    BY <2>3, <2>5 DEF WorkOf, Has
<1>7. staged = {}
  BY DEF Init
<1>8. QED
  BY <1>1, <1>4, <1>5, <1>6, <1>7 DEF IInv

(* Every step keeps the invariant, and leaves what is durable as it is. *)
LEMMA NextIInv == IInv /\ [Next]_vars => IInv' /\ Steady
<1> SUFFICES ASSUME IInv, [Next]_vars PROVE IInv' /\ Steady
  OBVIOUS
<1>1. ASSUME NEW h \in Helpers,
             \/ Abandon(h) \/ Open(h)
             \/ Reserve(h) \/ Create(h) \/ CopyChunk(h) \/ WriteContent(h)
             \/ Synchronize(h) \/ FullSync(h) \/ Return(h)
             \/ Prepare(h) \/ Validate(h)
      PROVE  IInv' /\ Steady
  BY <1>1, AbandonKeeps, OpenKeeps, ReserveKeeps, CreateKeeps, CopyChunkKeeps, WriteContentKeeps,
     SynchronizeKeeps, FullSyncKeeps, ReturnKeeps, PrepareKeeps, ValidateKeeps
<1>2. ASSUME NEW h \in Helpers,
             \/ MaterializeEmptyAndSeal(h) \/ Release(h) \/ Reconcile(h) \/ ReconcileEnds(h)
             \/ \E i \in Ids : ReconcileOne(h, i)
             \/ \E r \in Roots : OpenLedger(h, r)
             \/ \E x \in Headers : StartSession(h, x) \/ LedgerReserve(h, x)
      PROVE  IInv' /\ Steady
  BY <1>2, MaterializeEmptyAndSealKeeps, ReleaseKeeps, ReconcileKeeps, ReconcileEndsKeeps, ReconcileOneKeeps,
     OpenLedgerKeeps, StartSessionKeeps, LedgerReserveKeeps
<1>3. CASE Modify
  BY <1>3, ModifyKeeps
<1>4. CASE PowerLoss
  BY <1>4, PowerLossKeepsAll
<1>5. CASE UNCHANGED vars
  <2>1. /\ source' = source
        /\ fs' = fs /\ todo' = todo /\ run' = run /\ held' = held /\ slots' = slots /\ staged' = staged
    BY <1>5 DEF vars, disk
  <2>2. source' \in Nat \ {0} /\ source <= source'
    BY <2>1 DEF IInv, Types
  <2>3. QED
    BY <2>1, <2>2, StillKeeps
<1>6. QED
  BY <1>1, <1>2, <1>3, <1>4, <1>5 DEF Next

(* The inductive invariant: the disk holds what its files say of each other, *)
(* every helper knows of its files what the steps behind it have made sure   *)
(* of, and whoever has work in a root has it locked.                         *)
THEOREM StagingInvariant == Spec => []IInv
<1>1. Init => IInv
  BY InitIInv
<1>2. IInv /\ [Next]_vars => IInv'
  BY NextIInv
<1>3. QED
  BY <1>1, <1>2, PTL DEF Spec

-----------------------------------------------------------------------------
(* What follows.                                                              *)

(* The invariants of the run follow. *)
LEMMA BackedFollows == IInv => SealsAreBacked
<1> SUFFICES ASSUME IInv, NEW r \in Roots, NEW i \in Ids
             PROVE  /\ MayBeFound(r, "seal", i) => Durable(r, "record", i) /\ Durable(r, "artifact", i)
                    /\ MayBeFound(r, "pairSeal", i) => Durable(r, "pair", i) /\ Durable(r, "seal", i)
                    /\ Now(Second, "pair", i).is = "pair" => Durable(First, "pairSeal", Now(Second, "pair", i).ids[First])
  BY DEF SealsAreBacked
<1>1. Disk
  BY DEF IInv
<1>2. SealOK(r, i) /\ PairOK(r, i) /\ PairOK(Second, i)
  BY <1>1, TheRoots DEF Disk
<1>3. Now(Second, "pair", i) \in May(Second, "pair", i)
  BY <1>1, TheFile, TheRoots, TheKinds DEF FileOK
<1>4. Now(Second, "pair", i).is = "pair" => Durable(First, "pairSeal", Now(Second, "pair", i).ids[First])
  BY <1>2, <1>3, TheKinds DEF PairOK
<1>5. QED
  BY <1>2, <1>4 DEF SealOK, PairOK

LEMMA NoTwinsFollows == IInv => NoTwins
<1> SUFFICES ASSUME IInv, NEW r \in Roots, NEW x \in Headers
             PROVE  Cardinality({i \in Ids : \E c \in fs[r]["seal"][i].may : c.is = "seal" /\ c.header = x}) <= 1
  BY DEF NoTwins
<1>1. Disk
  BY DEF IInv
<1>2. ASSUME NEW i \in Ids, NEW c \in fs[r]["seal"][i].may, c.is = "seal", c.header = x
      PROVE  Record(x) \in May(r, "record", i) /\ Used(r, i)
  <2>1. c \in May(r, "seal", i) /\ c # Gone
    BY <1>2 DEF May, Gone
  <2>2. SealOK(r, i) /\ MayBeFound(r, "seal", i)
    BY <1>1, <2>1, TheFile, TheKinds DEF Disk
  <2>3. Now(r, "record", i) = Record(x) /\ Durable(r, "artifact", i)
    BY <1>2, <2>1, <2>2 DEF SealOK
  <2>4. Now(r, "record", i) \in May(r, "record", i) /\ MayBeFound(r, "artifact", i)
    BY <1>1, <2>3, TheFile, TheKinds DEF FileOK
  <2>5. QED
    BY <2>3, <2>4 DEF Used
<1>3. PICK twins : twins = {i \in Ids : \E c \in fs[r]["seal"][i].may : c.is = "seal" /\ c.header = x}
  OBVIOUS
<1>4. \A i, j \in twins : i = j
  BY <1>1, <1>2, <1>3 DEF Disk, OneUsed
<1>5. Cardinality(twins) <= 1
  <2>1. CASE twins = {}
    BY <2>1, FS_EmptySet
  <2>2. CASE twins # {}
    <3>1. PICK i \in twins : twins = {i}
      BY <1>4, <2>2
    <3>2. Cardinality({i}) = 1
      BY FS_Singleton
    <3>3. QED
      BY <3>1, <3>2
  <2>3. QED
    BY <2>1, <2>2
<1>6. QED
  BY <1>3, <1>5

(* What a scan finds. *)
LEMMA TheScanned ==
  ASSUME Disk, NEW r \in Roots, NEW k \in Lifecycle, NEW x, NEW pair \in Scan(r, k, x)
  PROVE  /\ pair \in Contents /\ pair.is = "pair" /\ pair.header = x /\ Backed(pair)
<1>1. PICK i \in Ids : pair = Now(r, k, i) /\ Now(r, k, i).is = "pair" /\ Now(r, k, i).header = x
  BY DEF Scan
<1>2. k \in Kinds
  BY TheKinds
<1>3. pair \in Contents /\ pair \in May(r, k, i)
  BY <1>1, <1>2, TheFile DEF FileOK
<1>4. Backed(pair)
  BY <1>1, <1>3 DEF Disk, PairOK
<1>5. QED
  BY <1>1, <1>3, <1>4

LEMMA SoundFollows == IInv => InspectionIsSound
<1> SUFFICES ASSUME IInv, NEW x \in Headers, NEW pair \in Scan(First, "pairSeal", x), NEW r \in Roots
             PROVE  Now(r, "artifact", pair.ids[r]).data = <<pair.version, pair.version>>
  BY DEF InspectionIsSound
<1>1. Backed(pair)
  BY TheScanned, TheRoots, TheKinds DEF IInv
<1>2. Now(r, "artifact", pair.ids[r]) = Artifact(<<pair.version, pair.version>>)
  BY <1>1 DEF Backed
<1>3. QED
  BY <1>2 DEF Artifact

(* Two lifecycle records of one request are the same. *)
LEMMA OnePair ==
  ASSUME Disk, NEW p \in Contents, NEW q \in Contents, p.is = "pair", q.is = "pair", p.header = q.header, Backed(p), Backed(q)
  PROVE  p = q
<1>1. /\ p.header \in Headers /\ p.ids \in [Roots -> Ids] /\ p.version \in Nat /\ p.seals \in [Roots -> Seq(Nat)]
      /\ p = Pair(p.header, p.ids, p.version, p.seals)
  BY WhatIs
<1>2. /\ q.ids \in [Roots -> Ids] /\ q.version \in Nat /\ q.seals \in [Roots -> Seq(Nat)]
      /\ q = Pair(q.header, q.ids, q.version, q.seals)
  BY WhatIs
<1>3. ASSUME NEW pair, pair.ids \in [Roots -> Ids], Backed(pair), NEW r \in Roots
      PROVE  /\ Record(pair.header) \in May(r, "record", pair.ids[r]) /\ Used(r, pair.ids[r])
             /\ Now(r, "artifact", pair.ids[r]) = Artifact(<<pair.version, pair.version>>)
             /\ pair.seals[r] = <<pair.version, pair.version>>
  <2>1. PICK i \in Ids : i = pair.ids[r]
    BY <1>3
  <2>2. /\ Now(r, "record", i) = Record(pair.header) /\ Durable(r, "artifact", i)
        /\ Now(r, "artifact", i) = Artifact(<<pair.version, pair.version>>)
        /\ pair.seals[r] = <<pair.version, pair.version>>
    BY <1>3, <2>1 DEF Backed
  <2>3. Now(r, "record", i) \in May(r, "record", i) /\ MayBeFound(r, "artifact", i)
    BY <2>2, TheFile, TheKinds DEF FileOK
  <2>4. QED
    BY <2>1, <2>2, <2>3 DEF Used
<1>4. ASSUME NEW r \in Roots PROVE p.ids[r] = q.ids[r]
  <2>1. Record(p.header) \in May(r, "record", p.ids[r]) /\ Used(r, p.ids[r])
    BY <1>1, <1>3
  <2>2. Record(p.header) \in May(r, "record", q.ids[r]) /\ Used(r, q.ids[r])
    BY <1>2, <1>3
  <2>3. p.ids[r] \in Ids /\ q.ids[r] \in Ids
    BY <1>1, <1>2
  <2>4. QED
    BY <1>1, <2>1, <2>2, <2>3 DEF Disk, OneUsed
<1>5. p.ids = q.ids
  BY <1>1, <1>2, <1>4
<1>6. p.version = q.version
  <2>1. Artifact(<<p.version, p.version>>) = Artifact(<<q.version, q.version>>)
    BY <1>1, <1>2, <1>3, <1>5, TheRoots
  <2>2. <<p.version, p.version>> = <<q.version, q.version>>
    BY <2>1 DEF Artifact
  <2>3. QED
    BY <2>2
<1>7. p.seals = q.seals
  <2>1. ASSUME NEW r \in Roots PROVE p.seals[r] = q.seals[r]
    BY <1>1, <1>2, <1>3, <1>6
  <2>2. QED
    BY <1>1, <1>2, <2>1
<1>8. QED
  BY <1>1, <1>2, <1>5, <1>6, <1>7

(* Both records of both roots are found, and agree, so that what was returned can be inspected. *)
LEMMA SurvivesFollows == IInv => StagedSurvives
<1> SUFFICES ASSUME IInv, NEW s \in staged
             PROVE  /\ \A r \in Roots, k \in Kinds : Durable(r, k, s.ids[r])
                    /\ Inspect(s.header) \in {"ExactPending", "Malformed"}
  BY DEF StagedSurvives
<1>1. Disk /\ StagedOK(s)
  BY DEF IInv
<1>2. PICK x \in Headers, ids \in [Roots -> Ids] : x = s.header /\ ids = s.ids
  BY <1>1 DEF StagedOK
<1>3. PICK pair : pair = Now(First, "pair", ids[First])
  OBVIOUS
<1>4. /\ \A r \in Roots, k \in Kinds : Durable(r, k, ids[r])
      /\ \A r \in Roots : Now(r, "seal", ids[r]).is = "seal"
      /\ pair.is = "pair" /\ pair.header = x /\ pair.ids = ids
      /\ \A r \in Roots, k \in Lifecycle : Now(r, k, ids[r]) = pair
  BY <1>1, <1>2, <1>3 DEF StagedOK
<1>5. \A r \in Roots, k \in Lifecycle : pair \in Scan(r, k, x)
  <2> SUFFICES ASSUME NEW r \in Roots, NEW k \in Lifecycle PROVE pair \in Scan(r, k, x)
    OBVIOUS
  <2>1. PICK i \in Ids : i = ids[r]
    BY <1>2
  <2>2. Now(r, k, i) = pair
    BY <1>4, <2>1
  <2>3. QED
    BY <1>4, <2>2 DEF Scan
<1>6. pair \in Contents /\ Backed(pair)
  BY <1>1, <1>5, TheScanned, TheRoots, TheKinds
<1>7. ASSUME NEW r \in Roots, NEW k \in Lifecycle PROVE Scan(r, k, x) = {pair}
  <2>1. ASSUME NEW p \in Scan(r, k, x) PROVE p = pair
    <3>1. p \in Contents /\ p.is = "pair" /\ p.header = x /\ Backed(p)
      BY <1>1, TheScanned
    <3>2. QED
      BY <1>1, <1>4, <1>6, <3>1, OnePair
  <2>2. QED
    BY <1>5, <2>1
<1>8. PICK found : found = {n \in Roots \X Lifecycle : Scan(n[1], n[2], x) # {}}
  OBVIOUS
<1>9. found = Roots \X Lifecycle /\ found # {}
  <2>1. \A n \in Roots \X Lifecycle : n[1] \in Roots /\ n[2] \in Lifecycle
    OBVIOUS
  <2>2. \A n \in Roots \X Lifecycle : Scan(n[1], n[2], x) # {}
    BY <1>5, <2>1
  <2>3. <<First, "pair">> \in Roots \X Lifecycle
    BY TheRoots, TheKinds
  <2>4. QED
    BY <1>8, <2>2, <2>3
<1>10. PICK pairs : pairs = UNION {Scan(n[1], n[2], x) : n \in found}
  OBVIOUS
<1>11. pairs = {pair}
  <2>1. \A n \in found : n[1] \in Roots /\ n[2] \in Lifecycle
    BY <1>9
  <2>2. \A n \in found : Scan(n[1], n[2], x) = {pair}
    BY <1>7, <2>1
  <2>3. {Scan(n[1], n[2], x) : n \in found} = {{pair}}
    BY <1>9, <2>2
  <2>4. QED
    BY <1>10, <2>3
<1>12. ~(Cardinality(pairs) > 1)
  <2>1. Cardinality({pair}) = 1
    BY FS_Singleton
  <2>2. QED
    BY <1>11, <2>1
<1>13. HasSealedArtifacts(pair)
  <2> SUFFICES ASSUME NEW r \in Roots
               PROVE  HasExactSealedArtifact(x, r, ids[r]) /\ Now(r, "artifact", ids[r]).data = pair.seals[r]
    BY <1>4 DEF HasSealedArtifacts
  <2>1. PICK i \in Ids : i = ids[r]
    BY <1>2
  <2>2. PICK v : v = pair.version
    OBVIOUS
  <2>3. Now(r, "record", i) = Record(x) /\ Now(r, "artifact", i) = Artifact(<<v, v>>) /\ pair.seals[r] = <<v, v>>
    BY <1>4, <1>6, <2>1, <2>2 DEF Backed
  <2>4. PICK c \in Contents : c = Now(r, "seal", i)
    BY <1>1, TheFile, TheKinds
  <2>5. c.is = "seal" /\ c \in May(r, "seal", i)
    BY <1>1, <1>4, <2>1, <2>4, TheFile, TheKinds DEF FileOK
  <2>6. Record(x) = Record(c.header) /\ Artifact(<<v, v>>) = Artifact(c.data) /\ c = Seal(c.header, c.data)
    BY <1>1, <2>3, <2>5, WhatIs DEF Disk, SealOK
  <2>7. c.header = x /\ c.data = <<v, v>>
    BY <2>6 DEF Record, Artifact
  <2>8. Artifact(<<v, v>>).is = "artifact" /\ Artifact(<<v, v>>).data = <<v, v>>
    BY DEF Artifact
  <2>9. HasExactSealedArtifact(x, r, i)
    BY <2>3, <2>4, <2>6, <2>7, <2>8 DEF HasExactSealedArtifact
  <2>10. QED
    BY <2>1, <2>3, <2>8, <2>9
<1>14. Inspect(x) \in {"ExactPending", "Malformed"}
  BY <1>8, <1>9, <1>10, <1>11, <1>12, <1>13 DEF Inspect
<1>15. QED
  BY <1>2, <1>4, <1>14

(* What is durable is kept by every step of every helper, by every crash and  *)
(* by every power loss: artifacts, seals and lifecycle records for good, a    *)
(* reservation as long as it has an artifact (Release and Reconcile remove    *)
(* only those that have none).                                                *)
THEOREM DurableFilesStay == Spec => [][Steady]_vars
<1>1. IInv /\ [Next]_vars => [Steady]_vars
  BY NextIInv
<1>2. QED
  BY <1>1, StagingInvariant, PTL DEF Spec

(* Fields keep to their ranges, steps are well formed, slots name a request   *)
(* and an artifact.                                                           *)
THEOREM StagingTypes == Spec => []Types
<1>1. IInv => Types
  BY DEF IInv
<1>2. QED
  BY <1>1, StagingInvariant, PTL

(* Whatever a power loss leaves of it, a seal vouches for a durable artifact  *)
(* and its reservation, the last lifecycle record of a root for the one       *)
(* before it and for the seal, and the second root's for the first root's.    *)
THEOREM SealsHaveWhatTheyNeed == Spec => []SealsAreBacked
BY StagingInvariant, BackedFollows, PTL

(* Of the attempts at one request one at most is ever sealed in a root:       *)
(* ProtectedRootLedger::Reserve refuses a request that has a reservation, and *)
(* a reservation that has an artifact is not taken back.                      *)
THEOREM OneSealForARequest == Spec => []NoTwins
BY StagingInvariant, NoTwinsFollows, PTL

(* What an inspection takes for a pending publication is, in both roots, the  *)
(* source as it was reviewed, all of it from one version                      *)
(* (StagingPublicationLifecycle::Inspect).                                    *)
THEOREM PendingIsAsReviewed == Spec => []InspectionIsSound
BY StagingInvariant, SoundFollows, PTL

(* A stage that StagingSessionRunner::Run returned is durable in both roots,  *)
(* and an inspection finds it, unless a torn lifecycle record is in the way.  *)
THEOREM WhatIsReturnedStays == Spec => []StagedSurvives
BY StagingInvariant, SurvivesFollows, PTL
=============================================================================
