--------------------------- MODULE PipelineProofs ---------------------------
(***************************************************************************)
(* What InventoryPipeline.tla checks for one or two objects, proved for    *)
(* any number of objects, changes, generations and faults: the writer      *)
(* never deletes the row of a live object, and once the pipeline has       *)
(* drained the inventory agrees with the cluster.                          *)
(***************************************************************************)
EXTENDS InventoryPipeline, FiniteSetTheorems, WellFoundedInduction, TLAPS

EventRec  == [gen : Generations, uid : UIDs, ver : Versions, gone : BOOLEAN]
ResyncRec == [gen : Generations, rev : Versions]
InfRec    == [pc : {"none", "list", "ack", "watch"}, cursor : Versions,
              ack : {"none", "ok", "nack"}]
RetainedRec == [gen : Generations \cup {None}, rev : Versions,
                stale : SUBSET UIDs, names : SUBSET UIDs]
MemoryRec == [gen : Generations \cup {None}, reported : SUBSET UIDs,
              closed : Generations \cup {None}, up : [UIDs -> Versions],
              del : SUBSET UIDs, sent : [UIDs -> Versions], retained : RetainedRec]
UsedRec   == [failures : 0 .. MaxFailures, breaks : 0 .. MaxBreaks,
              restarts : 0 .. MaxRestarts]

\* v is a version of u that the first n changes of the log l hold.
VersionOf(l, u, v, n) == v \in 1 .. n /\ l[v].uid = u /\ ~l[v].gone
\* u is deleted by one of the first n changes, or was there in them.
GoneBy(l, u, n) == \E i \in 1 .. n : l[i].uid = u /\ l[i].gone
SeenBy(l, u, n) == \E v \in 1 .. n : VersionOf(l, u, v, n)

\* A UID that was deleted does not come back.
LogSound(l) ==
    /\ l \in Seq(Changes) /\ Len(l) <= MaxChanges
    /\ \A i, j \in 1 .. Len(l) : i < j /\ l[i].uid = l[j].uid => ~l[i].gone

-----------------------------------------------------------------------------
(* Numbers and sequences                                                   *)

\* The greatest of a bounded set of numbers, as FiniteSetsExt chooses it.
LEMMA MaxFacts ==
    ASSUME NEW S \in SUBSET Nat, S # {}, NEW k \in Nat, \A x \in S : x <= k
    PROVE  Max(S) \in S /\ \A y \in S : y <= Max(S)
<1> DEFINE T == {k - x : x \in S}
<1>1. T \subseteq Nat /\ T # {}
  <2>1. \A x \in S : k - x \in Nat
    OBVIOUS
  <2>2. PICK x \in S : TRUE
    OBVIOUS
  <2>3. k - x \in T
    OBVIOUS
  <2> QED BY <2>1, <2>3
<1>2. PICK t \in T : \A y \in T : ~(<<y, t>> \in OpToRel(<, Nat))
  BY <1>1, NatLessThanWellFounded, WFMin
<1>3. PICK x \in S : t = k - x
  BY <1>2
<1>4. \A y \in S : y <= x
  <2> TAKE y \in S
  <2>1. k - y \in T /\ k - y \in Nat /\ t \in Nat
    BY <1>1
  <2>2. ~(k - y < t)
    BY <1>2, <2>1 DEF OpToRel
  <2> QED BY <1>3, <2>1, <2>2
<1>5. \A y \in S : x >= y
  BY <1>4
<1>6. Max(S) \in S /\ \A y \in S : Max(S) >= y
  BY <1>5 DEF Max
<1> QED BY <1>6

\* What a channel holds after a send and after a receive.
LEMMA AppendRange ==
    ASSUME NEW S, NEW q \in Seq(S), NEW x \in S
    PROVE  Append(q, x) \in Seq(S) /\ Range(Append(q, x)) = Range(q) \cup {x}
<1> DEFINE a == Append(q, x)
<1>1. a \in Seq(S) /\ Len(a) = Len(q) + 1 /\ a[Len(q) + 1] = x
      /\ \A i \in 1 .. Len(q) : a[i] = q[i]
  OBVIOUS
<1>2. DOMAIN a = 1 .. Len(q) + 1 /\ DOMAIN q = 1 .. Len(q) /\ Len(q) \in Nat
  BY <1>1
<1> HIDE DEF a
<1>3. Range(a) \subseteq Range(q) \cup {x}
  <2> SUFFICES ASSUME NEW i \in DOMAIN a PROVE a[i] \in Range(q) \cup {x}
    BY DEF Range
  <2>1. i \in 1 .. Len(q) \/ i = Len(q) + 1
    BY <1>2
  <2> QED BY <1>1, <1>2, <2>1 DEF Range
<1>4. Range(q) \cup {x} \subseteq Range(a)
  <2>1. x \in Range(a)
    BY <1>1, <1>2 DEF Range
  <2>2. ASSUME NEW i \in DOMAIN q PROVE q[i] \in Range(a)
    BY <1>1, <1>2, <2>2 DEF Range
  <2> QED BY <2>1, <2>2 DEF Range
<1> QED BY <1>1, <1>3, <1>4 DEF a

\* A receive takes the first message of a channel and keeps the rest.
LEMMA TailRange ==
    ASSUME NEW S, NEW q \in Seq(S), q # <<>>
    PROVE  /\ Tail(q) \in Seq(S) /\ Head(q) \in S
           /\ Len(Tail(q)) = Len(q) - 1 /\ Len(q) \in Nat \ {0}
           /\ \A i \in 1 .. Len(Tail(q)) : Tail(q)[i] = q[i + 1]
           /\ Head(q) = q[1]
           /\ Range(q) = Range(Tail(q)) \cup {Head(q)}
<1> DEFINE t == Tail(q)
<1>1. t \in Seq(S) /\ Head(q) \in S /\ Len(t) = Len(q) - 1 /\ Len(q) \in Nat \ {0}
      /\ (\A i \in 1 .. Len(t) : t[i] = q[i + 1]) /\ Head(q) = q[1]
  OBVIOUS
<1>2. DOMAIN t = 1 .. Len(q) - 1 /\ DOMAIN q = 1 .. Len(q)
  BY <1>1
<1> HIDE DEF t
<1>3. Range(q) \subseteq Range(t) \cup {Head(q)}
  <2> SUFFICES ASSUME NEW i \in 1 .. Len(q) PROVE q[i] \in Range(t) \cup {Head(q)}
    BY <1>2 DEF Range
  <2>1. CASE i = 1
    BY <1>1, <2>1
  <2>2. CASE i # 1
    <3>1. i - 1 \in 1 .. Len(t) /\ t[i - 1] = q[i]
      BY <1>1, <2>2
    <3> QED BY <1>1, <1>2, <3>1 DEF Range
  <2> QED BY <2>1, <2>2
<1>4. Range(t) \cup {Head(q)} \subseteq Range(q)
  <2>1. Head(q) \in Range(q)
    BY <1>1, <1>2 DEF Range
  <2>2. ASSUME NEW i \in DOMAIN t PROVE t[i] \in Range(q)
    <3>1. i \in 1 .. Len(t) /\ i + 1 \in 1 .. Len(q)
      BY <1>1, <1>2
    <3> QED BY <1>1, <1>2, <3>1 DEF Range
  <2> QED BY <2>1, <2>2 DEF Range
<1> QED BY <1>1, <1>3, <1>4 DEF t

\* The channel after a LIST has sent its events, one after the other.
LEMMA ConcatRange ==
    ASSUME NEW S, NEW q \in Seq(S), NEW a \in Seq(S)
    PROVE  /\ q \o a \in Seq(S) /\ Len(q \o a) = Len(q) + Len(a)
           /\ Len(q) \in Nat /\ Len(a) \in Nat
           /\ \A i \in 1 .. Len(q \o a) :
                 (q \o a)[i] = IF i <= Len(q) THEN q[i] ELSE a[i - Len(q)]
           /\ Range(q \o a) = Range(q) \cup Range(a)
<1> DEFINE c == q \o a
<1>1. c \in Seq(S) /\ Len(c) = Len(q) + Len(a) /\ Len(q) \in Nat /\ Len(a) \in Nat
      /\ \A i \in 1 .. Len(c) : c[i] = IF i <= Len(q) THEN q[i] ELSE a[i - Len(q)]
  OBVIOUS
<1>2. DOMAIN c = 1 .. Len(c) /\ DOMAIN q = 1 .. Len(q) /\ DOMAIN a = 1 .. Len(a)
  BY <1>1
<1> HIDE DEF c
<1>3. Range(c) \subseteq Range(q) \cup Range(a)
  <2> SUFFICES ASSUME NEW i \in 1 .. Len(c) PROVE c[i] \in Range(q) \cup Range(a)
    BY <1>2 DEF Range
  <2>1. CASE i <= Len(q)
    <3>1. i \in DOMAIN q /\ c[i] = q[i]
      BY <1>1, <1>2, <2>1
    <3> QED BY <3>1 DEF Range
  <2>2. CASE ~(i <= Len(q))
    <3>1. i - Len(q) \in DOMAIN a /\ c[i] = a[i - Len(q)]
      BY <1>1, <1>2, <2>2
    <3> QED BY <3>1 DEF Range
  <2> QED BY <2>1, <2>2
<1>4. Range(q) \subseteq Range(c)
  <2> SUFFICES ASSUME NEW i \in 1 .. Len(q) PROVE q[i] \in Range(c)
    BY <1>2 DEF Range
  <2>1. i \in 1 .. Len(c) /\ c[i] = q[i]
    BY <1>1
  <2> QED BY <1>2, <2>1 DEF Range
<1>5. Range(a) \subseteq Range(c)
  <2> SUFFICES ASSUME NEW i \in 1 .. Len(a) PROVE a[i] \in Range(c)
    BY <1>2 DEF Range
  <2> DEFINE k == i + Len(q)
  <2>0. k \in 1 .. Len(c) /\ ~(k <= Len(q)) /\ k - Len(q) = i
    BY <1>1
  <2> HIDE DEF k
  <2>1. k \in 1 .. Len(c) /\ c[k] = a[i]
    BY <1>1, <2>0
  <2> QED BY <1>2, <2>1 DEF Range
<1> QED BY <1>1, <1>3, <1>4, <1>5 DEF c

\* The events of a LIST: SetToSeq gives a sequence of exactly the set.
LEMMA SetToSeqFacts ==
    ASSUME NEW S, IsFiniteSet(S)
    PROVE  SetToSeq(S) \in Seq(S) /\ Range(SetToSeq(S)) = S
<1> DEFINE n == Cardinality(S)
<1>1. n \in Nat /\ ExistsBijection(1 .. n, S)
  BY FS_CardinalityType
<1>2. PICK g \in Bijection(1 .. n, S) : TRUE
  BY <1>1 DEF ExistsBijection
<1>3. g \in [1 .. n -> S] /\ IsInjective(g)
  BY <1>2 DEF Bijection, Injection, IsInjective
<1> DEFINE f == SetToSeq(S)
<1>4. f \in [1 .. n -> S] /\ IsInjective(f)
  BY <1>3 DEF SetToSeq
<1> HIDE DEF f, n
<1>5. f \in Injection(1 .. n, S)
  BY <1>4 DEF Injection, IsInjective
<1>6. IsFiniteSet(1 .. n) /\ Cardinality(1 .. n) = n
  BY <1>1, FS_Interval
<1>7. f \in Surjection(1 .. n, S)
  BY <1>5, <1>6, FS_Injection DEF n
<1>8. Range(f) = S /\ f \in Seq(S)
  BY <1>1, <1>4, <1>7 DEF Surjection, Range
<1> QED BY <1>8 DEF f

-----------------------------------------------------------------------------
(* The log of the cluster                                                  *)

\* The version of an object is the last one the log holds, unless the object
\* is deleted by then.
LEMMA VersionFacts ==
    ASSUME NEW l, LogSound(l), NEW u \in UIDs, NEW n \in 0 .. Len(l)
    PROVE  /\ VersionAt(l, u, n) \in 0 .. n
           /\ VersionAt(l, u, n) # None =>
                 VersionOf(l, u, VersionAt(l, u, n), n) /\ ~GoneBy(l, u, n)
           /\ \A v : VersionOf(l, u, v, n) =>
                 \/ GoneBy(l, u, n)
                 \/ VersionAt(l, u, n) # None /\ v <= VersionAt(l, u, n)
<1> DEFINE S == {i \in 1 .. n : l[i].uid = u}
<1>0. Len(l) \in Nat /\ n \in Nat /\ n <= Len(l) /\ \A i \in 1 .. n : i \in 1 .. Len(l)
  BY DEF LogSound
<1>1. VersionAt(l, u, n) = IF S = {} \/ l[Max(S)].gone THEN 0 ELSE Max(S)
  BY DEF VersionAt, None
<1>2. CASE S = {}
  <2>1. \A v : ~VersionOf(l, u, v, n)
    BY <1>2 DEF VersionOf
  <2> QED BY <1>0, <1>1, <1>2, <2>1 DEF None
<1>3. CASE S # {}
  <2> DEFINE k == Max(S)
  <2>1. k \in S /\ \A y \in S : y <= k
    <3>1. S \in SUBSET Nat /\ \A x \in S : x <= n
      BY <1>0
    <3> HIDE DEF S
    <3> QED BY <1>0, <1>3, <3>1, MaxFacts
  <2>2. VersionAt(l, u, n) = IF l[k].gone THEN 0 ELSE k
    BY <1>1, <1>3
  <2> HIDE DEF k
  <2>3. k \in 1 .. n /\ l[k].uid = u /\ \A v \in 1 .. n : l[v].uid = u => v <= k
    BY <2>1
  <2>4. CASE l[k].gone
    <3>1. GoneBy(l, u, n)
      BY <2>3, <2>4 DEF GoneBy
    <3>2. VersionAt(l, u, n) = None /\ VersionAt(l, u, n) \in 0 .. n
      BY <1>0, <2>2, <2>4 DEF None
    <3> QED BY <3>1, <3>2
  <2>5. CASE ~l[k].gone
    <3>1. VersionOf(l, u, k, n) /\ k # 0
      BY <2>3, <2>5 DEF VersionOf
    <3>2. ~GoneBy(l, u, n)
      <4> SUFFICES ASSUME NEW i \in 1 .. n, l[i].uid = u, l[i].gone PROVE FALSE
        BY DEF GoneBy
      <4>1. i < k
        BY <1>0, <2>3, <2>5
      <4> QED BY <1>0, <2>3, <4>1 DEF LogSound
    <3>3. \A v : VersionOf(l, u, v, n) => v <= k
      BY <2>3 DEF VersionOf
    <3>4. VersionAt(l, u, n) = k /\ k \in 0 .. n /\ k # None
      BY <2>2, <2>3, <2>5 DEF None
    <3> QED BY <3>1, <3>2, <3>3, <3>4
  <2> QED BY <2>4, <2>5
<1> QED BY <1>2, <1>3

\* What is in the log stays there; a version precedes the deletion.
LEMMA HistoryFacts ==
    ASSUME NEW l, LogSound(l), NEW u \in UIDs
    PROVE  /\ \A n \in Nat : \A v : VersionOf(l, u, v, n) =>
                 /\ v \in 1 .. n
                 /\ \A k \in Nat : v <= k => VersionOf(l, u, v, k) /\ SeenBy(l, u, k)
           /\ \A n, k \in Nat : n <= k =>
                 /\ GoneBy(l, u, n) => GoneBy(l, u, k)
                 /\ SeenBy(l, u, n) => SeenBy(l, u, k)
           /\ \A n, k \in 0 .. Len(l) : \A v :
                 GoneBy(l, u, n) /\ VersionOf(l, u, v, k) => v < n
           /\ \A n \in Nat : SeenBy(l, u, n) => \E v \in 1 .. n : VersionOf(l, u, v, n)
<1>0. Len(l) \in Nat
  BY DEF LogSound
<1>1. ASSUME NEW n \in Nat, NEW v, VersionOf(l, u, v, n), NEW k \in Nat, v <= k
      PROVE  v \in 1 .. n /\ VersionOf(l, u, v, k) /\ SeenBy(l, u, k)
  <2>1. v \in 1 .. n /\ VersionOf(l, u, v, k) /\ v \in 1 .. k
    BY <1>1 DEF VersionOf
  <2> QED BY <2>1 DEF SeenBy
<1>1a. \A n \in Nat : \A v : VersionOf(l, u, v, n) => v \in 1 .. n
  BY DEF VersionOf
<1>2. ASSUME NEW n \in Nat, NEW k \in Nat, n <= k
      PROVE  /\ GoneBy(l, u, n) => GoneBy(l, u, k)
             /\ SeenBy(l, u, n) => SeenBy(l, u, k)
  <2>1. \A i \in 1 .. n : i \in 1 .. k
    BY <1>2
  <2> QED BY <2>1 DEF GoneBy, SeenBy, VersionOf
<1>3. ASSUME NEW n \in 0 .. Len(l), NEW k \in 0 .. Len(l), NEW v,
             GoneBy(l, u, n), VersionOf(l, u, v, k)
      PROVE  v < n
  <2>1. PICK i \in 1 .. n : l[i].uid = u /\ l[i].gone
    BY <1>3 DEF GoneBy
  <2>2. v \in 1 .. k /\ l[v].uid = u /\ ~l[v].gone
    BY <1>3 DEF VersionOf
  <2>3. i \in 1 .. Len(l) /\ v \in 1 .. Len(l) /\ i \in Nat /\ v \in Nat
    BY <1>0, <2>1, <2>2
  <2>4. ~(i < v)
    BY <2>1, <2>2, <2>3 DEF LogSound
  <2>5. i # v
    BY <2>1, <2>2
  <2> QED BY <1>0, <2>1, <2>3, <2>4, <2>5
<1>4. \A n \in Nat : SeenBy(l, u, n) => \E v \in 1 .. n : VersionOf(l, u, v, n)
  BY DEF SeenBy
<1> HIDE DEF VersionOf, GoneBy, SeenBy
<1> QED BY <1>1, <1>1a, <1>2, <1>3, <1>4

\* A change at the end of the log does not change what came before.
LEMMA GrowthFacts ==
    ASSUME NEW l, LogSound(l), NEW x \in Changes, NEW u, NEW n \in 0 .. Len(l)
    PROVE  /\ VersionAt(Append(l, x), u, n) = VersionAt(l, u, n)
           /\ \A v : VersionOf(Append(l, x), u, v, n) <=> VersionOf(l, u, v, n)
           /\ GoneBy(Append(l, x), u, n) <=> GoneBy(l, u, n)
           /\ SeenBy(Append(l, x), u, n) <=> SeenBy(l, u, n)
<1> DEFINE a == Append(l, x)
<1>1. \A i \in 1 .. n : a[i] = l[i]
  BY DEF LogSound
<1> HIDE DEF a
<1>2. \A v : VersionOf(a, u, v, n) <=> VersionOf(l, u, v, n)
  BY <1>1 DEF VersionOf
<1>3. GoneBy(a, u, n) <=> GoneBy(l, u, n)
  BY <1>1 DEF GoneBy
<1>4. SeenBy(a, u, n) <=> SeenBy(l, u, n)
  BY <1>2 DEF SeenBy
<1>5. VersionAt(a, u, n) = VersionAt(l, u, n)
  <2> DEFINE S == {i \in 1 .. n : l[i].uid = u}
  <2>1. {i \in 1 .. n : a[i].uid = u} = S
    BY <1>1
  <2>2. S # {} => Max(S) \in 1 .. n
    <3>1. S \in SUBSET Nat /\ (\A i \in S : i <= n) /\ n \in Nat /\ S \subseteq 1 .. n
      BY DEF LogSound
    <3> HIDE DEF S
    <3> QED BY <3>1, MaxFacts
  <2>3. S = {} \/ a[Max(S)].gone <=> S = {} \/ l[Max(S)].gone
    BY <1>1, <2>2
  <2>4. VersionAt(a, u, n) = IF S = {} \/ a[Max(S)].gone THEN None ELSE Max(S)
    BY <2>1 DEF VersionAt
  <2>5. VersionAt(l, u, n) = IF S = {} \/ l[Max(S)].gone THEN None ELSE Max(S)
    BY DEF VersionAt
  <2> HIDE DEF S
  <2> QED BY <2>3, <2>4, <2>5
<1> QED BY <1>2, <1>3, <1>4, <1>5 DEF a

\* The next change is of one object: the versions of the others stay.
LEMMA NextVersion ==
    ASSUME NEW l, LogSound(l), NEW u \in UIDs, NEW n \in 0 .. Len(l), n < Len(l)
    PROVE  /\ l[n + 1].uid # u => VersionAt(l, u, n + 1) = VersionAt(l, u, n)
           /\ l[n + 1].uid = u /\ ~l[n + 1].gone =>
                 /\ VersionAt(l, u, n + 1) = n + 1
                 /\ VersionOf(l, u, n + 1, n + 1)
                 /\ ~GoneBy(l, u, n)
           /\ l[n + 1].uid = u /\ l[n + 1].gone =>
                 VersionAt(l, u, n + 1) = None /\ GoneBy(l, u, n + 1)
<1>0. Len(l) \in Nat /\ n \in Nat /\ n + 1 \in 0 .. Len(l)
  BY DEF LogSound
<1>1. ASSUME l[n + 1].uid # u PROVE VersionAt(l, u, n + 1) = VersionAt(l, u, n)
  <2>1. {i \in 1 .. n + 1 : l[i].uid = u} = {i \in 1 .. n : l[i].uid = u}
    BY <1>0, <1>1
  <2> QED BY <2>1 DEF VersionAt
<1>2. ASSUME l[n + 1].uid = u, ~l[n + 1].gone
      PROVE  /\ VersionAt(l, u, n + 1) = n + 1
             /\ VersionOf(l, u, n + 1, n + 1)
             /\ ~GoneBy(l, u, n)
  <2>1. VersionOf(l, u, n + 1, n + 1)
    BY <1>0, <1>2 DEF VersionOf
  <2>2. ~GoneBy(l, u, n + 1)
    BY <1>0, <2>1, HistoryFacts
  <2>3. VersionAt(l, u, n + 1) \in 0 .. n + 1 /\ n + 1 <= VersionAt(l, u, n + 1)
    BY <1>0, <2>1, <2>2, VersionFacts
  <2>4. ~GoneBy(l, u, n)
    BY <1>0, <2>2, HistoryFacts
  <2> QED BY <1>0, <2>1, <2>3, <2>4
<1>3. ASSUME l[n + 1].uid = u, l[n + 1].gone
      PROVE  VersionAt(l, u, n + 1) = None /\ GoneBy(l, u, n + 1)
  <2>1. GoneBy(l, u, n + 1)
    BY <1>0, <1>3 DEF GoneBy
  <2> QED BY <1>0, <2>1, VersionFacts
<1> QED BY <1>1, <1>2, <1>3

\* All of it at once, for every object of a log.
Chronicle(l) ==
    \A u \in UIDs : \A n \in 0 .. Len(l) :
       /\ VersionAt(l, u, n) \in 0 .. n
       /\ VersionAt(l, u, n) # None =>
             VersionOf(l, u, VersionAt(l, u, n), n) /\ ~GoneBy(l, u, n)
       /\ \A v : VersionOf(l, u, v, n) =>
             /\ v \in 1 .. n
             /\ GoneBy(l, u, n) \/ (VersionAt(l, u, n) # None /\ v <= VersionAt(l, u, n))
       /\ SeenBy(l, u, n) => GoneBy(l, u, n) \/ VersionAt(l, u, n) # None
       /\ \A k \in 0 .. Len(l) :
             /\ n <= k => /\ GoneBy(l, u, n) => GoneBy(l, u, k)
                          /\ SeenBy(l, u, n) => SeenBy(l, u, k)
             /\ \A v : VersionOf(l, u, v, n) /\ v <= k =>
                          VersionOf(l, u, v, k) /\ SeenBy(l, u, k)
             /\ \A v : GoneBy(l, u, n) /\ VersionOf(l, u, v, k) => v < n

\* Every log that the cluster can produce is such a chronicle.
LEMMA LogFacts ==
    ASSUME NEW l, LogSound(l)
    PROVE  Chronicle(l) /\ Len(l) \in 0 .. MaxChanges
<1>0. Len(l) \in Nat /\ Len(l) \in 0 .. MaxChanges
  BY PipelineAssumption DEF LogSound
<1> SUFFICES ASSUME NEW u \in UIDs, NEW n \in 0 .. Len(l)
    PROVE
       /\ VersionAt(l, u, n) \in 0 .. n
       /\ VersionAt(l, u, n) # None =>
             VersionOf(l, u, VersionAt(l, u, n), n) /\ ~GoneBy(l, u, n)
       /\ \A v : VersionOf(l, u, v, n) =>
             /\ v \in 1 .. n
             /\ GoneBy(l, u, n) \/ (VersionAt(l, u, n) # None /\ v <= VersionAt(l, u, n))
       /\ SeenBy(l, u, n) => GoneBy(l, u, n) \/ VersionAt(l, u, n) # None
       /\ \A k \in 0 .. Len(l) :
             /\ n <= k => /\ GoneBy(l, u, n) => GoneBy(l, u, k)
                          /\ SeenBy(l, u, n) => SeenBy(l, u, k)
             /\ \A v : VersionOf(l, u, v, n) /\ v <= k =>
                          VersionOf(l, u, v, k) /\ SeenBy(l, u, k)
             /\ \A v : GoneBy(l, u, n) /\ VersionOf(l, u, v, k) => v < n
  BY <1>0 DEF Chronicle
<1>1. n \in Nat /\ \A k \in 0 .. Len(l) : k \in Nat
  BY <1>0
<1>2. /\ VersionAt(l, u, n) \in 0 .. n
      /\ VersionAt(l, u, n) # None =>
            VersionOf(l, u, VersionAt(l, u, n), n) /\ ~GoneBy(l, u, n)
      /\ \A v : VersionOf(l, u, v, n) =>
            GoneBy(l, u, n) \/ (VersionAt(l, u, n) # None /\ v <= VersionAt(l, u, n))
  BY VersionFacts
<1>3. \A v : VersionOf(l, u, v, n) => v \in 1 .. n
  BY <1>1, HistoryFacts
<1>4. SeenBy(l, u, n) => GoneBy(l, u, n) \/ VersionAt(l, u, n) # None
  <2>1. SeenBy(l, u, n) => \E v \in 1 .. n : VersionOf(l, u, v, n)
    BY <1>1, HistoryFacts
  <2> QED BY <1>2, <2>1
<1>5. ASSUME NEW k \in 0 .. Len(l)
      PROVE  /\ n <= k => /\ GoneBy(l, u, n) => GoneBy(l, u, k)
                          /\ SeenBy(l, u, n) => SeenBy(l, u, k)
             /\ \A v : VersionOf(l, u, v, n) /\ v <= k =>
                          VersionOf(l, u, v, k) /\ SeenBy(l, u, k)
             /\ \A v : GoneBy(l, u, n) /\ VersionOf(l, u, v, k) => v < n
  BY <1>1, HistoryFacts
<1> QED BY <1>2, <1>3, <1>4, <1>5

-----------------------------------------------------------------------------
(* The invariant.  Its parts are stated for any memory m, inventory s,     *)
(* informer f and histories lo, le, because a step of the writer is taken  *)
(* apart: it adopts a generation and then handles the message, or retries  *)
(* a LIST and then flushes.  ev and rss are what the channels hold, h is   *)
(* how much of the log anyone in the process can know.                     *)

Informed(f) == f.pc \in {"ack", "watch"}
Horizon(l, f) == IF Informed(f) THEN f.cursor ELSE Len(l)

\* The channels keep the order of sending: events of an object by version,
\* LISTs by generation, one of each.
EventsOrdered(E) ==
    \A i, j \in 1 .. Len(E) : i < j /\ E[i].uid = E[j].uid => E[i].ver <= E[j].ver
ResyncsOrdered(R) ==
    \A i, j \in 1 .. Len(R) : i < j => R[i].gen < R[j].gen /\ R[i].rev <= R[j].rev

\* An event tells of a change that the log holds.
EventsSound(l, h, ng, ev) ==
    \A e \in ev : /\ e.gen <= ng
                  /\ ~e.gone => VersionOf(l, e.uid, e.ver, h)
                  /\ e.gone => e.ver <= h /\ GoneBy(l, e.uid, e.ver)

\* The informer waits for the answer to its LIST of revision n.
Waits(f, n) == f.pc = "ack" /\ f.ack = "none" /\ f.cursor = n

\* Only the last LIST of the running generation is waited for, and no event
\* sent before a LIST is newer than it.
ResyncsSound(h, run, ng, f, ev, rss) ==
    \A rs \in rss : /\ rs.gen <= ng /\ rs.rev <= h
                    /\ rs.gen = run => Waits(f, rs.rev)
                    /\ \A e \in ev : e.gen <= rs.gen => e.ver <= rs.rev

Admits(m, g) == g > m.closed /\ g >= m.gen

\* What the writer holds and has written are versions of the object, in
\* order; what it is about to delete is deleted in the cluster; no LIST that
\* it may still accept is older than what it knows.
MemorySound(l, h, ev, rss, m, s) ==
    /\ \A u \in UIDs :
          /\ m.up[u] # None => VersionOf(l, u, m.up[u], h) /\ m.sent[u] <= m.up[u]
          /\ m.sent[u] # None => /\ VersionOf(l, u, m.sent[u], h)
                                 /\ m.sent[u] <= s[u] \/ GoneBy(l, u, h)
          /\ s[u] # None => VersionOf(l, u, s[u], h)
          /\ u \in m.del => GoneBy(l, u, h)
          /\ u \in m.reported => SeenBy(l, u, h)
    /\ \A e \in ev : /\ m.up[e.uid] <= e.ver /\ m.sent[e.uid] <= e.ver
                     /\ e.uid \in m.del => e.gone
    /\ \A rs \in rss : Admits(m, rs.gen) =>
          \A u \in UIDs : /\ m.up[u] <= rs.rev /\ m.sent[u] <= rs.rev
                          /\ u \in m.reported => SeenBy(l, u, rs.rev)

\* No generation is closed, or about to be, that is still running.
GenerationsSound(run, ng, closing, m) ==
    /\ m.gen <= ng /\ m.closed <= ng /\ run \in {None, ng}
    /\ \A g \in closing : g <= ng /\ (run # None => g < run)
    /\ run # None => m.closed < run
    /\ m.retained.gen \in {None, m.gen}

\* A LIST that is retained is still true of its revision, and nothing that
\* came later is older or newer than it should be.
RetainedSound(l, h, run, f, ev, rss, m) ==
    m.retained.gen # None =>
       /\ m.retained.rev <= h
       /\ m.retained.gen = run => Waits(f, m.retained.rev)
       /\ \A u \in UIDs :
             /\ m.up[u] <= m.retained.rev /\ m.sent[u] <= m.retained.rev
             /\ u \in m.retained.stale => GoneBy(l, u, m.retained.rev)
             /\ u \in m.retained.names => VersionAt(l, u, m.retained.rev) # None
             /\ VersionAt(l, u, m.retained.rev) \notin Unreadable \cup {None} =>
                   u \in m.retained.names
       /\ \A e \in ev : e.gen <= m.retained.gen => e.ver <= m.retained.rev
       /\ \A rs \in rss : m.retained.gen < rs.gen /\ m.retained.rev <= rs.rev

\* The LIST of the running generation is on its way, or not answered.
Listed(run, rss) == \E rs \in rss : rs.gen = run
Outstanding(run, rss, m) == Listed(run, rss) \/ m.retained.gen = run

\* An informer that has listed has told the writer of its generation, or is
\* about to.
InformerSound(l, run, f, rss, m) ==
    /\ f.cursor <= Len(l) /\ (f.pc # "ack" => f.ack = "none")
    /\ (run = None) <=> (f.pc = "none")
    /\ Informed(f) => m.gen = run \/ Listed(run, rss)

Carried(run, ev, u) == \E e \in ev : e.gen = run /\ e.uid = u
Held(run, m, u) == m.gen = run /\ m.up[u] # None

\* The current version of a live object is in the event channel, else in the
\* batch, else in the inventory, or a LIST that holds it is outstanding.
LiveFollowed(l, run, f, ev, rss, m, s, lo) ==
    Informed(f) => \A u \in UIDs :
       VersionAt(l, u, f.cursor) # None =>
       /\ Carried(run, ev, u) =>
             \E e \in ev : e.gen = run /\ e.uid = u /\ e.ver = VersionAt(l, u, f.cursor)
       /\ ~Carried(run, ev, u) /\ Held(run, m, u) => m.up[u] = VersionAt(l, u, f.cursor)
       /\ (/\ ~Carried(run, ev, u) /\ ~Held(run, m, u)
           /\ u \notin lo /\ VersionAt(l, u, f.cursor) \notin Unreadable) =>
             s[u] = VersionAt(l, u, f.cursor) \/ Outstanding(run, rss, m)

\* A LIST of this generation accounts for every row, but for the histories.
RowsKnown(m, s, lo, le) ==
    \A u \in UIDs : s[u] # None =>
       \/ u \in m.reported \cup le \cup lo
       \/ m.retained.gen # None /\ u \in m.retained.names

\* A deleted object that is or may become a row is going to be deleted.
Shows(run, ev, m, s, u) ==
    \/ s[u] # None \/ Held(run, m, u)
    \/ \E e \in ev : e.gen = run /\ e.uid = u /\ ~e.gone
GoneFollowed(l, run, f, ev, rss, m, s, lo, le) ==
    Informed(f) => \A u \in UIDs \ (le \cup lo) :
       VersionAt(l, u, f.cursor) = None /\ Shows(run, ev, m, s, u) =>
          \/ \E e \in ev : e.gen = run /\ e.uid = u /\ e.gone
          \/ u \in m.del
          \/ Outstanding(run, rss, m)

StateTyped ==
    /\ running \in Generations \cup {None} /\ nextGen \in 0 .. MaxGeneration
    /\ eventCh \in Seq(EventRec) /\ resyncCh \in Seq(ResyncRec)
    /\ removeCh \in Seq(Generations) /\ used \in UsedRec
WriterTyped(f, m, s, lo, le) ==
    /\ f \in InfRec /\ m \in MemoryRec /\ s \in [UIDs -> Versions]
    /\ lo \in SUBSET UIDs /\ le \in SUBSET UIDs
    /\ m.gen = None => m.up = NoMemory.up /\ m.del = {} /\ m.retained = NoResync
    /\ \A u \in m.del : m.up[u] = None

Ordered == LogSound(log) /\ EventsOrdered(eventCh) /\ ResyncsOrdered(resyncCh)
Consistent(h, f, ev, rss, m, s, lo, le) ==
    /\ EventsSound(log, h, nextGen, ev)
    /\ ResyncsSound(h, running, nextGen, f, ev, rss)
    /\ MemorySound(log, h, ev, rss, m, s)
    /\ GenerationsSound(running, nextGen, Range(removeCh), m)
    /\ RetainedSound(log, h, running, f, ev, rss, m)
    /\ InformerSound(log, running, f, rss, m)
    /\ LiveFollowed(log, running, f, ev, rss, m, s, lo)
    /\ RowsKnown(m, s, lo, le)
    /\ GoneFollowed(log, running, f, ev, rss, m, s, lo, le)

PipelineInv ==
    /\ StateTyped /\ WriterTyped(inf, w, store, lost, left) /\ Ordered
    /\ Consistent(Horizon(log, inf), inf, Range(eventCh), Range(resyncCh),
                  w, store, lost, left)

-----------------------------------------------------------------------------
(* What the steps have in common                                           *)

\* The bounds are numbers, and None is below every version and generation.
LEMMA BoundFacts ==
    /\ MaxChanges \in Nat /\ MaxGeneration \in Nat /\ MaxFailures \in Nat
    /\ MaxBreaks \in Nat /\ MaxRestarts \in Nat /\ IsFiniteSet(UIDs)
    /\ Versions = 0 .. MaxChanges /\ Generations = 1 .. MaxGeneration /\ None = 0
BY PipelineAssumption DEF Versions, Generations, None

\* What the invariant says of types and orders, with the definitions opened.
LEMMA InvFacts ==
    ASSUME PipelineInv
    PROVE  /\ LogSound(log) /\ Chronicle(log) /\ Len(log) \in 0 .. MaxChanges
           /\ running \in Nat /\ nextGen \in Nat
           /\ inf \in InfRec /\ inf.cursor \in 0 .. Len(log)
           /\ Horizon(log, inf) \in 0 .. Len(log)
           /\ \A e \in Range(eventCh) : e \in EventRec
           /\ \A rs \in Range(resyncCh) : rs \in ResyncRec
           /\ \A g \in Range(removeCh) : g \in Generations
           /\ (running = None) <=> (inf.pc = "none")
<1>1. LogSound(log) /\ inf \in InfRec /\ inf.cursor <= Len(log)
      /\ ((running = None) <=> (inf.pc = "none"))
  BY DEF PipelineInv, Ordered, WriterTyped, Consistent, InformerSound
<1>2. Chronicle(log) /\ Len(log) \in 0 .. MaxChanges
  BY <1>1, LogFacts
<1>3. running \in Nat /\ nextGen \in Nat
  BY BoundFacts DEF PipelineInv, StateTyped
<1>4. inf.cursor \in 0 .. Len(log) /\ Horizon(log, inf) \in 0 .. Len(log)
  BY <1>1, <1>2, BoundFacts DEF InfRec, Horizon
<1>5. /\ \A e \in Range(eventCh) : e \in EventRec
      /\ \A rs \in Range(resyncCh) : rs \in ResyncRec
      /\ \A g \in Range(removeCh) : g \in Generations
  BY DEF PipelineInv, StateTyped, Range
<1> QED BY <1>1, <1>2, <1>3, <1>4, <1>5

\* When what can be known grows, what was sound of it stays so.
LEMMA HorizonGrows ==
    ASSUME PipelineInv, NEW k \in 0 .. Len(log), Horizon(log, inf) <= k, NEW ng \in Nat,
           nextGen <= ng
    PROVE  /\ EventsSound(log, k, ng, Range(eventCh))
           /\ MemorySound(log, k, Range(eventCh), Range(resyncCh), w, store)
           /\ \A rs \in Range(resyncCh) :
                 /\ rs.gen <= nextGen /\ rs.rev <= k
                 /\ \A e \in Range(eventCh) : e.gen <= rs.gen => e.ver <= rs.rev
<1> DEFINE h == Horizon(log, inf)
           ev == Range(eventCh)
           rss == Range(resyncCh)
<1>1. /\ Chronicle(log) /\ Len(log) \in Nat /\ h \in 0 .. Len(log) /\ nextGen \in Nat
      /\ (\A e \in ev : e \in EventRec) /\ (\A rs \in rss : rs \in ResyncRec)
  BY InvFacts, BoundFacts
<1>2. /\ EventsSound(log, h, nextGen, ev) /\ MemorySound(log, h, ev, rss, w, store)
      /\ ResyncsSound(h, running, nextGen, inf, ev, rss)
      /\ w \in MemoryRec /\ store \in [UIDs -> Versions]
  BY DEF PipelineInv, Consistent, WriterTyped
<1> HIDE DEF h, ev, rss
<1>3. EventsSound(log, k, ng, ev)
  BY <1>1, <1>2, BoundFacts DEF EventsSound, Chronicle, EventRec, h
<1>4. MemorySound(log, k, ev, rss, w, store)
  <2>1. ASSUME NEW u \in UIDs
        PROVE  /\ w.up[u] # None => VersionOf(log, u, w.up[u], k) /\ w.sent[u] <= w.up[u]
               /\ w.sent[u] # None => /\ VersionOf(log, u, w.sent[u], k)
                                      /\ w.sent[u] <= store[u] \/ GoneBy(log, u, k)
               /\ store[u] # None => VersionOf(log, u, store[u], k)
               /\ u \in w.del => GoneBy(log, u, k)
               /\ u \in w.reported => SeenBy(log, u, k)
    <3>1. \A v : VersionOf(log, u, v, h) => VersionOf(log, u, v, k)
      BY <1>1 DEF Chronicle, h
    <3>2. GoneBy(log, u, h) => GoneBy(log, u, k)
      BY <1>1 DEF Chronicle, h
    <3>3. SeenBy(log, u, h) => SeenBy(log, u, k)
      BY <1>1 DEF Chronicle, h
    <3> QED BY <1>2, <3>1, <3>2, <3>3 DEF MemorySound
  <2> QED BY <1>2, <2>1 DEF MemorySound
<1>5. ASSUME NEW rs \in rss
      PROVE  /\ rs.gen <= nextGen /\ rs.rev <= k
             /\ \A e \in ev : e.gen <= rs.gen => e.ver <= rs.rev
  <2>1. rs.gen <= nextGen /\ rs.rev <= h /\ \A e \in ev : e.gen <= rs.gen => e.ver <= rs.rev
    BY <1>2 DEF ResyncsSound
  <2>2. rs.rev \in Nat
    BY <1>1, BoundFacts DEF ResyncRec
  <2> QED BY <1>1, <2>1, <2>2 DEF h
<1> QED BY <1>3, <1>4, <1>5 DEF h, ev, rss

-----------------------------------------------------------------------------
(* The cluster, the manager and the informer                               *)

\* An informer that is not at work on a LIST or a watch is owed nothing.
LEMMA GoesUninformed ==
    ASSUME PipelineInv, NEW f \in InfRec, ~Informed(f), f.ack = "none",
           f.cursor <= Len(log), NEW run \in Nat, (run = None) <=> (f.pc = "none"),
           NEW ng \in Nat, nextGen <= ng,
           run = None \/ run > nextGen \/ (run = running /\ ~Waits(inf, inf.cursor))
    PROVE  /\ EventsSound(log, Len(log), ng, Range(eventCh))
           /\ ResyncsSound(Len(log), run, ng, f, Range(eventCh), Range(resyncCh))
           /\ MemorySound(log, Len(log), Range(eventCh), Range(resyncCh), w, store)
           /\ RetainedSound(log, Len(log), run, f, Range(eventCh), Range(resyncCh), w)
           /\ InformerSound(log, run, f, Range(resyncCh), w)
           /\ LiveFollowed(log, run, f, Range(eventCh), Range(resyncCh), w, store, lost)
           /\ GoneFollowed(log, run, f, Range(eventCh), Range(resyncCh), w, store, lost, left)
<1> DEFINE h == Horizon(log, inf)
           ev == Range(eventCh)
           rss == Range(resyncCh)
<1>1. /\ Chronicle(log) /\ Len(log) \in Nat /\ h \in 0 .. Len(log) /\ nextGen \in Nat
      /\ (\A e \in ev : e \in EventRec) /\ (\A rs \in rss : rs \in ResyncRec)
  BY InvFacts, BoundFacts
<1>2. Len(log) \in 0 .. Len(log) /\ h <= Len(log)
  BY <1>1
<1>3. /\ EventsSound(log, Len(log), ng, ev)
      /\ MemorySound(log, Len(log), ev, rss, w, store)
      /\ \A rs \in rss : /\ rs.gen <= nextGen /\ rs.rev <= Len(log)
                         /\ \A e \in ev : e.gen <= rs.gen => e.ver <= rs.rev
  BY <1>2, HorizonGrows
<1>4. /\ ResyncsSound(h, running, nextGen, inf, ev, rss)
      /\ RetainedSound(log, h, running, inf, ev, rss, w)
      /\ GenerationsSound(running, nextGen, Range(removeCh), w)
      /\ w \in MemoryRec
  BY DEF PipelineInv, Consistent, WriterTyped
<1> HIDE DEF h, ev, rss
<1>5. ResyncsSound(Len(log), run, ng, f, ev, rss)
  <2> SUFFICES ASSUME NEW rs \in rss PROVE rs.gen <= ng /\ rs.gen # run
    BY <1>3 DEF ResyncsSound
  <2>1. rs.gen \in Nat \ {0} /\ rs.gen <= nextGen
    BY <1>1, <1>3, BoundFacts DEF ResyncRec
  <2>2. rs.gen = running => Waits(inf, inf.cursor)
    BY <1>4 DEF ResyncsSound, Waits
  <2> QED BY <1>1, <2>1, <2>2, BoundFacts
<1>6. RetainedSound(log, Len(log), run, f, ev, rss, w)
  <2> SUFFICES ASSUME w.retained.gen # None
               PROVE  w.retained.rev <= Len(log) /\ w.retained.gen # run
    BY <1>4 DEF RetainedSound
  <2>1. w.retained.gen \in Nat \ {0} /\ w.retained.gen <= nextGen /\ w.retained.rev \in Nat
    BY <1>1, <1>4, BoundFacts DEF GenerationsSound, MemoryRec, RetainedRec
  <2>2. w.retained.rev <= h /\ (w.retained.gen = running => Waits(inf, inf.cursor))
    BY <1>4 DEF RetainedSound, Waits
  <2> QED BY <1>1, <2>1, <2>2, BoundFacts
<1>7. /\ InformerSound(log, run, f, rss, w)
      /\ LiveFollowed(log, run, f, ev, rss, w, store, lost)
      /\ GoneFollowed(log, run, f, ev, rss, w, store, lost, left)
  BY DEF InformerSound, LiveFollowed, GoneFollowed
<1> QED BY <1>3, <1>5, <1>6, <1>7 DEF h, ev, rss

\* The kind is no longer desired: a removal of its generation is queued.
LEMMA StopInformerStep == ASSUME PipelineInv, StopInformer PROVE PipelineInv'
<1>1. /\ removeCh' = Append(removeCh, running) /\ running' = None /\ inf' = NoInformer
      /\ running \in Generations /\ running \in Nat /\ nextGen \in Nat
      /\ Len(log) \in Nat
      /\ UNCHANGED <<log, nextGen, eventCh, resyncCh, w, store, used, lost, left>>
  BY InvFacts, BoundFacts DEF StopInformer, PipelineInv, StateTyped
<1>2. NoInformer \in InfRec /\ ~Informed(NoInformer) /\ NoInformer.ack = "none"
      /\ NoInformer.cursor = 0 /\ NoInformer.pc = "none"
  BY BoundFacts DEF NoInformer, InfRec, Informed
<1>3. removeCh' \in Seq(Generations) /\ Range(removeCh') = Range(removeCh) \cup {running}
  BY <1>1, AppendRange DEF PipelineInv, StateTyped
<1>4. GenerationsSound(None, nextGen, Range(removeCh'), w)
  BY <1>1, <1>3, BoundFacts DEF PipelineInv, Consistent, GenerationsSound
<1>5. None \in Nat /\ NoInformer.cursor <= Len(log) /\ nextGen <= nextGen
  BY <1>1, <1>2, BoundFacts
<1>6. /\ EventsSound(log, Len(log), nextGen, Range(eventCh))
      /\ ResyncsSound(Len(log), None, nextGen, NoInformer, Range(eventCh), Range(resyncCh))
      /\ MemorySound(log, Len(log), Range(eventCh), Range(resyncCh), w, store)
      /\ RetainedSound(log, Len(log), None, NoInformer, Range(eventCh), Range(resyncCh), w)
      /\ InformerSound(log, None, NoInformer, Range(resyncCh), w)
      /\ LiveFollowed(log, None, NoInformer, Range(eventCh), Range(resyncCh), w, store, lost)
      /\ GoneFollowed(log, None, NoInformer, Range(eventCh), Range(resyncCh), w, store,
                      lost, left)
  BY <1>1, <1>2, <1>5, GoesUninformed
<1>7. Horizon(log', inf') = Len(log)
  BY <1>1, <1>2 DEF Horizon
<1>8. StateTyped' /\ WriterTyped(inf', w', store', lost', left') /\ Ordered'
  BY <1>1, <1>2, <1>3 DEF PipelineInv, StateTyped, WriterTyped, Ordered
<1> QED BY <1>1, <1>4, <1>6, <1>7, <1>8 DEF PipelineInv, Consistent

\* A new generation, newer than anything in the channels.
LEMMA StartInformerStep == ASSUME PipelineInv, StartInformer PROVE PipelineInv'
<1> DEFINE f == [NoInformer EXCEPT !.pc = "list"]
           n == nextGen + 1
<1>1. /\ running = None /\ nextGen < MaxGeneration
      /\ running' = n /\ nextGen' = n /\ inf' = f
      /\ nextGen \in Nat /\ Len(log) \in Nat
      /\ UNCHANGED <<log, eventCh, resyncCh, removeCh, w, store, used, lost, left>>
  BY InvFacts, BoundFacts DEF StartInformer
<1>2. f \in InfRec /\ ~Informed(f) /\ f.ack = "none" /\ f.cursor = 0 /\ f.pc = "list"
  BY BoundFacts DEF NoInformer, InfRec, Informed
<1>3. n \in Nat /\ nextGen <= n /\ n > nextGen /\ n # None
  BY <1>1, BoundFacts
<1> HIDE DEF f, n
<1>4. GenerationsSound(n, n, Range(removeCh), w)
  <2>1. GenerationsSound(running, nextGen, Range(removeCh), w) /\ w \in MemoryRec
    BY DEF PipelineInv, Consistent, WriterTyped
  <2>2. \A g \in Range(removeCh) : g \in Nat
    BY InvFacts, BoundFacts
  <2>3. w.gen \in Nat /\ w.closed \in Nat
    BY <2>1, BoundFacts DEF MemoryRec
  <2> QED BY <1>1, <1>3, <2>1, <2>2, <2>3 DEF GenerationsSound
<1>5. f.cursor <= Len(log)
  BY <1>1, <1>2
<1>6. /\ EventsSound(log, Len(log), n, Range(eventCh))
      /\ ResyncsSound(Len(log), n, n, f, Range(eventCh), Range(resyncCh))
      /\ MemorySound(log, Len(log), Range(eventCh), Range(resyncCh), w, store)
      /\ RetainedSound(log, Len(log), n, f, Range(eventCh), Range(resyncCh), w)
      /\ InformerSound(log, n, f, Range(resyncCh), w)
      /\ LiveFollowed(log, n, f, Range(eventCh), Range(resyncCh), w, store, lost)
      /\ GoneFollowed(log, n, f, Range(eventCh), Range(resyncCh), w, store, lost, left)
  BY <1>2, <1>3, <1>5, GoesUninformed
<1>7. Horizon(log', inf') = Len(log)
  BY <1>1, <1>2 DEF Horizon
<1>8. n \in Generations /\ n \in 0 .. MaxGeneration
  BY <1>1, BoundFacts DEF n
<1>9. StateTyped' /\ WriterTyped(inf', w', store', lost', left') /\ Ordered'
  BY <1>1, <1>2, <1>8 DEF PipelineInv, StateTyped, WriterTyped, Ordered
<1> QED BY <1>1, <1>4, <1>6, <1>7, <1>9 DEF PipelineInv, Consistent

\* The informer goes back to its LIST, without an answer it waits for.
LEMMA BackToList ==
    ASSUME PipelineInv, UNCHANGED <<log, running, nextGen, eventCh, resyncCh, removeCh, w,
                                    store, lost, left>>,
           used' \in UsedRec, running # None, ~Waits(inf, inf.cursor),
           inf' \in InfRec, inf'.pc = "list", inf'.ack = "none", inf'.cursor = inf.cursor
    PROVE  PipelineInv'
<1>1. running \in Nat /\ nextGen \in Nat /\ nextGen <= nextGen /\ inf'.cursor <= Len(log)
      /\ Len(log) \in Nat /\ ~Informed(inf')
  BY InvFacts, BoundFacts DEF Informed
<1>2. /\ EventsSound(log, Len(log), nextGen, Range(eventCh))
      /\ ResyncsSound(Len(log), running, nextGen, inf', Range(eventCh), Range(resyncCh))
      /\ MemorySound(log, Len(log), Range(eventCh), Range(resyncCh), w, store)
      /\ RetainedSound(log, Len(log), running, inf', Range(eventCh), Range(resyncCh), w)
      /\ InformerSound(log, running, inf', Range(resyncCh), w)
      /\ LiveFollowed(log, running, inf', Range(eventCh), Range(resyncCh), w, store, lost)
      /\ GoneFollowed(log, running, inf', Range(eventCh), Range(resyncCh), w, store,
                      lost, left)
  BY <1>1, GoesUninformed
<1>3. Horizon(log', inf') = Len(log)
  BY <1>1 DEF Horizon
<1>4. StateTyped' /\ WriterTyped(inf', w', store', lost', left') /\ Ordered'
  BY DEF PipelineInv, StateTyped, WriterTyped, Ordered
<1> QED BY <1>2, <1>3, <1>4 DEF PipelineInv, Consistent

\* A failure of a watch or a LIST is counted.
LEMMA FailsFacts ==
    ASSUME used \in UsedRec, Fails PROVE used' \in UsedRec
BY BoundFacts DEF Fails, UsedRec

\* A watch that breaks owes nothing: the next LIST makes up for it.
LEMMA WatchBreaksStep == ASSUME PipelineInv, WatchBreaks PROVE PipelineInv'
<1>1. inf.pc = "watch" /\ inf' = [inf EXCEPT !.pc = "list"] /\ inf \in InfRec
      /\ running # None /\ used \in UsedRec /\ Fails
  BY InvFacts DEF WatchBreaks, PipelineInv, StateTyped
<1>2. inf.ack = "none"
  BY <1>1 DEF PipelineInv, Consistent, InformerSound
<1>3. inf' \in InfRec /\ inf'.pc = "list" /\ inf'.ack = "none" /\ inf'.cursor = inf.cursor
  BY <1>1, <1>2 DEF InfRec
<1>4. ~Waits(inf, inf.cursor)
  BY <1>1 DEF Waits
<1>5. used' \in UsedRec
  BY <1>1, FailsFacts
<1> QED BY <1>1, <1>3, <1>4, <1>5, BackToList DEF WatchBreaks

\* The answer is taken when nothing of the LIST is outstanding.
LEMMA TakeAckStep == ASSUME PipelineInv, TakeAck PROVE PipelineInv'
<1>1. /\ inf.pc = "ack" /\ inf.ack # "none" /\ inf \in InfRec /\ running # None
      /\ inf' = [inf EXCEPT !.pc = IF inf.ack = "ok" THEN "watch" ELSE "list",
                            !.ack = "none"]
      /\ UNCHANGED <<log, running, nextGen, eventCh, resyncCh, removeCh, w, store,
                     used, lost, left>>
      /\ used \in UsedRec
  BY InvFacts DEF TakeAck, PipelineInv, StateTyped
<1>2. inf' \in InfRec /\ inf'.ack = "none" /\ inf'.cursor = inf.cursor
      /\ inf'.pc = (IF inf.ack = "ok" THEN "watch" ELSE "list")
  BY <1>1 DEF InfRec
<1>3. ~Waits(inf, inf.cursor)
  BY <1>1 DEF Waits
<1>4. CASE inf.ack # "ok"
  BY <1>1, <1>2, <1>3, <1>4, BackToList
<1>5. CASE inf.ack = "ok"
  <2>1. Horizon(log', inf') = Horizon(log, inf) /\ Informed(inf) /\ Informed(inf')
    BY <1>1, <1>2, <1>5 DEF Horizon, Informed
  <2> DEFINE h == Horizon(log, inf)
             ev == Range(eventCh)
             rss == Range(resyncCh)
  <2>2. Consistent(h, inf, ev, rss, w, store, lost, left)
    BY DEF PipelineInv
  <2> HIDE DEF h, ev, rss
  <2>3. ResyncsSound(h, running, nextGen, inf', ev, rss)
    BY <1>3, <2>2 DEF Consistent, ResyncsSound, Waits
  <2>4. RetainedSound(log, h, running, inf', ev, rss, w)
    BY <1>3, <2>2 DEF Consistent, RetainedSound, Waits
  <2>5. InformerSound(log, running, inf', rss, w)
    BY <1>1, <1>2, <1>5, <2>1, <2>2 DEF Consistent, InformerSound
  <2>6. LiveFollowed(log, running, inf', ev, rss, w, store, lost)
    BY <1>2, <2>1, <2>2 DEF Consistent, LiveFollowed
  <2>7. GoneFollowed(log, running, inf', ev, rss, w, store, lost, left)
    BY <1>2, <2>1, <2>2 DEF Consistent, GoneFollowed
  <2>8. StateTyped' /\ WriterTyped(inf', w', store', lost', left') /\ Ordered'
    BY <1>1, <1>2 DEF PipelineInv, StateTyped, WriterTyped, Ordered
  <2> QED BY <1>1, <2>1, <2>2, <2>3, <2>4, <2>5, <2>6, <2>7, <2>8
          DEF PipelineInv, Consistent, h, ev, rss
<1> QED BY <1>4, <1>5

\* The cluster changes: nobody knows of it yet.
LEMMA ChangeStep == ASSUME PipelineInv, NEW o \in UIDs, Change(o) PROVE PipelineInv'
<1> DEFINE h == Horizon(log, inf)
           k == Horizon(log', inf)
           ev == Range(eventCh)
           rss == Range(resyncCh)
<1>0. /\ LogSound(log) /\ Len(log) \in Nat /\ h \in 0 .. Len(log)
      /\ inf.cursor \in 0 .. Len(log)
      /\ (\A e \in ev : e \in EventRec) /\ (\A rs \in rss : rs \in ResyncRec)
  BY InvFacts, BoundFacts
<1>1. PICK x \in Changes : log' = Append(log, x) /\ x.uid = o
  BY DEF Change, Changes
<1>2. /\ Len(log) < MaxChanges /\ ~Deleted(o)
      /\ UNCHANGED <<inf, running, nextGen, eventCh, resyncCh, removeCh, w, store,
                     used, lost, left>>
  BY DEF Change
<1>3. LogSound(log')
  <2>1. log' \in Seq(Changes) /\ Len(log') = Len(log) + 1 /\ log'[Len(log) + 1] = x
        /\ \A i \in 1 .. Len(log) : log'[i] = log[i]
    BY <1>0, <1>1 DEF LogSound
  <2>2. \A i \in 1 .. Len(log) : log[i].uid = o => ~log[i].gone
    BY <1>0, <1>2 DEF Deleted, LogSound
  <2>3. ASSUME NEW i \in 1 .. Len(log'), NEW j \in 1 .. Len(log'), i < j,
               log'[i].uid = log'[j].uid
        PROVE  ~log'[i].gone
    <3>1. i \in 1 .. Len(log) /\ log'[i] = log[i]
      BY <1>0, <2>1, <2>3
    <3>2. CASE j = Len(log) + 1
      BY <1>1, <2>1, <2>2, <2>3, <3>1, <3>2
    <3>3. CASE j # Len(log) + 1
      <4>1. j \in 1 .. Len(log) /\ log'[j] = log[j]
        BY <1>0, <2>1, <3>3
      <4> QED BY <1>0, <2>3, <3>1, <4>1 DEF LogSound
    <3> QED BY <3>2, <3>3
  <2>4. Len(log') <= MaxChanges
    BY <1>0, <1>2, <2>1, BoundFacts
  <2> QED BY <2>1, <2>3, <2>4 DEF LogSound
<1>4. Chronicle(log') /\ Len(log') = Len(log) + 1
  <2>1. Chronicle(log')
    BY <1>3, LogFacts
  <2>2. Len(log') = Len(log) + 1
    BY <1>0, <1>1 DEF LogSound
  <2> QED BY <2>1, <2>2
<1>5. \A u \in UIDs : \A n \in 0 .. Len(log) :
         /\ VersionAt(log', u, n) = VersionAt(log, u, n)
         /\ \A v : VersionOf(log', u, v, n) <=> VersionOf(log, u, v, n)
         /\ GoneBy(log', u, n) <=> GoneBy(log, u, n)
         /\ SeenBy(log', u, n) <=> SeenBy(log, u, n)
  BY <1>0, <1>1, GrowthFacts
<1>6. k \in 0 .. Len(log') /\ h <= k /\ (Informed(inf) => k = h)
  BY <1>0, <1>4 DEF Horizon
<1>7. Consistent(h, inf, ev, rss, w, store, lost, left) /\ w \in MemoryRec
      /\ store \in [UIDs -> Versions]
  BY DEF PipelineInv, WriterTyped
<1> HIDE DEF h, ev, rss, k
<1>8. \A u \in UIDs : /\ \A v : VersionOf(log, u, v, h) => VersionOf(log', u, v, k)
                      /\ GoneBy(log, u, h) => GoneBy(log', u, k)
                      /\ SeenBy(log, u, h) => SeenBy(log', u, k)
  <2> TAKE u \in UIDs
  <2>1. h \in 0 .. Len(log')
    BY <1>0, <1>4
  <2>2. \A v : VersionOf(log', u, v, h) => VersionOf(log', u, v, k)
    BY <1>0, <1>4, <1>6, <2>1 DEF Chronicle
  <2>3. GoneBy(log', u, h) => GoneBy(log', u, k)
    BY <1>4, <1>6, <2>1 DEF Chronicle
  <2>4. SeenBy(log', u, h) => SeenBy(log', u, k)
    BY <1>4, <1>6, <2>1 DEF Chronicle
  <2> QED BY <1>0, <1>5, <2>2, <2>3, <2>4
<1>9. EventsSound(log', k, nextGen, ev)
  <2> SUFFICES ASSUME NEW e \in ev
               PROVE  /\ e.gen <= nextGen
                      /\ ~e.gone => VersionOf(log', e.uid, e.ver, k)
                      /\ e.gone => e.ver <= k /\ GoneBy(log', e.uid, e.ver)
    BY DEF EventsSound
  <2>1. e.uid \in UIDs /\ e.ver \in Nat
    BY <1>0, BoundFacts DEF EventRec
  <2>2. /\ e.gen <= nextGen
        /\ ~e.gone => VersionOf(log, e.uid, e.ver, h)
        /\ e.gone => e.ver <= h /\ GoneBy(log, e.uid, e.ver)
    BY <1>7 DEF Consistent, EventsSound
  <2>3. CASE e.gone
    <3>1. e.ver \in 0 .. Len(log) /\ e.ver <= k
      BY <1>0, <1>4, <1>6, <2>1, <2>2, <2>3
    <3> QED BY <1>5, <2>1, <2>2, <2>3, <3>1
  <2>4. CASE ~e.gone
    BY <1>8, <2>1, <2>2, <2>4
  <2> QED BY <2>3, <2>4
<1>10. \A rs \in rss : rs.rev \in 0 .. Len(log) /\ rs.rev <= h /\ rs.rev <= k
  <2> TAKE rs \in rss
  <2>1. rs.rev \in Nat /\ rs.rev <= h
    BY <1>0, <1>7, BoundFacts DEF Consistent, ResyncsSound, ResyncRec
  <2> QED BY <1>0, <1>4, <1>6, <2>1
<1>11. ResyncsSound(k, running, nextGen, inf, ev, rss)
  BY <1>7, <1>10 DEF Consistent, ResyncsSound
<1>12. MemorySound(log', k, ev, rss, w, store)
  <2>1. MemorySound(log, h, ev, rss, w, store)
    BY <1>7 DEF Consistent
  <2>2. \A rs \in rss : \A u \in UIDs : SeenBy(log, u, rs.rev) => SeenBy(log', u, rs.rev)
    BY <1>5, <1>10
  <2> QED BY <1>8, <2>1, <2>2 DEF MemorySound
<1>13. RetainedSound(log', k, running, inf, ev, rss, w)
  <2> SUFFICES ASSUME w.retained.gen # None PROVE RetainedSound(log', k, running, inf, ev, rss, w)
    BY DEF RetainedSound
  <2>1. RetainedSound(log, h, running, inf, ev, rss, w)
    BY <1>7 DEF Consistent
  <2>2. w.retained.rev \in Nat /\ w.retained.rev <= h
    BY <1>7, <2>1, BoundFacts DEF RetainedSound, MemoryRec, RetainedRec
  <2>3. w.retained.rev \in 0 .. Len(log) /\ w.retained.rev <= k
    BY <1>0, <1>4, <1>6, <2>2
  <2>4. \A u \in UIDs : /\ VersionAt(log', u, w.retained.rev) = VersionAt(log, u, w.retained.rev)
                        /\ GoneBy(log', u, w.retained.rev) <=> GoneBy(log, u, w.retained.rev)
    BY <1>5, <2>3
  <2> QED BY <2>1, <2>3, <2>4 DEF RetainedSound
<1>14. InformerSound(log', running, inf, rss, w)
  BY <1>0, <1>4, <1>7 DEF Consistent, InformerSound
<1>15. \A u \in UIDs : VersionAt(log', u, inf.cursor) = VersionAt(log, u, inf.cursor)
  BY <1>0, <1>5
<1>16. LiveFollowed(log', running, inf, ev, rss, w, store, lost)
  BY <1>7, <1>15 DEF Consistent, LiveFollowed
<1>17. GoneFollowed(log', running, inf, ev, rss, w, store, lost, left)
  BY <1>7, <1>15 DEF Consistent, GoneFollowed
<1>18. StateTyped' /\ WriterTyped(inf', w', store', lost', left') /\ Ordered'
  BY <1>2, <1>3 DEF PipelineInv, StateTyped, WriterTyped, Ordered
<1> QED BY <1>2, <1>7, <1>9, <1>11, <1>12, <1>13, <1>14, <1>16, <1>17, <1>18
        DEF PipelineInv, Consistent, h, ev, rss, k

\* What a LIST sends: one event for every object, with its current version.
LEMMA AddsFacts ==
    ASSUME PipelineInv, running # None, NEW us \in SUBSET Live(Len(log))
    PROVE  /\ Adds(us) \in Seq(EventRec)
           /\ \A e \in Range(Adds(us)) :
                 /\ e \in EventRec /\ e.gen = running /\ e.uid \in us /\ ~e.gone
                 /\ e.ver = VersionAt(log, e.uid, Len(log)) /\ e.ver # None
           /\ \A u \in us : \E e \in Range(Adds(us)) : e.uid = u
<1> DEFINE Add(u) == [gen |-> running, uid |-> u, ver |-> Now(u), gone |-> FALSE]
           A == {Add(u) : u \in us}
<1>1. Chronicle(log) /\ Len(log) \in 0 .. MaxChanges /\ Len(log) \in 0 .. Len(log)
  BY InvFacts, BoundFacts
<1>2. us \subseteq UIDs
  BY DEF Live
<1>3. \A u \in us : Now(u) = VersionAt(log, u, Len(log)) /\ Now(u) # None /\ Now(u) \in Versions
  <2> TAKE u \in us
  <2>1. Now(u) = VersionAt(log, u, Len(log)) /\ Now(u) # None
    BY DEF Live, Now, At
  <2>2. VersionAt(log, u, Len(log)) \in 0 .. Len(log)
    BY <1>1, <1>2 DEF Chronicle
  <2> QED BY <1>1, <2>1, <2>2, BoundFacts
<1>4. running \in Generations
  BY DEF PipelineInv, StateTyped
<1>5. \A u \in us : Add(u) \in EventRec
  BY <1>2, <1>3, <1>4 DEF EventRec
<1>6. IsFiniteSet(us)
  BY <1>2, BoundFacts, FS_Subset
<1>7. IsFiniteSet(A)
  <2> DEFINE g == [u \in us |-> Add(u)]
  <2>1. g \in Surjection(us, A)
    <3>1. g \in [us -> A]
      OBVIOUS
    <3>2. \A a \in A : \E u \in us : g[u] = a
      OBVIOUS
    <3> HIDE DEF g, A
    <3> QED BY <3>1, <3>2 DEF Surjection
  <2> HIDE DEF g, A
  <2> QED BY <1>6, <2>1, FS_Surjection
<1>8. Adds(us) = SetToSeq(A)
  BY DEF Adds
<1>9. A \subseteq EventRec
  BY <1>5
<1>10. SetToSeq(A) \in Seq(A) /\ Range(SetToSeq(A)) = A
  <2> HIDE DEF A
  <2> QED BY <1>7, SetToSeqFacts
<1>11. Adds(us) \in Seq(EventRec) /\ Range(Adds(us)) = A
  <2> HIDE DEF A
  <2>1. \A s \in Seq(A) : s \in Seq(EventRec)
    BY <1>9
  <2> QED BY <1>8, <1>10, <2>1
<1>12. \A u \in us : /\ Add(u).gen = running /\ Add(u).uid = u /\ ~Add(u).gone
                     /\ Add(u).ver = VersionAt(log, u, Len(log)) /\ Add(u).ver # None
  BY <1>3
<1>13. \A e \in A : \E u \in us : e = Add(u)
  OBVIOUS
<1>14. \A u \in us : Add(u) \in A
  OBVIOUS
<1> HIDE DEF A, Add
<1> QED BY <1>5, <1>11, <1>12, <1>13, <1>14

\* While the informer lists or watches, all LISTs are of older generations.
LEMMA NothingOutstanding ==
    ASSUME PipelineInv, inf.pc \in {"list", "watch"}
    PROVE  /\ running # None /\ running = nextGen
           /\ \A rs \in Range(resyncCh) : rs.gen # running /\ rs.gen < running
           /\ w.retained.gen # running
           /\ w.retained.gen # None => w.retained.gen < running
<1>1. /\ running \in Nat /\ nextGen \in Nat /\ running # None
      /\ \A rs \in Range(resyncCh) : rs \in ResyncRec
  BY InvFacts
<1>2. w \in MemoryRec
      /\ Consistent(Horizon(log, inf), inf, Range(eventCh), Range(resyncCh), w, store, lost, left)
  BY DEF PipelineInv, WriterTyped
<1>3. running = nextGen /\ w.gen <= nextGen /\ w.retained.gen \in {None, w.gen}
  BY <1>1, <1>2 DEF Consistent, GenerationsSound
<1>4. ASSUME NEW rs \in Range(resyncCh) PROVE rs.gen # running /\ rs.gen < running
  <2>1. rs.gen <= nextGen /\ rs.gen # running
    BY <1>2 DEF Consistent, ResyncsSound, Waits
  <2>2. rs.gen \in Nat
    BY <1>1, BoundFacts DEF ResyncRec
  <2> QED BY <1>1, <1>3, <2>1, <2>2
<1>5. w.retained.gen # running
  BY <1>1, <1>2 DEF Consistent, RetainedSound, Waits
<1>6. w.gen \in Nat
  BY <1>2, BoundFacts DEF MemoryRec
<1> QED BY <1>1, <1>3, <1>4, <1>5, <1>6

\* Sending them keeps what holds of the events, and of the writer's memory.
LEMMA SendsAdds ==
    ASSUME PipelineInv, inf.pc = "list", NEW us \in SUBSET Live(Len(log))
    PROVE  LET E == eventCh \o Adds(us) IN
           /\ E \in Seq(EventRec) /\ EventsOrdered(E)
           /\ Range(E) = Range(eventCh) \cup Range(Adds(us))
           /\ EventsSound(log, Len(log), nextGen, Range(E))
           /\ ResyncsSound(Len(log), running, nextGen, inf, Range(E), Range(resyncCh))
           /\ MemorySound(log, Len(log), Range(E), Range(resyncCh), w, store)
           /\ RetainedSound(log, Len(log), running, inf, Range(E), Range(resyncCh), w)
           /\ \A rs \in Range(resyncCh) : rs.gen # running
           /\ w.retained.gen # running
<1> DEFINE A == Adds(us)
           E == eventCh \o A
           ev == Range(eventCh)
           rss == Range(resyncCh)
           n == Len(log)
<1>1. /\ Chronicle(log) /\ n \in 0 .. MaxChanges /\ n \in 0 .. n /\ n \in Nat
      /\ nextGen \in Nat /\ running \in Nat /\ running # None
      /\ Horizon(log, inf) = n /\ inf \in InfRec
      /\ (\A e \in ev : e \in EventRec) /\ (\A rs \in rss : rs \in ResyncRec)
  BY InvFacts, BoundFacts DEF Horizon, Informed
<1>2. /\ A \in Seq(EventRec)
      /\ \A e \in Range(A) : /\ e \in EventRec /\ e.gen = running /\ e.uid \in us /\ ~e.gone
                             /\ e.ver = VersionAt(log, e.uid, n) /\ e.ver # None
  BY <1>1, AddsFacts
<1>3. /\ Consistent(n, inf, ev, rss, w, store, lost, left) /\ EventsOrdered(eventCh)
      /\ w \in MemoryRec /\ eventCh \in Seq(EventRec)
  BY <1>1 DEF PipelineInv, WriterTyped, Ordered, StateTyped
<1>4. us \subseteq UIDs
  BY DEF Live
<1> HIDE DEF A
<1>5. /\ E \in Seq(EventRec) /\ Range(E) = ev \cup Range(A)
      /\ Len(E) = Len(eventCh) + Len(A) /\ Len(eventCh) \in Nat /\ Len(A) \in Nat
      /\ \A i \in 1 .. Len(E) :
            E[i] = IF i <= Len(eventCh) THEN eventCh[i] ELSE A[i - Len(eventCh)]
  BY <1>2, <1>3, ConcatRange
<1> HIDE DEF E
<1>6. \A i \in 1 .. Len(eventCh) : eventCh[i] \in ev
  BY <1>3 DEF Range
<1>7. \A i \in 1 .. Len(A) : A[i] \in Range(A)
  BY <1>2 DEF Range
<1> HIDE DEF ev, rss, n
\* A version that anyone knows of is not newer than the current one.
<1>8. ASSUME NEW e \in Range(A), NEW v, v = None \/ VersionOf(log, e.uid, v, n)
      PROVE  v <= e.ver /\ e.ver \in Nat /\ e.ver <= n /\ VersionOf(log, e.uid, e.ver, n)
             /\ ~GoneBy(log, e.uid, n)
  <2>1. e.uid \in UIDs /\ e.ver \in 0 .. n /\ ~GoneBy(log, e.uid, n)
        /\ VersionOf(log, e.uid, e.ver, n)
    BY <1>1, <1>2, <1>4 DEF Chronicle, n
  <2>2. v = None \/ v <= e.ver
    BY <1>1, <1>2, <1>8, <2>1 DEF Chronicle, n
  <2> QED BY <1>1, <2>1, <2>2, BoundFacts
<1>9. EventsOrdered(E)
  <2> SUFFICES ASSUME NEW i \in 1 .. Len(E), NEW j \in 1 .. Len(E), i < j,
                      E[i].uid = E[j].uid
               PROVE  E[i].ver <= E[j].ver
    BY DEF EventsOrdered
  <2>1. CASE j <= Len(eventCh)
    <3>1. i \in 1 .. Len(eventCh) /\ j \in 1 .. Len(eventCh)
          /\ E[i] = eventCh[i] /\ E[j] = eventCh[j]
      BY <1>5, <2>1
    <3> QED BY <1>3, <3>1 DEF EventsOrdered
  <2>2. CASE ~(j <= Len(eventCh))
    <3>1. j - Len(eventCh) \in 1 .. Len(A) /\ E[j] = A[j - Len(eventCh)]
      BY <1>5, <2>2
    <3>2. E[j] \in Range(A)
      BY <1>7, <3>1
    <3>3. CASE i <= Len(eventCh)
      <4>1. i \in 1 .. Len(eventCh) /\ E[i] = eventCh[i] /\ E[i] \in ev
        BY <1>5, <1>6, <3>3
      <4>2. VersionOf(log, E[i].uid, E[i].ver, n) \/ (E[i].gone /\ E[i].ver <= n
                                                      /\ GoneBy(log, E[i].uid, E[i].ver))
        BY <1>3, <4>1 DEF Consistent, EventsSound
      <4>3. E[i].uid \in UIDs /\ E[i].ver \in Nat
        BY <1>1, <4>1, BoundFacts DEF EventRec
      <4>4. GoneBy(log, E[i].uid, E[i].ver) /\ E[i].ver <= n => GoneBy(log, E[i].uid, n)
        BY <1>1, <4>3 DEF Chronicle, n
      <4> QED BY <1>8, <3>2, <4>2, <4>4
    <3>4. CASE ~(i <= Len(eventCh))
      <4>1. i - Len(eventCh) \in 1 .. Len(A) /\ E[i] = A[i - Len(eventCh)]
        BY <1>5, <3>4
      <4>2. E[i] \in Range(A)
        BY <1>7, <4>1
      <4>3. E[i].ver = E[j].ver
        BY <1>2, <3>2, <4>2
      <4>4. E[j].ver \in Nat
        BY <1>2, <3>2, BoundFacts DEF EventRec
      <4> QED BY <4>3, <4>4
    <3> QED BY <3>3, <3>4
  <2> QED BY <2>1, <2>2
<1>10. EventsSound(log, n, nextGen, Range(E))
  <2>1. GenerationsSound(running, nextGen, Range(removeCh), w)
    BY <1>3 DEF Consistent
  <2>2. running <= nextGen
    BY <1>1, <2>1 DEF GenerationsSound
  <2>3. \A e \in Range(A) : e.gen <= nextGen /\ ~e.gone /\ VersionOf(log, e.uid, e.ver, n)
    BY <1>2, <1>8, <2>2
  <2> QED BY <1>3, <1>5, <2>3 DEF Consistent, EventsSound
<1>11. \A rs \in rss : rs.gen # running /\ rs.gen < running
  BY NothingOutstanding DEF rss
<1>12. ResyncsSound(n, running, nextGen, inf, Range(E), rss)
  <2>1. \A rs \in rss : \A e \in Range(A) : ~(e.gen <= rs.gen)
    <3> TAKE rs \in rss
    <3> TAKE e \in Range(A)
    <3>1. e.gen = running /\ rs.gen \in Nat /\ rs.gen < running
      BY <1>1, <1>2, <1>11, BoundFacts DEF ResyncRec
    <3> QED BY <1>1, <3>1
  <2> QED BY <1>3, <1>5, <2>1 DEF Consistent, ResyncsSound
<1>13. MemorySound(log, n, Range(E), rss, w, store)
  <2>1. MemorySound(log, n, ev, rss, w, store)
    BY <1>3 DEF Consistent
  <2>2. ASSUME NEW e \in Range(A)
        PROVE  w.up[e.uid] <= e.ver /\ w.sent[e.uid] <= e.ver /\ e.uid \notin w.del
    <3>1. e.uid \in UIDs
      BY <1>2, <1>4
    <3>2. /\ w.up[e.uid] = None \/ VersionOf(log, e.uid, w.up[e.uid], n)
          /\ w.sent[e.uid] = None \/ VersionOf(log, e.uid, w.sent[e.uid], n)
          /\ e.uid \in w.del => GoneBy(log, e.uid, n)
      BY <2>1, <3>1 DEF MemorySound
    <3> QED BY <1>8, <3>2
  <2> QED BY <1>5, <2>1, <2>2 DEF MemorySound
<1>14. w.retained.gen # running /\ (w.retained.gen # None => w.retained.gen < running)
  BY NothingOutstanding
<1>15. RetainedSound(log, n, running, inf, Range(E), rss, w)
  <2>1. \A e \in Range(A) : w.retained.gen # None => ~(e.gen <= w.retained.gen)
    <3> TAKE e \in Range(A)
    <3>1. e.gen = running /\ w.retained.gen \in Nat
      BY <1>2, <1>3, BoundFacts DEF MemoryRec, RetainedRec
    <3> QED BY <1>1, <1>14, <3>1
  <2> QED BY <1>3, <1>5, <2>1 DEF Consistent, RetainedSound
<1> QED BY <1>5, <1>9, <1>10, <1>11, <1>12, <1>13, <1>14, <1>15 DEF E, A, ev, rss, n

\* A LIST that fails leaves events of current versions in the channel.
LEMMA ListFailsStep == ASSUME PipelineInv, ListFails PROVE PipelineInv'
<1>1. inf.pc = "list" /\ Fails /\ used \in UsedRec
      /\ UNCHANGED <<log, inf, running, nextGen, resyncCh, removeCh, w, store, lost, left>>
  BY DEF ListFails, PipelineInv, StateTyped
<1>2. PICK us \in SUBSET Live(Len(log)) : eventCh' = eventCh \o Adds(us)
  BY DEF ListFails
<1>3. /\ eventCh' \in Seq(EventRec) /\ EventsOrdered(eventCh')
      /\ EventsSound(log, Len(log), nextGen, Range(eventCh'))
      /\ ResyncsSound(Len(log), running, nextGen, inf, Range(eventCh'), Range(resyncCh))
      /\ MemorySound(log, Len(log), Range(eventCh'), Range(resyncCh), w, store)
      /\ RetainedSound(log, Len(log), running, inf, Range(eventCh'), Range(resyncCh), w)
  BY <1>1, <1>2, SendsAdds
<1>4. Horizon(log, inf) = Len(log) /\ ~Informed(inf)
  BY <1>1 DEF Horizon, Informed
<1>5. /\ LiveFollowed(log, running, inf, Range(eventCh'), Range(resyncCh), w, store, lost)
      /\ GoneFollowed(log, running, inf, Range(eventCh'), Range(resyncCh), w, store, lost, left)
  BY <1>4 DEF LiveFollowed, GoneFollowed
<1>6. used' \in UsedRec
  BY <1>1, FailsFacts
<1>7. StateTyped' /\ WriterTyped(inf', w', store', lost', left') /\ Ordered'
  BY <1>1, <1>3, <1>6 DEF PipelineInv, StateTyped, WriterTyped, Ordered
<1> QED BY <1>1, <1>3, <1>4, <1>5, <1>7 DEF PipelineInv, Consistent

\* A LIST: every live object is in the event channel, and the snapshot follows.
LEMMA ListStep == ASSUME PipelineInv, List PROVE PipelineInv'
<1> DEFINE n == Len(log)
           r == [gen |-> running, rev |-> n]
           ev == Range(eventCh)
           rss == Range(resyncCh)
           A == Adds(Live(n))
<1>1. /\ inf.pc = "list" /\ eventCh' = eventCh \o A /\ resyncCh' = Append(resyncCh, r)
      /\ inf' = [inf EXCEPT !.pc = "ack", !.cursor = n]
      /\ UNCHANGED <<log, running, nextGen, removeCh, w, store, used, lost, left>>
  BY DEF List
<1>2. /\ LogSound(log) /\ Chronicle(log) /\ n \in 0 .. MaxChanges /\ n \in 0 .. n /\ n \in Nat
      /\ nextGen \in Nat /\ running \in Nat /\ running \in Generations /\ running # None
      /\ Horizon(log, inf) = n /\ inf \in InfRec
      /\ (\A rs \in rss : rs \in ResyncRec)
  BY <1>1, InvFacts, BoundFacts DEF Horizon, Informed, PipelineInv, StateTyped
<1>3. /\ Consistent(n, inf, ev, rss, w, store, lost, left)
      /\ w \in MemoryRec /\ resyncCh \in Seq(ResyncRec) /\ ResyncsOrdered(resyncCh)
  BY <1>2 DEF PipelineInv, WriterTyped, Ordered, StateTyped
<1>4. /\ running = nextGen
      /\ \A rs \in rss : rs.gen # running /\ rs.gen < running
      /\ w.retained.gen # running
      /\ w.retained.gen # None => w.retained.gen < running
  BY <1>1, NothingOutstanding
<1>5. /\ eventCh' \in Seq(EventRec) /\ EventsOrdered(eventCh')
      /\ Range(eventCh') = ev \cup Range(A)
      /\ EventsSound(log, n, nextGen, Range(eventCh'))
      /\ ResyncsSound(n, running, nextGen, inf, Range(eventCh'), rss)
      /\ MemorySound(log, n, Range(eventCh'), rss, w, store)
      /\ RetainedSound(log, n, running, inf, Range(eventCh'), rss, w)
  BY <1>1, SendsAdds
<1>6. /\ \A e \in Range(A) : /\ e \in EventRec /\ e.gen = running /\ e.uid \in Live(n)
                             /\ e.ver = VersionAt(log, e.uid, n)
      /\ \A u \in Live(n) : \E e \in Range(A) : e.uid = u
  BY <1>2, AddsFacts
<1>7. inf' \in InfRec /\ inf'.pc = "ack" /\ inf'.ack = "none" /\ inf'.cursor = n
  <2>1. inf.ack = "none"
    BY <1>1, <1>3 DEF Consistent, InformerSound
  <2>2. n \in Versions
    BY <1>2, BoundFacts
  <2> QED BY <1>1, <1>2, <2>1, <2>2 DEF InfRec
<1>8. r \in ResyncRec /\ r.gen = running /\ r.rev = n
  BY <1>2, BoundFacts DEF ResyncRec
<1>9. Informed(inf') /\ Waits(inf', n) /\ Horizon(log', inf') = n
  BY <1>1, <1>7 DEF Informed, Waits, Horizon
<1>10. \A e \in Range(eventCh') : e \in EventRec /\ e.ver \in Nat /\ e.ver <= n
  <2> TAKE e \in Range(eventCh')
  <2>1. e \in EventRec
    BY <1>5 DEF Range
  <2>2. e.uid \in UIDs /\ e.ver \in Nat /\ e.gone \in BOOLEAN
    BY <2>1, BoundFacts DEF EventRec
  <2>3. e.gone => e.ver <= n
    BY <1>5 DEF EventsSound
  <2>4. ~e.gone => VersionOf(log, e.uid, e.ver, n)
    BY <1>5 DEF EventsSound
  <2>5. VersionOf(log, e.uid, e.ver, n) => e.ver <= n
    BY <1>2, <2>2 DEF Chronicle
  <2> QED BY <2>1, <2>2, <2>3, <2>4, <2>5
<1> HIDE DEF r, ev, rss, A
<1>11. resyncCh' \in Seq(ResyncRec) /\ Range(resyncCh') = rss \cup {r}
  BY <1>1, <1>3, <1>8, AppendRange DEF rss
<1>12. ResyncsOrdered(resyncCh')
  <2>1. /\ Len(resyncCh') = Len(resyncCh) + 1 /\ Len(resyncCh) \in Nat
        /\ resyncCh'[Len(resyncCh) + 1] = r
        /\ \A i \in 1 .. Len(resyncCh) : resyncCh'[i] = resyncCh[i]
    BY <1>1, <1>3, <1>8
  <2>2. \A i \in 1 .. Len(resyncCh) : resyncCh[i] \in rss
    BY <1>3 DEF Range, rss
  <2>3. \A rs \in rss : rs.gen < r.gen /\ rs.rev <= r.rev
    BY <1>3, <1>4, <1>8 DEF Consistent, ResyncsSound
  <2> SUFFICES ASSUME NEW i \in 1 .. Len(resyncCh'), NEW j \in 1 .. Len(resyncCh'), i < j
               PROVE  /\ resyncCh'[i].gen < resyncCh'[j].gen
                      /\ resyncCh'[i].rev <= resyncCh'[j].rev
    BY DEF ResyncsOrdered
  <2>4. i \in 1 .. Len(resyncCh) /\ resyncCh'[i] = resyncCh[i] /\ resyncCh[i] \in rss
    BY <2>1, <2>2
  <2>5. CASE j = Len(resyncCh) + 1
    BY <2>1, <2>3, <2>4, <2>5
  <2>6. CASE j # Len(resyncCh) + 1
    <3>1. j \in 1 .. Len(resyncCh) /\ resyncCh'[j] = resyncCh[j]
      BY <2>1, <2>6
    <3> QED BY <1>3, <2>4, <3>1 DEF ResyncsOrdered
  <2> QED BY <2>5, <2>6
<1>13. ResyncsSound(n, running, nextGen, inf', Range(eventCh'), Range(resyncCh'))
  <2>1. /\ r.gen <= nextGen /\ r.rev <= n /\ Waits(inf', r.rev)
        /\ \A e \in Range(eventCh') : e.ver <= r.rev
    BY <1>2, <1>4, <1>8, <1>9, <1>10
  <2> QED BY <1>4, <1>5, <1>11, <2>1 DEF ResyncsSound
<1>14. MemorySound(log, n, Range(eventCh'), Range(resyncCh'), w, store)
  <2>1. ASSUME NEW u \in UIDs
        PROVE  /\ w.up[u] <= n /\ w.sent[u] <= n /\ (u \in w.reported => SeenBy(log, u, n))
    <3>1. /\ w.up[u] = None \/ VersionOf(log, u, w.up[u], n)
          /\ w.sent[u] = None \/ VersionOf(log, u, w.sent[u], n)
          /\ u \in w.reported => SeenBy(log, u, n)
      BY <1>5 DEF MemorySound
    <3>2. \A v : VersionOf(log, u, v, n) => v <= n
      BY <1>2 DEF Chronicle
    <3> QED BY <1>2, <3>1, <3>2, BoundFacts
  <2> QED BY <1>5, <1>8, <1>11, <2>1 DEF MemorySound
<1>15. RetainedSound(log, n, running, inf', Range(eventCh'), Range(resyncCh'), w)
  <2>1. w.retained.gen # None => w.retained.gen < r.gen /\ w.retained.rev <= r.rev
    BY <1>4, <1>5, <1>8 DEF RetainedSound
  <2> QED BY <1>4, <1>5, <1>11, <2>1 DEF RetainedSound
<1>16. Listed(running, Range(resyncCh'))
  BY <1>8, <1>11 DEF Listed
<1>17. InformerSound(log, running, inf', Range(resyncCh'), w)
  BY <1>2, <1>7, <1>16 DEF InformerSound
<1>18. LiveFollowed(log, running, inf', Range(eventCh'), Range(resyncCh'), w, store, lost)
  <2> SUFFICES ASSUME NEW u \in UIDs, VersionAt(log, u, n) # None
               PROVE  \E e \in Range(eventCh') :
                         e.gen = running /\ e.uid = u /\ e.ver = VersionAt(log, u, n)
    BY <1>7 DEF LiveFollowed, Carried
  <2>1. u \in Live(n)
    BY DEF Live, At
  <2> QED BY <1>5, <1>6, <2>1
<1>19. GoneFollowed(log, running, inf', Range(eventCh'), Range(resyncCh'), w, store, lost, left)
  BY <1>16 DEF GoneFollowed, Outstanding
<1>20. StateTyped' /\ WriterTyped(inf', w', store', lost', left') /\ Ordered'
  BY <1>1, <1>2, <1>5, <1>7, <1>11, <1>12 DEF PipelineInv, StateTyped, WriterTyped, Ordered
<1> QED BY <1>1, <1>3, <1>5, <1>9, <1>13, <1>14, <1>15, <1>17, <1>18, <1>19, <1>20
        DEF PipelineInv, Consistent

\* The watch: the change behind the cursor goes to the event channel.
LEMMA DeliverStep == ASSUME PipelineInv, Deliver PROVE PipelineInv'
<1> DEFINE c == inf.cursor
           n == c + 1
           e == [gen |-> running, uid |-> log[n].uid, ver |-> n, gone |-> log[n].gone]
           ev == Range(eventCh)
           rss == Range(resyncCh)
<1>1. /\ inf.pc = "watch" /\ c < Len(log) /\ eventCh' = Append(eventCh, e)
      /\ inf' = [inf EXCEPT !.cursor = n]
      /\ UNCHANGED <<log, running, nextGen, resyncCh, removeCh, w, store, used, lost, left>>
  BY DEF Deliver
<1>2. /\ LogSound(log) /\ Chronicle(log) /\ Len(log) \in 0 .. MaxChanges
      /\ c \in 0 .. Len(log) /\ c \in Nat
      /\ nextGen \in Nat /\ running \in Nat /\ running \in Generations /\ running # None
      /\ Horizon(log, inf) = c /\ inf \in InfRec
      /\ (\A x \in ev : x \in EventRec) /\ (\A rs \in rss : rs \in ResyncRec)
  BY <1>1, InvFacts, BoundFacts DEF Horizon, Informed, PipelineInv, StateTyped
<1>3. /\ Consistent(c, inf, ev, rss, w, store, lost, left)
      /\ w \in MemoryRec /\ eventCh \in Seq(EventRec) /\ EventsOrdered(eventCh)
  BY <1>2 DEF PipelineInv, WriterTyped, Ordered, StateTyped
<1>4. /\ running = nextGen
      /\ \A rs \in rss : rs.gen # running /\ rs.gen < running
      /\ w.retained.gen # running
      /\ w.retained.gen # None => w.retained.gen < running
  BY <1>1, NothingOutstanding
<1>5. n \in 0 .. Len(log) /\ n \in 1 .. Len(log) /\ c <= n /\ n \in Versions
  BY <1>1, <1>2, BoundFacts
<1>6. log[n] \in Changes /\ log[n].uid \in UIDs /\ log[n].gone \in BOOLEAN
  <2>1. \A i \in 1 .. Len(log) : log[i] \in Changes
    BY <1>2 DEF LogSound
  <2>2. log[n] \in Changes
    BY <1>5, <2>1
  <2> QED BY <2>2 DEF Changes
<1>7. /\ EventsSound(log, n, nextGen, ev)
      /\ MemorySound(log, n, ev, rss, w, store)
      /\ \A rs \in rss : /\ rs.gen <= nextGen /\ rs.rev <= n
                         /\ \A x \in ev : x.gen <= rs.gen => x.ver <= rs.rev
  BY <1>2, <1>5, HorizonGrows
<1>8. e \in EventRec /\ e.gen = running /\ e.uid = log[n].uid /\ e.ver = n /\ e.gone = log[n].gone
  BY <1>2, <1>5, <1>6 DEF EventRec
<1>9. \A u \in UIDs :
         /\ e.uid # u => VersionAt(log, u, n) = VersionAt(log, u, c)
         /\ e.uid = u /\ ~e.gone => /\ VersionAt(log, u, n) = n
                                    /\ VersionOf(log, u, n, n) /\ ~GoneBy(log, u, c)
         /\ e.uid = u /\ e.gone => VersionAt(log, u, n) = None /\ GoneBy(log, u, n)
  BY <1>1, <1>2, <1>8, NextVersion
<1>10. inf' \in InfRec /\ inf'.pc = "watch" /\ inf'.cursor = n /\ inf'.ack = "none"
  <2>1. inf.ack = "none"
    BY <1>1, <1>3 DEF Consistent, InformerSound
  <2> QED BY <1>1, <1>2, <1>5, <2>1 DEF InfRec
<1>11. Informed(inf) /\ Informed(inf') /\ Horizon(log', inf') = n
  BY <1>1, <1>10 DEF Informed, Horizon
<1> HIDE DEF e, n, c, ev, rss
<1>12. eventCh' \in Seq(EventRec) /\ Range(eventCh') = ev \cup {e}
  BY <1>1, <1>3, <1>8, AppendRange DEF ev
<1>13. e.uid \in UIDs /\ e.gone \in BOOLEAN
  BY <1>6, <1>8
<1>14. \A x \in ev : x.ver \in Nat /\ x.ver <= n
  <2> TAKE x \in ev
  <2>1. x.uid \in UIDs /\ x.ver \in Nat /\ x.gone \in BOOLEAN
    BY <1>2, BoundFacts DEF EventRec
  <2>2. x.gone => x.ver <= n
    BY <1>7 DEF EventsSound
  <2>3. ~x.gone => VersionOf(log, x.uid, x.ver, n)
    BY <1>7 DEF EventsSound
  <2>4. VersionOf(log, x.uid, x.ver, n) => x.ver <= n
    BY <1>2, <1>5, <2>1 DEF Chronicle
  <2> QED BY <2>1, <2>2, <2>3, <2>4
<1>15. EventsOrdered(eventCh')
  <2>1. /\ Len(eventCh') = Len(eventCh) + 1 /\ Len(eventCh) \in Nat
        /\ eventCh'[Len(eventCh) + 1] = e
        /\ \A i \in 1 .. Len(eventCh) : eventCh'[i] = eventCh[i]
    BY <1>1, <1>3, <1>8
  <2>2. \A i \in 1 .. Len(eventCh) : eventCh[i] \in ev
    BY <1>3 DEF Range, ev
  <2> SUFFICES ASSUME NEW i \in 1 .. Len(eventCh'), NEW j \in 1 .. Len(eventCh'), i < j,
                      eventCh'[i].uid = eventCh'[j].uid
               PROVE  eventCh'[i].ver <= eventCh'[j].ver
    BY DEF EventsOrdered
  <2>3. i \in 1 .. Len(eventCh) /\ eventCh'[i] = eventCh[i] /\ eventCh[i] \in ev
    BY <2>1, <2>2
  <2>4. CASE j = Len(eventCh) + 1
    BY <1>8, <1>14, <2>1, <2>3, <2>4
  <2>5. CASE j # Len(eventCh) + 1
    <3>1. j \in 1 .. Len(eventCh) /\ eventCh'[j] = eventCh[j]
      BY <2>1, <2>5
    <3> QED BY <1>3, <2>3, <3>1 DEF EventsOrdered
  <2> QED BY <2>4, <2>5
<1>16. EventsSound(log, n, nextGen, Range(eventCh'))
  <2>1. e.gen <= nextGen /\ e.ver <= n
    BY <1>2, <1>4, <1>5, <1>8
  <2>2. ~e.gone => VersionOf(log, e.uid, e.ver, n)
    BY <1>8, <1>9, <1>13
  <2>3. e.gone => GoneBy(log, e.uid, e.ver)
    BY <1>8, <1>9, <1>13
  <2> QED BY <1>7, <1>12, <2>1, <2>2, <2>3 DEF EventsSound
<1>17. ResyncsSound(n, running, nextGen, inf', Range(eventCh'), rss)
  <2>1. \A rs \in rss : ~(e.gen <= rs.gen)
    <3> TAKE rs \in rss
    <3>1. rs.gen \in Nat /\ rs.gen < running
      BY <1>2, <1>4, BoundFacts DEF ResyncRec
    <3> QED BY <1>2, <1>8, <3>1
  <2> QED BY <1>4, <1>7, <1>12, <2>1 DEF ResyncsSound
<1>18. MemorySound(log, n, Range(eventCh'), rss, w, store)
  <2>1. /\ w.up[e.uid] = None \/ VersionOf(log, e.uid, w.up[e.uid], n)
        /\ w.sent[e.uid] = None \/ VersionOf(log, e.uid, w.sent[e.uid], n)
    BY <1>7, <1>13 DEF MemorySound
  <2>2. \A v : VersionOf(log, e.uid, v, n) => v <= n
    BY <1>2, <1>5, <1>13 DEF Chronicle
  <2>3. w.up[e.uid] <= e.ver /\ w.sent[e.uid] <= e.ver
    BY <1>2, <1>5, <1>8, <2>1, <2>2, BoundFacts
  <2>4. e.uid \in w.del => GoneBy(log, e.uid, c)
    BY <1>3, <1>13 DEF Consistent, MemorySound
  <2>5. e.uid \in w.del => e.gone
    BY <1>9, <1>13, <2>4
  <2> QED BY <1>7, <1>12, <2>3, <2>5 DEF MemorySound
<1>19. RetainedSound(log, n, running, inf', Range(eventCh'), rss, w)
  <2>1. w.retained.gen # None => ~(e.gen <= w.retained.gen)
    <3>1. w.retained.gen \in Nat
      BY <1>3, BoundFacts DEF MemoryRec, RetainedRec
    <3> QED BY <1>2, <1>4, <1>8, <3>1
  <2>2. w.retained.gen # None => w.retained.rev <= n
    <3>1. w.retained.rev \in Nat /\ (w.retained.gen # None => w.retained.rev <= c)
      BY <1>3, BoundFacts DEF MemoryRec, RetainedRec, Consistent, RetainedSound
    <3> QED BY <1>2, <1>5, <3>1
  <2> QED BY <1>3, <1>4, <1>12, <2>1, <2>2 DEF Consistent, RetainedSound
<1>20. InformerSound(log, running, inf', rss, w)
  BY <1>2, <1>3, <1>5, <1>10, <1>11 DEF Consistent, InformerSound
<1>21. \A u \in UIDs : u # e.uid =>
          (Carried(running, Range(eventCh'), u) <=> Carried(running, ev, u))
  BY <1>12 DEF Carried
<1>22. LiveFollowed(log, running, inf', Range(eventCh'), rss, w, store, lost)
  <2>1. LiveFollowed(log, running, inf, ev, rss, w, store, lost)
    BY <1>3 DEF Consistent
  <2> SUFFICES ASSUME NEW u \in UIDs, VersionAt(log, u, n) # None
               PROVE
       /\ Carried(running, Range(eventCh'), u) =>
             \E x \in Range(eventCh') : x.gen = running /\ x.uid = u
                                        /\ x.ver = VersionAt(log, u, n)
       /\ ~Carried(running, Range(eventCh'), u) /\ Held(running, w, u) =>
             w.up[u] = VersionAt(log, u, n)
       /\ (/\ ~Carried(running, Range(eventCh'), u) /\ ~Held(running, w, u)
           /\ u \notin lost /\ VersionAt(log, u, n) \notin Unreadable) =>
             store[u] = VersionAt(log, u, n) \/ Outstanding(running, rss, w)
    BY <1>10 DEF LiveFollowed
  <2>2. CASE u = e.uid
    <3>1. e.ver = VersionAt(log, u, n)
      BY <1>8, <1>9, <1>13, <2>2
    <3>2. Carried(running, Range(eventCh'), u)
      BY <1>8, <1>12, <2>2 DEF Carried
    <3> QED BY <1>8, <1>12, <2>2, <3>1, <3>2
  <2>3. CASE u # e.uid
    <3>1. VersionAt(log, u, n) = VersionAt(log, u, c)
      BY <1>9, <2>3
    <3> QED BY <1>11, <1>12, <1>21, <2>1, <2>3, <3>1 DEF LiveFollowed, c
  <2> QED BY <2>2, <2>3
<1>23. GoneFollowed(log, running, inf', Range(eventCh'), rss, w, store, lost, left)
  <2>1. GoneFollowed(log, running, inf, ev, rss, w, store, lost, left)
    BY <1>3 DEF Consistent
  <2> SUFFICES ASSUME NEW u \in UIDs \ (left \cup lost), VersionAt(log, u, n) = None,
                      Shows(running, Range(eventCh'), w, store, u)
               PROVE
          \/ \E x \in Range(eventCh') : x.gen = running /\ x.uid = u /\ x.gone
          \/ u \in w.del
          \/ Outstanding(running, rss, w)
    BY <1>10 DEF GoneFollowed
  <2>2. CASE u = e.uid
    <3>1. e.gone
      BY <1>5, <1>9, <1>13, <2>2, BoundFacts
    <3> QED BY <1>8, <1>12, <2>2, <3>1
  <2>3. CASE u # e.uid
    <3>1. VersionAt(log, u, n) = VersionAt(log, u, c)
      BY <1>9, <2>3
    <3>2. Shows(running, ev, w, store, u)
      BY <1>12, <2>3 DEF Shows
    <3> QED BY <1>11, <1>12, <2>1, <3>1, <3>2 DEF GoneFollowed, c
  <2> QED BY <2>2, <2>3
<1>24. StateTyped' /\ WriterTyped(inf', w', store', lost', left') /\ Ordered'
  BY <1>1, <1>2, <1>10, <1>12, <1>15 DEF PipelineInv, StateTyped, WriterTyped, Ordered
<1> QED BY <1>1, <1>3, <1>11, <1>16, <1>17, <1>18, <1>19, <1>20, <1>22, <1>23, <1>24
        DEF PipelineInv, Consistent, ev, rss

-----------------------------------------------------------------------------
(* The writer: messages that change little                                 *)

\* The running generation is always accepted.
LEMMA RunningIsAccepted ==
    ASSUME PipelineInv, running # None
    PROVE  /\ Accepts(running) /\ running = nextGen /\ w.gen \in Nat /\ w.gen <= running
           /\ \A g \in Nat : Accepts(g) /\ g <= nextGen => g <= running /\ w.gen <= g
<1>1. running \in Nat /\ nextGen \in Nat
  BY InvFacts
<1>2. w \in MemoryRec /\ GenerationsSound(running, nextGen, Range(removeCh), w)
  BY DEF PipelineInv, WriterTyped, Consistent
<1>3. w.gen \in Nat /\ w.closed \in Nat
  BY <1>2, BoundFacts DEF MemoryRec
<1> QED BY <1>1, <1>2, <1>3 DEF GenerationsSound, Accepts

\* The first event leaves the channel: those behind it are not older.
LEMMA EventPops ==
    ASSUME PipelineInv, eventCh # <<>>
    PROVE  /\ Tail(eventCh) \in Seq(EventRec) /\ EventsOrdered(Tail(eventCh))
           /\ Head(eventCh) \in EventRec
           /\ Range(eventCh) = Range(Tail(eventCh)) \cup {Head(eventCh)}
           /\ \A e \in Range(Tail(eventCh)) :
                 e.uid = Head(eventCh).uid => Head(eventCh).ver <= e.ver
<1> DEFINE t == Tail(eventCh)
<1>1. eventCh \in Seq(EventRec) /\ EventsOrdered(eventCh)
  BY DEF PipelineInv, StateTyped, Ordered
<1>2. /\ t \in Seq(EventRec) /\ Head(eventCh) \in EventRec
      /\ Len(t) = Len(eventCh) - 1 /\ Len(eventCh) \in Nat \ {0}
      /\ \A i \in 1 .. Len(t) : t[i] = eventCh[i + 1]
      /\ Head(eventCh) = eventCh[1]
      /\ Range(eventCh) = Range(t) \cup {Head(eventCh)}
  BY <1>1, TailRange
<1> HIDE DEF t
<1>3. EventsOrdered(t)
  <2> SUFFICES ASSUME NEW i \in 1 .. Len(t), NEW j \in 1 .. Len(t), i < j, t[i].uid = t[j].uid
               PROVE  t[i].ver <= t[j].ver
    BY DEF EventsOrdered
  <2>1. /\ i + 1 \in 1 .. Len(eventCh) /\ j + 1 \in 1 .. Len(eventCh) /\ i + 1 < j + 1
        /\ t[i] = eventCh[i + 1] /\ t[j] = eventCh[j + 1]
    BY <1>2
  <2> QED BY <1>1, <2>1 DEF EventsOrdered
<1>4. ASSUME NEW e \in Range(t), e.uid = Head(eventCh).uid PROVE Head(eventCh).ver <= e.ver
  <2>1. PICK i \in 1 .. Len(t) : e = t[i]
    BY <1>2 DEF Range
  <2>2. i + 1 \in 1 .. Len(eventCh) /\ 1 \in 1 .. Len(eventCh) /\ 1 < i + 1
        /\ e = eventCh[i + 1]
    BY <1>2, <2>1
  <2> QED BY <1>1, <1>2, <1>4, <2>2 DEF EventsOrdered
<1> QED BY <1>2, <1>3, <1>4 DEF t

\* The first LIST leaves the channel: those behind it are of newer generations.
LEMMA ResyncPops ==
    ASSUME PipelineInv, resyncCh # <<>>
    PROVE  /\ Tail(resyncCh) \in Seq(ResyncRec) /\ ResyncsOrdered(Tail(resyncCh))
           /\ Head(resyncCh) \in ResyncRec
           /\ Range(resyncCh) = Range(Tail(resyncCh)) \cup {Head(resyncCh)}
           /\ \A rs \in Range(Tail(resyncCh)) :
                 Head(resyncCh).gen < rs.gen /\ Head(resyncCh).rev <= rs.rev
<1> DEFINE t == Tail(resyncCh)
<1>1. resyncCh \in Seq(ResyncRec) /\ ResyncsOrdered(resyncCh)
  BY DEF PipelineInv, StateTyped, Ordered
<1>2. /\ t \in Seq(ResyncRec) /\ Head(resyncCh) \in ResyncRec
      /\ Len(t) = Len(resyncCh) - 1 /\ Len(resyncCh) \in Nat \ {0}
      /\ \A i \in 1 .. Len(t) : t[i] = resyncCh[i + 1]
      /\ Head(resyncCh) = resyncCh[1]
      /\ Range(resyncCh) = Range(t) \cup {Head(resyncCh)}
  BY <1>1, TailRange
<1> HIDE DEF t
<1>3. ResyncsOrdered(t)
  <2> SUFFICES ASSUME NEW i \in 1 .. Len(t), NEW j \in 1 .. Len(t), i < j
               PROVE  t[i].gen < t[j].gen /\ t[i].rev <= t[j].rev
    BY DEF ResyncsOrdered
  <2>1. /\ i + 1 \in 1 .. Len(resyncCh) /\ j + 1 \in 1 .. Len(resyncCh) /\ i + 1 < j + 1
        /\ t[i] = resyncCh[i + 1] /\ t[j] = resyncCh[j + 1]
    BY <1>2
  <2> QED BY <1>1, <2>1 DEF ResyncsOrdered
<1>4. ASSUME NEW rs \in Range(t)
      PROVE  Head(resyncCh).gen < rs.gen /\ Head(resyncCh).rev <= rs.rev
  <2>1. PICK i \in 1 .. Len(t) : rs = t[i]
    BY <1>2 DEF Range
  <2>2. i + 1 \in 1 .. Len(resyncCh) /\ 1 \in 1 .. Len(resyncCh) /\ 1 < i + 1
        /\ rs = resyncCh[i + 1]
    BY <1>2, <2>1
  <2> QED BY <1>1, <1>2, <2>2 DEF ResyncsOrdered
<1> QED BY <1>2, <1>3, <1>4 DEF t

\* An event of another generation than the running one may be lost.
LEMMA RejectStep == ASSUME PipelineInv, Reject PROVE PipelineInv'
<1> DEFINE h == Horizon(log, inf)
           e == Head(eventCh)
           ev == Range(eventCh)
           rss == Range(resyncCh)
           t == Tail(eventCh)
<1>1. /\ eventCh # <<>> /\ ~Accepts(e.gen) /\ eventCh' = t
      /\ UNCHANGED <<log, inf, running, nextGen, resyncCh, removeCh, w, store, used, lost, left>>
  BY DEF Reject
<1>2. t \in Seq(EventRec) /\ EventsOrdered(t) /\ e \in EventRec /\ ev = Range(t) \cup {e}
  BY <1>1, EventPops
<1>3. Consistent(h, inf, ev, rss, w, store, lost, left)
  BY DEF PipelineInv
<1>4. running # None => e.gen # running
  BY <1>1, RunningIsAccepted
<1>5. Informed(inf) => running # None
  BY InvFacts DEF Informed
<1> HIDE DEF h, e, ev, rss, t
<1>6. /\ EventsSound(log, h, nextGen, Range(t))
      /\ ResyncsSound(h, running, nextGen, inf, Range(t), rss)
      /\ MemorySound(log, h, Range(t), rss, w, store)
      /\ RetainedSound(log, h, running, inf, Range(t), rss, w)
  BY <1>2, <1>3 DEF Consistent, EventsSound, ResyncsSound, MemorySound, RetainedSound
<1>7. LiveFollowed(log, running, inf, Range(t), rss, w, store, lost)
  <2> SUFFICES ASSUME Informed(inf) PROVE LiveFollowed(log, running, inf, Range(t), rss, w, store, lost)
    BY DEF LiveFollowed
  <2>1. \A u : Carried(running, Range(t), u) <=> Carried(running, ev, u)
    BY <1>2, <1>4, <1>5 DEF Carried
  <2>2. LiveFollowed(log, running, inf, ev, rss, w, store, lost)
    BY <1>3 DEF Consistent
  <2>3. \A x \in ev : x.gen = running => x \in Range(t)
    BY <1>2, <1>4, <1>5
  <2> QED BY <2>1, <2>2, <2>3 DEF LiveFollowed
<1>8. GoneFollowed(log, running, inf, Range(t), rss, w, store, lost, left)
  <2> SUFFICES ASSUME Informed(inf)
               PROVE  GoneFollowed(log, running, inf, Range(t), rss, w, store, lost, left)
    BY DEF GoneFollowed
  <2>1. \A u : Shows(running, Range(t), w, store, u) => Shows(running, ev, w, store, u)
    BY <1>2 DEF Shows
  <2>2. GoneFollowed(log, running, inf, ev, rss, w, store, lost, left)
    BY <1>3 DEF Consistent
  <2>3. \A x \in ev : x.gen = running => x \in Range(t)
    BY <1>2, <1>4, <1>5
  <2> QED BY <2>1, <2>2, <2>3 DEF GoneFollowed
<1>9. StateTyped' /\ WriterTyped(inf', w', store', lost', left') /\ Ordered'
  BY <1>1, <1>2 DEF PipelineInv, StateTyped, WriterTyped, Ordered
<1> QED BY <1>1, <1>3, <1>6, <1>7, <1>8, <1>9 DEF PipelineInv, Consistent, h, rss

\* The LIST of the running generation is not rejected: nobody waits for this one.
LEMMA RejectResyncStep == ASSUME PipelineInv, RejectResync PROVE PipelineInv'
<1> DEFINE h == Horizon(log, inf)
           r == Head(resyncCh)
           ev == Range(eventCh)
           rss == Range(resyncCh)
           t == Tail(resyncCh)
<1>1. /\ resyncCh # <<>> /\ ~Accepts(r.gen) /\ resyncCh' = t /\ inf' = Ack(inf, r.gen, "nack")
      /\ UNCHANGED <<log, running, nextGen, eventCh, removeCh, w, store, used, lost, left>>
  BY DEF RejectResync
<1>2. t \in Seq(ResyncRec) /\ ResyncsOrdered(t) /\ rss = Range(t) \cup {r}
  BY <1>1, ResyncPops
<1>3. Consistent(h, inf, ev, rss, w, store, lost, left)
  BY DEF PipelineInv
<1>4. running # None => r.gen # running
  BY <1>1, RunningIsAccepted
<1>5. inf' = inf
  BY <1>1, <1>4 DEF Ack
<1>6. Informed(inf) => running # None
  BY InvFacts DEF Informed
<1> HIDE DEF h, r, ev, rss, t
<1>7. /\ ResyncsSound(h, running, nextGen, inf, ev, Range(t))
      /\ MemorySound(log, h, ev, Range(t), w, store)
      /\ RetainedSound(log, h, running, inf, ev, Range(t), w)
  BY <1>2, <1>3 DEF Consistent, ResyncsSound, MemorySound, RetainedSound
<1>8. running # None => (Listed(running, rss) <=> Listed(running, Range(t)))
  BY <1>2, <1>4 DEF Listed
<1>9. InformerSound(log, running, inf, Range(t), w)
  BY <1>3, <1>6, <1>8 DEF Consistent, InformerSound
<1>10. /\ LiveFollowed(log, running, inf, ev, Range(t), w, store, lost)
       /\ GoneFollowed(log, running, inf, ev, Range(t), w, store, lost, left)
  <2>1. Informed(inf) => (Outstanding(running, rss, w) <=> Outstanding(running, Range(t), w))
    BY <1>6, <1>8 DEF Outstanding
  <2> QED BY <1>3, <2>1 DEF Consistent, LiveFollowed, GoneFollowed
<1>11. StateTyped' /\ WriterTyped(inf', w', store', lost', left') /\ Ordered'
  BY <1>1, <1>2, <1>5 DEF PipelineInv, StateTyped, WriterTyped, Ordered
<1> QED BY <1>1, <1>3, <1>5, <1>7, <1>9, <1>10, <1>11 DEF PipelineInv, Consistent, h, ev

-----------------------------------------------------------------------------
(* The writer forgets: a newer generation, and the end of one              *)

\* The empty memory holds nothing and retains no LIST.
LEMMA NoMemoryFacts ==
    /\ NoMemory.up = [u \in UIDs |-> None] /\ NoMemory.up \in [UIDs -> Versions]
    /\ NoResync \in RetainedRec /\ NoResync.gen = None
BY BoundFacts DEF NoMemory, NoResync, RetainedRec

\* Dropping the pending work leaves the rest of the memory as it is.
LEMMA DropPendingFacts ==
    ASSUME NEW m \in MemoryRec
    PROVE  /\ DropPending(m) \in MemoryRec
           /\ DropPending(m).up = NoMemory.up /\ DropPending(m).del = {}
           /\ DropPending(m).gen = m.gen /\ DropPending(m).reported = m.reported
           /\ DropPending(m).closed = m.closed /\ DropPending(m).sent = m.sent
           /\ DropPending(m).retained = m.retained
<1> DEFINE n == NoMemory.up
<1>1. n \in [UIDs -> Versions] /\ DropPending(m) = [m EXCEPT !.up = n, !.del = {}]
  BY NoMemoryFacts DEF DropPending
<1> HIDE DEF n
<1>2. /\ DropPending(m) \in MemoryRec
      /\ DropPending(m).up = n /\ DropPending(m).del = {}
      /\ DropPending(m).gen = m.gen /\ DropPending(m).reported = m.reported
      /\ DropPending(m).closed = m.closed /\ DropPending(m).sent = m.sent
      /\ DropPending(m).retained = m.retained
  BY <1>1 DEF MemoryRec
<1> QED BY <1>2 DEF n

\* A memory without pending work and names is sound, and the LIST that is on
\* its way makes up for what it lost.
LEMMA Forgets ==
    ASSUME PipelineInv, NEW m \in MemoryRec,
           m.up = NoMemory.up, m.del = {}, m.sent = w.sent, m.reported = {},
           m.retained = NoResync,
           \A rs \in Range(resyncCh) : Admits(m, rs.gen) => Admits(w, rs.gen),
           Informed(inf) => Listed(running, Range(resyncCh)),
           NEW le \in SUBSET UIDs, \A u \in UIDs : store[u] # None => u \in le
    PROVE  /\ WriterTyped(inf, m, store, lost, le)
           /\ MemorySound(log, Horizon(log, inf), Range(eventCh), Range(resyncCh), m, store)
           /\ RetainedSound(log, Horizon(log, inf), running, inf, Range(eventCh),
                            Range(resyncCh), m)
           /\ InformerSound(log, running, inf, Range(resyncCh), m)
           /\ LiveFollowed(log, running, inf, Range(eventCh), Range(resyncCh), m, store, lost)
           /\ RowsKnown(m, store, lost, le)
           /\ GoneFollowed(log, running, inf, Range(eventCh), Range(resyncCh), m, store,
                           lost, le)
<1> DEFINE h == Horizon(log, inf)
           ev == Range(eventCh)
           rss == Range(resyncCh)
<1>1. Consistent(h, inf, ev, rss, w, store, lost, left)
      /\ WriterTyped(inf, w, store, lost, left)
  BY DEF PipelineInv
<1>2. \A u \in UIDs : m.up[u] = None
  BY NoMemoryFacts
<1>3. /\ \A e \in ev : e \in EventRec
      /\ \A rs \in rss : rs \in ResyncRec
  BY InvFacts
<1> HIDE DEF h, ev, rss
<1>4. WriterTyped(inf, m, store, lost, le)
  BY <1>1, <1>2 DEF WriterTyped
<1>5. MemorySound(log, h, ev, rss, m, store)
  <2>1. MemorySound(log, h, ev, rss, w, store)
    BY <1>1 DEF Consistent
  <2>2. ASSUME NEW e \in ev PROVE m.up[e.uid] <= e.ver
    <3>1. e.uid \in UIDs /\ e.ver \in Nat
      BY <1>3, BoundFacts DEF EventRec
    <3> QED BY <1>2, <3>1, BoundFacts
  <2>3. ASSUME NEW rs \in rss, NEW u \in UIDs PROVE m.up[u] <= rs.rev
    <3>1. rs.rev \in Nat
      BY <1>3, BoundFacts DEF ResyncRec
    <3> QED BY <1>2, <3>1, BoundFacts
  <2>4. \A rs \in rss : Admits(m, rs.gen) => Admits(w, rs.gen)
    BY DEF rss
  <2> QED BY <1>2, <2>1, <2>2, <2>3, <2>4 DEF MemorySound
<1>6. RetainedSound(log, h, running, inf, ev, rss, m)
  BY NoMemoryFacts DEF RetainedSound
<1>7. Informed(inf) => Listed(running, rss)
  BY DEF rss
<1>8. InformerSound(log, running, inf, rss, m)
  BY <1>1, <1>7 DEF Consistent, InformerSound
<1>9. Informed(inf) => Outstanding(running, rss, m) /\ \A u \in UIDs : ~Held(running, m, u)
  BY <1>2, <1>7 DEF Outstanding, Held
<1>10. LiveFollowed(log, running, inf, ev, rss, m, store, lost)
  BY <1>1, <1>9 DEF Consistent, LiveFollowed
<1>11. RowsKnown(m, store, lost, le)
  BY DEF RowsKnown
<1>12. GoneFollowed(log, running, inf, ev, rss, m, store, lost, le)
  BY <1>9 DEF GoneFollowed
<1> QED BY <1>4, <1>5, <1>6, <1>8, <1>10, <1>11, <1>12 DEF h, ev, rss

\* Accepting a message: its generation is the writer's from then on, and no
\* informer that still runs is refused.
LEMMA AdoptFacts ==
    ASSUME PipelineInv, NEW g \in Generations, g <= nextGen, Accepts(g)
    PROVE  /\ WriterTyped(inf, Adopt(g), store, lost, LeftBy(g))
           /\ Consistent(Horizon(log, inf), inf, Range(eventCh), Range(resyncCh),
                         Adopt(g), store, lost, LeftBy(g))
           /\ Adopt(g).gen = g /\ Admits(Adopt(g), g)
           /\ Adopted(g) = inf
           /\ w.gen # g => Adopt(g).retained = NoResync
<1>0. WriterTyped(inf, w, store, lost, left)
      /\ Consistent(Horizon(log, inf), inf, Range(eventCh), Range(resyncCh), w, store, lost, left)
  BY DEF PipelineInv
<1>1. CASE w.gen = g
  <2>1. Adopt(g) = w /\ Adopted(g) = inf /\ LeftBy(g) = left
    BY <1>1 DEF Adopt, Adopted, LeftBy
  <2>2. Admits(w, g)
    BY DEF Accepts, Admits
  <2> QED BY <1>0, <1>1, <2>1, <2>2
<1>2. CASE w.gen # g
  <2> DEFINE d == DropPending(w)
             m == [d EXCEPT !.gen = g, !.reported = {}, !.retained = NoResync]
             le == left \cup {u \in UIDs : store[u] # None}
  <2>1. Adopt(g) = m /\ Adopted(g) = Ack(inf, w.retained.gen, "nack") /\ LeftBy(g) = le
    BY <1>2 DEF Adopt, Adopted, LeftBy
  <2>2. /\ w \in MemoryRec /\ w.gen \in Nat /\ w.closed \in Nat /\ nextGen \in Nat
        /\ running \in Nat /\ g \in Nat \ {0}
        /\ GenerationsSound(running, nextGen, Range(removeCh), w)
        /\ InformerSound(log, running, inf, Range(resyncCh), w)
        /\ left \in SUBSET UIDs
    BY <1>0, InvFacts, BoundFacts DEF WriterTyped, MemoryRec, Consistent
  <2>3. /\ d \in MemoryRec /\ d.up = NoMemory.up /\ d.del = {} /\ d.closed = w.closed
        /\ d.sent = w.sent
    BY <2>2, DropPendingFacts
  <2>4. NoResync \in RetainedRec /\ NoResync.gen = None
    BY NoMemoryFacts
  <2> HIDE DEF d
  <2>5. /\ m \in MemoryRec /\ m.gen = g /\ m.reported = {} /\ m.retained = NoResync
        /\ m.up = NoMemory.up /\ m.del = {} /\ m.closed = w.closed /\ m.sent = w.sent
    BY <2>3, <2>4 DEF MemoryRec
  <2> HIDE DEF m
  <2>6. g > w.closed /\ g >= w.gen /\ w.gen < g
    BY <1>2, <2>2 DEF Accepts
  <2>7. running # None => w.gen # running
    BY <2>2, <2>6 DEF GenerationsSound
  <2>8. Ack(inf, w.retained.gen, "nack") = inf
    BY <2>2, <2>7 DEF Ack, GenerationsSound
  <2>9. Informed(inf) => Listed(running, Range(resyncCh))
    BY <2>2, <2>7, InvFacts DEF InformerSound, Informed
  <2>10. \A rs \in Range(resyncCh) : Admits(m, rs.gen) => Admits(w, rs.gen)
    <3> TAKE rs \in Range(resyncCh)
    <3>1. rs.gen \in Nat
      BY InvFacts, BoundFacts DEF ResyncRec
    <3> QED BY <2>2, <2>5, <2>6, <3>1 DEF Admits
  <2>11. GenerationsSound(running, nextGen, Range(removeCh), m)
    BY <2>2, <2>4, <2>5 DEF GenerationsSound
  <2>12. le \in SUBSET UIDs /\ \A u \in UIDs : store[u] # None => u \in le
    BY <2>2
  <2> HIDE DEF le
  <2>13. /\ WriterTyped(inf, m, store, lost, le)
         /\ MemorySound(log, Horizon(log, inf), Range(eventCh), Range(resyncCh), m, store)
         /\ RetainedSound(log, Horizon(log, inf), running, inf, Range(eventCh),
                          Range(resyncCh), m)
         /\ InformerSound(log, running, inf, Range(resyncCh), m)
         /\ LiveFollowed(log, running, inf, Range(eventCh), Range(resyncCh), m, store, lost)
         /\ RowsKnown(m, store, lost, le)
         /\ GoneFollowed(log, running, inf, Range(eventCh), Range(resyncCh), m, store, lost, le)
    BY <2>5, <2>9, <2>10, <2>12, Forgets
  <2>14. Admits(m, g)
    BY <2>2, <2>5, <2>6 DEF Admits
  <2> QED BY <1>0, <2>1, <2>5, <2>8, <2>11, <2>13, <2>14 DEF Consistent
<1> QED BY <1>1, <1>2

\* The end of a generation: it is never the running one.
LEMMA TakeRemoveStep == ASSUME PipelineInv, TakeRemove PROVE PipelineInv'
<1> DEFINE g == Head(removeCh)
           d == DropPending(w)
           h == Horizon(log, inf)
           ev == Range(eventCh)
           rss == Range(resyncCh)
<1>1. /\ removeCh # <<>> /\ removeCh' = Tail(removeCh)
      /\ UNCHANGED <<log, running, nextGen, eventCh, resyncCh, store, used>>
  BY DEF TakeRemove
<1>2. /\ WriterTyped(inf, w, store, lost, left) /\ w \in MemoryRec
      /\ Consistent(h, inf, ev, rss, w, store, lost, left)
      /\ removeCh \in Seq(Generations)
  BY DEF PipelineInv, WriterTyped, StateTyped
<1>3. removeCh' \in Seq(Generations) /\ g \in Generations
      /\ Range(removeCh) = Range(removeCh') \cup {g}
  BY <1>1, <1>2, TailRange
<1>4. /\ running \in Nat /\ nextGen \in Nat /\ g \in Nat \ {0} /\ w.gen \in Nat
      /\ w.closed \in Nat /\ (Informed(inf) => running # None)
      /\ (\A rs \in rss : rs \in ResyncRec)
  BY <1>2, <1>3, InvFacts, BoundFacts DEF MemoryRec, Informed
<1>5. /\ GenerationsSound(running, nextGen, Range(removeCh), w)
      /\ InformerSound(log, running, inf, rss, w)
  BY <1>2 DEF Consistent
<1>6. g <= nextGen /\ (running # None => g < running)
  BY <1>3, <1>5 DEF GenerationsSound
<1>7. /\ d \in MemoryRec /\ d.up = NoMemory.up /\ d.del = {} /\ d.gen = w.gen
      /\ d.reported = w.reported /\ d.closed = w.closed /\ d.sent = w.sent
      /\ d.retained = w.retained
  BY <1>2, DropPendingFacts
<1> HIDE DEF g, d, h, ev, rss
<1>8. CASE w.gen \in {g, None}
  <2> DEFINE c == Max({w.closed, g})
             m == [d EXCEPT !.gen = None, !.reported = {}, !.retained = NoResync, !.closed = c]
             le == left \cup {u \in UIDs : store[u] # None}
  <2>1. /\ w' = m /\ inf' = Ack(inf, w.retained.gen, "nack") /\ left' = le /\ lost' = lost
    BY <1>7, <1>8 DEF TakeRemove, g, d
  <2>2. c \in {w.closed, g} /\ c >= w.closed /\ c >= g
    <3> DEFINE S == {w.closed, g}
    <3>1. S \in SUBSET Nat /\ S # {} /\ w.closed + g \in Nat /\ \A x \in S : x <= w.closed + g
      BY <1>4
    <3>2. w.closed \in S /\ g \in S /\ Max(S) = c
      OBVIOUS
    <3> HIDE DEF S
    <3>3. Max(S) \in S /\ \A y \in S : y <= Max(S)
      BY <3>1, MaxFacts
    <3>4. c \in S /\ w.closed <= c /\ g <= c
      BY <3>2, <3>3
    <3> HIDE DEF c
    <3> QED BY <1>4, <3>4 DEF S
  <2>3. c \in Generations \cup {None} /\ c \in Nat /\ c <= nextGen /\ (running # None => c < running)
    BY <1>2, <1>3, <1>4, <1>5, <1>6, <2>2 DEF MemoryRec, GenerationsSound
  <2> HIDE DEF c
  <2>4. NoResync \in RetainedRec /\ NoResync.gen = None
    BY NoMemoryFacts
  <2>5. /\ m \in MemoryRec /\ m.gen = None /\ m.reported = {} /\ m.retained = NoResync
        /\ m.up = NoMemory.up /\ m.del = {} /\ m.closed = c /\ m.sent = w.sent
    BY <1>7, <2>3, <2>4 DEF MemoryRec
  <2> HIDE DEF m
  <2>6. running # None => w.gen # running
    BY <1>6, <1>4, <1>8
  <2>7. Ack(inf, w.retained.gen, "nack") = inf
    BY <1>5, <2>6 DEF Ack, GenerationsSound
  <2>8. Informed(inf) => Listed(running, rss)
    BY <1>4, <1>5, <2>6 DEF InformerSound
  <2>9. \A rs \in rss : Admits(m, rs.gen) => Admits(w, rs.gen)
    <3> TAKE rs \in rss
    <3>1. rs.gen \in Nat
      BY <1>4, BoundFacts DEF ResyncRec
    <3> QED BY <1>4, <1>8, <2>2, <2>3, <2>5, <3>1, BoundFacts DEF Admits
  <2>10. GenerationsSound(running, nextGen, Range(removeCh'), m)
    <3>1. None <= nextGen
      BY <1>4, BoundFacts
    <3> QED BY <1>3, <1>5, <2>3, <2>4, <2>5, <3>1 DEF GenerationsSound
  <2>11. le \in SUBSET UIDs /\ \A u \in UIDs : store[u] # None => u \in le
    BY <1>2 DEF WriterTyped
  <2> HIDE DEF le
  <2>12. /\ WriterTyped(inf, m, store, lost, le)
         /\ MemorySound(log, h, ev, rss, m, store)
         /\ RetainedSound(log, h, running, inf, ev, rss, m)
         /\ InformerSound(log, running, inf, rss, m)
         /\ LiveFollowed(log, running, inf, ev, rss, m, store, lost)
         /\ RowsKnown(m, store, lost, le)
         /\ GoneFollowed(log, running, inf, ev, rss, m, store, lost, le)
    BY <2>5, <2>8, <2>9, <2>11, Forgets DEF h, ev, rss
  <2>13. StateTyped' /\ Ordered'
    BY <1>1, <1>3 DEF PipelineInv, StateTyped, Ordered
  <2> QED BY <1>1, <1>2, <2>1, <2>7, <2>10, <2>12, <2>13
          DEF PipelineInv, Consistent, h, ev, rss
<1>9. CASE w.gen \notin {g, None}
  <2> DEFINE lo == lost \cup Pending(w)
  <2>1. w' = d /\ lost' = lo /\ UNCHANGED <<inf, left>>
    BY <1>9 DEF TakeRemove, g, d
  <2>2. lo \in SUBSET UIDs /\ lost \subseteq lo
        /\ \A u \in UIDs : u \notin lo => w.up[u] = None /\ u \notin w.del
    BY <1>2 DEF WriterTyped, MemoryRec, Pending
  <2> HIDE DEF lo
  <2>3. \A u \in UIDs : d.up[u] = None
    BY <1>7, NoMemoryFacts
  <2>4. /\ WriterTyped(inf, d, store, lo, left)
        /\ GenerationsSound(running, nextGen, Range(removeCh'), d)
    BY <1>2, <1>3, <1>5, <1>7, <1>9, <2>2, <2>3 DEF WriterTyped, GenerationsSound
  <2>5. MemorySound(log, h, ev, rss, d, store)
    <3>1. MemorySound(log, h, ev, rss, w, store)
      BY <1>2 DEF Consistent
    <3>2. ASSUME NEW e \in ev PROVE d.up[e.uid] <= e.ver
      <4>1. e.uid \in UIDs /\ e.ver \in Nat
        BY InvFacts, BoundFacts DEF EventRec, ev
      <4> QED BY <2>3, <4>1, BoundFacts
    <3>3. ASSUME NEW rs \in rss, NEW u \in UIDs PROVE d.up[u] <= rs.rev
      <4>1. rs.rev \in Nat
        BY <1>4, BoundFacts DEF ResyncRec
      <4> QED BY <2>3, <4>1, BoundFacts
    <3> QED BY <1>7, <2>3, <3>1, <3>2, <3>3 DEF MemorySound, Admits
  <2>6. RetainedSound(log, h, running, inf, ev, rss, d)
    <3>1. RetainedSound(log, h, running, inf, ev, rss, w)
      BY <1>2 DEF Consistent
    <3>2. \A u \in UIDs : d.up[u] <= w.retained.rev
      BY <1>2, <2>3, BoundFacts DEF MemoryRec, RetainedRec
    <3> QED BY <1>7, <3>1, <3>2 DEF RetainedSound
  <2>7. InformerSound(log, running, inf, rss, d)
    BY <1>5, <1>7 DEF InformerSound
  <2>8. \A u \in UIDs : ~Held(running, d, u) /\ (u \notin lo => ~Held(running, w, u))
    BY <2>2, <2>3 DEF Held
  <2>9. Outstanding(running, rss, d) <=> Outstanding(running, rss, w)
    BY <1>7 DEF Outstanding
  <2>10. LiveFollowed(log, running, inf, ev, rss, d, store, lo)
    BY <1>2, <2>2, <2>8, <2>9 DEF Consistent, LiveFollowed
  <2>11. RowsKnown(d, store, lo, left)
    BY <1>2, <1>7, <2>2 DEF Consistent, RowsKnown
  <2>12. GoneFollowed(log, running, inf, ev, rss, d, store, lo, left)
    <3>1. \A u \in UIDs : Shows(running, ev, d, store, u) => Shows(running, ev, w, store, u)
      BY <2>8 DEF Shows
    <3> QED BY <1>2, <2>2, <2>9, <3>1 DEF Consistent, GoneFollowed
  <2>13. StateTyped' /\ Ordered'
    BY <1>1, <1>3 DEF PipelineInv, StateTyped, Ordered
  <2> QED BY <1>1, <1>2, <2>1, <2>4, <2>5, <2>6, <2>7, <2>10, <2>11, <2>12, <2>13
          DEF PipelineInv, Consistent, h, ev, rss
<1> QED BY <1>8, <1>9

-----------------------------------------------------------------------------
(* The writer: events                                                      *)

\* An event is accepted: what holds of the memory that has adopted its
\* generation, and of the events behind it.
LEMMA EventAccepted ==
    ASSUME PipelineInv, eventCh # <<>>, Accepts(Head(eventCh).gen)
    PROVE  LET e == Head(eventCh)
               h == Horizon(log, inf)
               m == Adopt(e.gen)
               le == LeftBy(e.gen)
               ev == Range(eventCh)
               t == Range(Tail(eventCh))
               rss == Range(resyncCh)
           IN  /\ WriterTyped(inf, m, store, lost, le)
               /\ Consistent(h, inf, ev, rss, m, store, lost, le)
               /\ m.gen = e.gen /\ Adopted(e.gen) = inf
               /\ e \in ev /\ e.uid \in UIDs /\ e.ver \in Versions /\ e.ver \in Nat
               /\ e.gen \in Generations /\ e.gen \in Nat \ {0} /\ e.gone \in BOOLEAN
               /\ \A rs \in rss : Admits(m, rs.gen) => e.ver <= rs.rev
               /\ m.retained.gen # None => e.ver <= m.retained.rev
<1> DEFINE e == Head(eventCh)
           h == Horizon(log, inf)
           m == Adopt(e.gen)
           le == LeftBy(e.gen)
           ev == Range(eventCh)
           rss == Range(resyncCh)
<1>1. e \in EventRec /\ e \in ev
  BY EventPops
<1>2. e.uid \in UIDs /\ e.ver \in Versions /\ e.ver \in Nat
      /\ e.gen \in Generations /\ e.gen \in Nat \ {0} /\ e.gone \in BOOLEAN
  BY <1>1, BoundFacts DEF EventRec
<1>3. e.gen <= nextGen
  BY <1>1 DEF PipelineInv, Consistent, EventsSound
<1>4. /\ WriterTyped(inf, m, store, lost, le)
      /\ Consistent(h, inf, ev, rss, m, store, lost, le)
      /\ m.gen = e.gen /\ Adopted(e.gen) = inf
  BY <1>2, <1>3, AdoptFacts
<1> HIDE DEF e, h, m, le, ev, rss
<1>5. ASSUME NEW rs \in rss, Admits(m, rs.gen) PROVE e.ver <= rs.rev
  <2>1. rs.gen \in Nat
    BY InvFacts, BoundFacts DEF ResyncRec, rss
  <2>2. e.gen <= rs.gen
    BY <1>2, <1>4, <1>5, <2>1 DEF Admits
  <2> QED BY <1>1, <1>4, <2>2 DEF Consistent, ResyncsSound
<1>6. ASSUME m.retained.gen # None PROVE e.ver <= m.retained.rev
  <2>1. m.retained.gen = e.gen
    BY <1>4, <1>6 DEF Consistent, GenerationsSound
  <2>2. e.gen <= m.retained.gen
    BY <1>2, <2>1
  <2> QED BY <1>1, <1>4, <1>6, <2>2 DEF Consistent, RetainedSound
<1> QED BY <1>1, <1>2, <1>4, <1>5, <1>6 DEF e, h, m, le, ev, rss

\* An Add or an Update: the batch holds the version it tells of.  It cannot
\* come after the Delete of the same object.
LEMMA TakeUpsertStep == ASSUME PipelineInv, TakeUpsert PROVE PipelineInv'
<1> DEFINE e == Head(eventCh)
           h == Horizon(log, inf)
           m == Adopt(e.gen)
           le == LeftBy(e.gen)
           ev == Range(eventCh)
           T == Tail(eventCh)
           t == Range(T)
           rss == Range(resyncCh)
           x == e.uid
           n == [m EXCEPT !.up[x] = e.ver]
<1>1. /\ eventCh # <<>> /\ Accepts(e.gen) /\ ~e.gone
      /\ w' = IF e.uid \in m.del THEN m ELSE n
      /\ inf' = Adopted(e.gen) /\ left' = le /\ eventCh' = T
      /\ UNCHANGED <<log, running, nextGen, resyncCh, removeCh, store, used, lost>>
  BY DEF TakeUpsert
<1>2. /\ T \in Seq(EventRec) /\ EventsOrdered(T) /\ ev = t \cup {e}
      /\ \A y \in t : y.uid = x => e.ver <= y.ver
  BY <1>1, EventPops
<1>3. /\ WriterTyped(inf, m, store, lost, le)
      /\ Consistent(h, inf, ev, rss, m, store, lost, le)
      /\ m.gen = e.gen /\ Adopted(e.gen) = inf
      /\ e \in ev /\ x \in UIDs /\ e.ver \in Versions /\ e.ver \in Nat /\ e.gen \in Nat \ {0}
      /\ \A rs \in rss : Admits(m, rs.gen) => e.ver <= rs.rev
      /\ m.retained.gen # None => e.ver <= m.retained.rev
  BY <1>1, EventAccepted
<1>4. /\ Chronicle(log) /\ Len(log) \in Nat /\ h \in 0 .. Len(log)
      /\ inf.cursor \in 0 .. Len(log) /\ (Informed(inf) => h = inf.cursor)
      /\ (\A y \in ev : y \in EventRec)
  BY InvFacts, BoundFacts DEF Horizon
<1> HIDE DEF e, h, m, le, ev, T, rss, x
<1>5. m \in MemoryRec
  BY <1>3 DEF WriterTyped
<1>6. /\ n \in MemoryRec /\ n.gen = m.gen /\ n.reported = m.reported /\ n.closed = m.closed
      /\ n.del = m.del /\ n.sent = m.sent /\ n.retained = m.retained
      /\ n.up[x] = e.ver /\ \A u \in UIDs : u # x => n.up[u] = m.up[u]
  BY <1>3, <1>5 DEF MemoryRec
<1>7. VersionOf(log, x, e.ver, h) /\ e.ver # None
  <2>1. VersionOf(log, x, e.ver, h)
    BY <1>1, <1>3 DEF Consistent, EventsSound, x
  <2> QED BY <1>3, <1>4, <2>1, BoundFacts DEF Chronicle
<1>8. /\ MemorySound(log, h, ev, rss, m, store)
      /\ x \notin m.del /\ m.sent[x] <= e.ver
  <2>1. MemorySound(log, h, ev, rss, m, store)
    BY <1>3 DEF Consistent
  <2> QED BY <1>1, <1>3, <2>1 DEF MemorySound, x
<1>9. w' = n
  BY <1>1, <1>8 DEF x
<1> HIDE DEF n, t
<1>10. WriterTyped(inf, n, store, lost, le)
  <2>1. n.gen # None
    BY <1>3, <1>6, BoundFacts
  <2> QED BY <1>3, <1>6, <1>8, <2>1 DEF WriterTyped, MemoryRec
<1>11. /\ EventsSound(log, h, nextGen, t)
       /\ ResyncsSound(h, running, nextGen, inf, t, rss)
       /\ GenerationsSound(running, nextGen, Range(removeCh), n)
       /\ InformerSound(log, running, inf, rss, n)
       /\ RowsKnown(n, store, lost, le)
  BY <1>2, <1>3, <1>6
     DEF Consistent, EventsSound, ResyncsSound, GenerationsSound, InformerSound, RowsKnown
<1>12. MemorySound(log, h, t, rss, n, store)
  <2>1. \A u \in UIDs : n.up[u] # None => VersionOf(log, u, n.up[u], h) /\ n.sent[u] <= n.up[u]
    BY <1>6, <1>7, <1>8 DEF MemorySound
  <2>2. \A y \in t : y.uid \in UIDs
    BY <1>2, <1>4 DEF EventRec
  <2>3. \A y \in t : n.up[y.uid] <= y.ver
    BY <1>2, <1>6, <1>8, <2>2 DEF MemorySound
  <2>4. \A rs \in rss : Admits(n, rs.gen) => Admits(m, rs.gen)
    BY <1>6 DEF Admits
  <2>5. \A rs \in rss : Admits(m, rs.gen) => \A u \in UIDs : n.up[u] <= rs.rev
    BY <1>3, <1>6, <1>8 DEF MemorySound
  <2> QED BY <1>2, <1>6, <1>8, <2>1, <2>3, <2>4, <2>5 DEF MemorySound
<1>13. RetainedSound(log, h, running, inf, t, rss, n)
  <2>1. RetainedSound(log, h, running, inf, ev, rss, m)
    BY <1>3 DEF Consistent
  <2>2. m.retained.gen # None => \A u \in UIDs : n.up[u] <= m.retained.rev
    BY <1>3, <1>6, <2>1 DEF RetainedSound
  <2> QED BY <1>2, <1>6, <2>1, <2>2 DEF RetainedSound
<1>14. Outstanding(running, rss, n) <=> Outstanding(running, rss, m)
  BY <1>6 DEF Outstanding
<1>15. \A u \in UIDs : u # x =>
          /\ Held(running, n, u) <=> Held(running, m, u)
          /\ Carried(running, t, u) <=> Carried(running, ev, u)
  BY <1>2, <1>6 DEF Held, Carried, x
<1>16. LiveFollowed(log, running, inf, t, rss, n, store, lost)
  <2>1. LiveFollowed(log, running, inf, ev, rss, m, store, lost)
    BY <1>3 DEF Consistent
  <2> SUFFICES ASSUME Informed(inf), NEW u \in UIDs, VersionAt(log, u, inf.cursor) # None
               PROVE
       /\ Carried(running, t, u) =>
             \E y \in t : y.gen = running /\ y.uid = u /\ y.ver = VersionAt(log, u, inf.cursor)
       /\ ~Carried(running, t, u) /\ Held(running, n, u) =>
             n.up[u] = VersionAt(log, u, inf.cursor)
       /\ (/\ ~Carried(running, t, u) /\ ~Held(running, n, u)
           /\ u \notin lost /\ VersionAt(log, u, inf.cursor) \notin Unreadable) =>
             store[u] = VersionAt(log, u, inf.cursor) \/ Outstanding(running, rss, n)
    BY DEF LiveFollowed
  <2> DEFINE v == VersionAt(log, u, inf.cursor)
  <2>2. /\ Carried(running, ev, u) => \E y \in ev : y.gen = running /\ y.uid = u /\ y.ver = v
        /\ ~Carried(running, ev, u) /\ Held(running, m, u) => m.up[u] = v
        /\ (/\ ~Carried(running, ev, u) /\ ~Held(running, m, u)
            /\ u \notin lost /\ v \notin Unreadable) =>
              store[u] = v \/ Outstanding(running, rss, m)
    BY <2>1 DEF LiveFollowed
  <2>3. v \in Nat /\ v <= h /\ ~GoneBy(log, u, h)
    BY <1>4 DEF Chronicle
  <2> HIDE DEF v
  <2>4. CASE u # x
    <3>1. n.up[u] = m.up[u]
      BY <1>6, <2>4
    <3>2. \A y \in ev : y.uid = u => y \in t
      BY <1>2, <2>4 DEF x
    <3> QED BY <1>2, <1>14, <1>15, <2>2, <2>4, <3>1, <3>2 DEF v
  <2>5. CASE u = x /\ e.gen # running
    <3>1. Carried(running, t, u) <=> Carried(running, ev, u)
      BY <1>2, <2>5 DEF Carried
    <3>2. ~Held(running, n, u) /\ ~Held(running, m, u)
      BY <1>3, <1>6, <2>5 DEF Held
    <3> QED BY <1>2, <1>14, <2>2, <2>5, <3>1, <3>2 DEF v
  <2>6. CASE u = x /\ e.gen = running
    <3>1. PICK y \in ev : y.gen = running /\ y.uid = u /\ y.ver = v
      <4>1. Carried(running, ev, u)
        BY <1>3, <2>6 DEF Carried, x
      <4> QED BY <2>2, <4>1
    <3>2. Held(running, n, u)
      BY <1>3, <1>6, <1>7, <2>6 DEF Held
    <3>3. CASE y \in t
      <4>1. Carried(running, t, u)
        BY <3>1, <3>3 DEF Carried
      <4> QED BY <3>1, <3>3, <4>1 DEF v
    <3>4. CASE y \notin t
      <4>1. e.ver = v
        BY <1>2, <3>1, <3>4
      <4>2. ASSUME NEW z \in t, z.gen = running, z.uid = u PROVE z.ver = v
        <5>1. z \in ev /\ z.ver \in Nat /\ z.gone \in BOOLEAN /\ v <= z.ver
          BY <1>2, <1>4, <2>6, <4>1, <4>2, BoundFacts DEF EventRec
        <5>2. ~z.gone
          <6>1. z.gone => z.ver <= h /\ GoneBy(log, u, z.ver)
            BY <1>3, <4>2, <5>1 DEF Consistent, EventsSound
          <6>2. z.ver <= h /\ GoneBy(log, u, z.ver) => GoneBy(log, u, h)
            BY <1>4, <5>1 DEF Chronicle
          <6> QED BY <2>3, <6>1, <6>2
        <5>3. VersionOf(log, u, z.ver, h)
          BY <1>3, <4>2, <5>1, <5>2 DEF Consistent, EventsSound
        <5>4. z.ver <= v
          BY <1>4, <2>3, <5>3 DEF Chronicle, v
        <5> QED BY <2>3, <5>1, <5>4
      <4>3. Carried(running, t, u) => \E z \in t : z.gen = running /\ z.uid = u /\ z.ver = v
        BY <4>2 DEF Carried
      <4>4. n.up[u] = v
        BY <1>6, <2>6, <4>1
      <4> QED BY <3>2, <4>3, <4>4 DEF v
    <3> QED BY <3>3, <3>4
  <2> QED BY <2>4, <2>5, <2>6
<1>17. GoneFollowed(log, running, inf, t, rss, n, store, lost, le)
  <2>1. GoneFollowed(log, running, inf, ev, rss, m, store, lost, le)
    BY <1>3 DEF Consistent
  <2>2. \A u \in UIDs : Shows(running, t, n, store, u) => Shows(running, ev, m, store, u)
    <3> SUFFICES ASSUME NEW u \in UIDs, Held(running, n, u)
                 PROVE  Shows(running, ev, m, store, u)
      BY <1>2 DEF Shows
    <3>1. CASE u = x
      BY <1>1, <1>3, <1>6, <3>1 DEF Held, Shows, x
    <3>2. CASE u # x
      BY <1>15, <3>2 DEF Shows
    <3> QED BY <3>1, <3>2
  <2>3. \A y \in ev : y.gone => y \in t
    BY <1>1, <1>2
  <2> QED BY <1>6, <1>14, <2>1, <2>2, <2>3 DEF GoneFollowed
<1>18. StateTyped' /\ Ordered' /\ WriterTyped(inf', w', store', lost', left')
  BY <1>1, <1>2, <1>3, <1>9, <1>10 DEF PipelineInv, StateTyped, Ordered
<1>19. Consistent(h, inf, t, rss, n, store, lost, le)
  BY <1>11, <1>12, <1>13, <1>16, <1>17 DEF Consistent
<1>20. Range(eventCh') = t /\ Range(resyncCh') = rss /\ Horizon(log', inf') = h
  BY <1>1, <1>3 DEF t, rss, h
<1> QED BY <1>1, <1>3, <1>9, <1>18, <1>19, <1>20 DEF PipelineInv, Consistent

\* A Delete: the object is gone, and no version of it is behind the Delete.
LEMMA TakeDeleteStep == ASSUME PipelineInv, TakeDelete PROVE PipelineInv'
<1> DEFINE e == Head(eventCh)
           h == Horizon(log, inf)
           m == Adopt(e.gen)
           le == LeftBy(e.gen)
           ev == Range(eventCh)
           T == Tail(eventCh)
           t == Range(T)
           rss == Range(resyncCh)
           x == e.uid
           n == [m EXCEPT !.del = @ \cup {x}, !.up[x] = None, !.sent[x] = None]
<1>1. /\ eventCh # <<>> /\ Accepts(e.gen) /\ e.gone /\ w' = n
      /\ inf' = Adopted(e.gen) /\ left' = le /\ eventCh' = T
      /\ UNCHANGED <<log, running, nextGen, resyncCh, removeCh, store, used, lost>>
  BY DEF TakeDelete
<1>2. /\ T \in Seq(EventRec) /\ EventsOrdered(T) /\ ev = t \cup {e}
      /\ \A y \in t : y.uid = x => e.ver <= y.ver
  BY <1>1, EventPops
<1>3. /\ WriterTyped(inf, m, store, lost, le)
      /\ Consistent(h, inf, ev, rss, m, store, lost, le)
      /\ m.gen = e.gen /\ Adopted(e.gen) = inf
      /\ e \in ev /\ x \in UIDs /\ e.ver \in Nat /\ e.gen \in Nat \ {0}
  BY <1>1, EventAccepted
<1>4. /\ Chronicle(log) /\ Len(log) \in Nat /\ h \in 0 .. Len(log)
      /\ inf.cursor \in 0 .. Len(log) /\ (Informed(inf) => h = inf.cursor)
      /\ (\A y \in ev : y \in EventRec) /\ (\A rs \in rss : rs \in ResyncRec)
  BY InvFacts, BoundFacts DEF Horizon
<1> HIDE DEF e, h, m, le, ev, T, t, rss, x
<1>5. m \in MemoryRec /\ None \in Versions /\ None = 0
  BY <1>3, BoundFacts DEF WriterTyped
<1>6. /\ n \in MemoryRec /\ n.gen = m.gen /\ n.reported = m.reported /\ n.closed = m.closed
      /\ n.del = m.del \cup {x} /\ n.retained = m.retained
      /\ n.up[x] = None /\ (\A u \in UIDs : u # x => n.up[u] = m.up[u])
      /\ n.sent[x] = None /\ \A u \in UIDs : u # x => n.sent[u] = m.sent[u]
  BY <1>3, <1>5 DEF MemoryRec
<1> HIDE DEF n
<1>7. e.ver \in 0 .. Len(log) /\ GoneBy(log, x, e.ver) /\ GoneBy(log, x, h)
  <2>1. e.ver <= h /\ GoneBy(log, x, e.ver)
    BY <1>1, <1>3 DEF Consistent, EventsSound, x
  <2>2. e.ver \in 0 .. Len(log)
    BY <1>3, <1>4, <2>1
  <2> QED BY <1>3, <1>4, <2>1, <2>2 DEF Chronicle
<1>8. MemorySound(log, h, ev, rss, m, store)
  BY <1>3 DEF Consistent
<1>9. ASSUME NEW y \in t, y.uid = x PROVE y.gone
  <2>1. y \in ev /\ y.ver \in Nat /\ y.gone \in BOOLEAN /\ e.ver <= y.ver
    BY <1>2, <1>4, <1>9, BoundFacts DEF EventRec
  <2>2. ~y.gone => VersionOf(log, x, y.ver, h)
    BY <1>3, <1>9, <2>1 DEF Consistent, EventsSound
  <2>3. VersionOf(log, x, y.ver, h) => y.ver < e.ver
    BY <1>3, <1>4, <1>7 DEF Chronicle
  <2> QED BY <1>3, <2>1, <2>2, <2>3
<1>10. WriterTyped(inf, n, store, lost, le)
  <2>1. n.gen # None
    BY <1>3, <1>5, <1>6
  <2>2. \A u \in n.del : n.up[u] = None
    BY <1>3, <1>5, <1>6 DEF WriterTyped, MemoryRec
  <2> QED BY <1>3, <1>6, <2>1, <2>2 DEF WriterTyped
<1>11. /\ EventsSound(log, h, nextGen, t)
       /\ ResyncsSound(h, running, nextGen, inf, t, rss)
       /\ GenerationsSound(running, nextGen, Range(removeCh), n)
       /\ InformerSound(log, running, inf, rss, n)
       /\ RowsKnown(n, store, lost, le)
  BY <1>2, <1>3, <1>6
     DEF Consistent, EventsSound, ResyncsSound, GenerationsSound, InformerSound, RowsKnown
<1>12. MemorySound(log, h, t, rss, n, store)
  <2>1. ASSUME NEW u \in UIDs
        PROVE  /\ n.up[u] # None => VersionOf(log, u, n.up[u], h) /\ n.sent[u] <= n.up[u]
               /\ n.sent[u] # None => /\ VersionOf(log, u, n.sent[u], h)
                                      /\ n.sent[u] <= store[u] \/ GoneBy(log, u, h)
               /\ store[u] # None => VersionOf(log, u, store[u], h)
               /\ u \in n.del => GoneBy(log, u, h)
               /\ u \in n.reported => SeenBy(log, u, h)
    BY <1>6, <1>7, <1>8 DEF MemorySound
  <2>2. ASSUME NEW y \in t
        PROVE  /\ n.up[y.uid] <= y.ver /\ n.sent[y.uid] <= y.ver
               /\ y.uid \in n.del => y.gone
    <3>1. y \in ev /\ y.uid \in UIDs /\ y.ver \in Nat
      BY <1>2, <1>4, BoundFacts DEF EventRec
    <3> QED BY <1>5, <1>6, <1>8, <1>9, <3>1 DEF MemorySound
  <2>3. ASSUME NEW rs \in rss, Admits(n, rs.gen), NEW u \in UIDs
        PROVE  /\ n.up[u] <= rs.rev /\ n.sent[u] <= rs.rev
               /\ u \in n.reported => SeenBy(log, u, rs.rev)
    <3>1. rs.rev \in Nat /\ Admits(m, rs.gen)
      BY <1>4, <1>6, <2>3, BoundFacts DEF ResyncRec, Admits
    <3> QED BY <1>5, <1>6, <1>8, <3>1 DEF MemorySound
  <2> QED BY <2>1, <2>2, <2>3 DEF MemorySound
<1>13. RetainedSound(log, h, running, inf, t, rss, n)
  <2>1. RetainedSound(log, h, running, inf, ev, rss, m)
    BY <1>3 DEF Consistent
  <2>2. m.retained.gen # None =>
           \A u \in UIDs : n.up[u] <= m.retained.rev /\ n.sent[u] <= m.retained.rev
    <3>1. m.retained.rev \in Nat
      BY <1>5, BoundFacts DEF MemoryRec, RetainedRec
    <3> QED BY <1>5, <1>6, <2>1, <3>1 DEF RetainedSound
  <2> QED BY <1>2, <1>6, <2>1, <2>2 DEF RetainedSound
<1>14. Outstanding(running, rss, n) <=> Outstanding(running, rss, m)
  BY <1>6 DEF Outstanding
<1>15. \A u \in UIDs : u # x =>
          /\ Held(running, n, u) <=> Held(running, m, u)
          /\ Carried(running, t, u) <=> Carried(running, ev, u)
          /\ Shows(running, t, n, store, u) => Shows(running, ev, m, store, u)
  BY <1>2, <1>6 DEF Held, Carried, Shows, x
<1>16. \A y \in ev : y.uid # x => y \in t
  BY <1>2 DEF x
<1>17. LiveFollowed(log, running, inf, t, rss, n, store, lost)
  <2>1. LiveFollowed(log, running, inf, ev, rss, m, store, lost)
    BY <1>3 DEF Consistent
  <2>2. Informed(inf) => VersionAt(log, x, inf.cursor) = None
    BY <1>3, <1>4, <1>7 DEF Chronicle
  <2> QED BY <1>2, <1>6, <1>14, <1>15, <1>16, <2>1, <2>2 DEF LiveFollowed
<1>18. GoneFollowed(log, running, inf, t, rss, n, store, lost, le)
  <2>1. GoneFollowed(log, running, inf, ev, rss, m, store, lost, le)
    BY <1>3 DEF Consistent
  <2> QED BY <1>6, <1>14, <1>15, <1>16, <2>1 DEF GoneFollowed
<1>19. StateTyped' /\ Ordered' /\ WriterTyped(inf', w', store', lost', left')
  BY <1>1, <1>2, <1>3, <1>10 DEF PipelineInv, StateTyped, Ordered
<1>20. Consistent(h, inf, t, rss, n, store, lost, le)
  BY <1>11, <1>12, <1>13, <1>17, <1>18 DEF Consistent
<1>21. Range(eventCh') = t /\ Range(resyncCh') = rss /\ Horizon(log', inf') = h
  BY <1>1, <1>3 DEF t, rss, h
<1> QED BY <1>1, <1>3, <1>19, <1>20, <1>21 DEF PipelineInv, Consistent

-----------------------------------------------------------------------------
(* The writer: the batch of a LIST, retained, written and acknowledged.    *)
(* The steps are taken one after the other on a memory m, an inventory s   *)
(* and an informer f that waits; R is what is left of the LIST channel.    *)

\* What the batch of a LIST makes of a row.
LEMMA ResyncRows ==
    ASSUME PipelineInv, NEW p \in RetainedRec, p.rev <= Len(log), NEW s \in [UIDs -> Versions]
    PROVE  /\ ResyncStore(p, s) \in [UIDs -> Versions]
           /\ \A u \in UIDs :
                 LET v == VersionAt(log, u, p.rev)
                 IN  /\ v \notin Unreadable \cup {None} => ResyncStore(p, s)[u] = v
                     /\ v \in Unreadable \cup {None} /\ u \in p.stale => ResyncStore(p, s)[u] = None
                     /\ v \in Unreadable \cup {None} /\ u \notin p.stale => ResyncStore(p, s)[u] = s[u]
<1> DEFINE V(u) == VersionAt(log, u, p.rev)
           s2 == ResyncStore(p, s)
<1>1. Chronicle(log) /\ Len(log) \in 0 .. MaxChanges /\ p.rev \in 0 .. Len(log)
  BY InvFacts, BoundFacts DEF RetainedRec
<1>2. \A u \in UIDs : V(u) \in Versions
  <2> TAKE u \in UIDs
  <2>1. V(u) \in 0 .. p.rev
    BY <1>1 DEF Chronicle
  <2> QED BY <1>1, <2>1, BoundFacts
<1>3. \A u \in UIDs : u \in Readable(p.rev) <=> V(u) \notin Unreadable \cup {None}
  BY DEF Readable, Live, At
<1>4. s2 = [u \in UIDs |-> IF u \in Readable(p.rev) THEN V(u)
                           ELSE IF u \in p.stale THEN None ELSE s[u]]
  BY DEF ResyncStore, At
<1> HIDE DEF V, s2
<1>5. s2 \in [UIDs -> Versions]
  BY <1>2, <1>4, BoundFacts
<1>6. \A u \in UIDs : s2[u] = IF V(u) \notin Unreadable \cup {None} THEN V(u)
                              ELSE IF u \in p.stale THEN None ELSE s[u]
  BY <1>3, <1>4
<1> QED BY <1>5, <1>6 DEF V, s2

\* While a LIST is retained, the informer that waits is owed an answer.
LEMMA OwedAnswer ==
    ASSUME NEW f, NEW m, NEW R, m.retained.gen # None,
           GenerationsSound(running, nextGen, Range(removeCh), m),
           InformerSound(log, running, f, R, m)
    PROVE  Informed(f) => Outstanding(running, R, m)
BY DEF GenerationsSound, InformerSound, Outstanding

\* The batch is written, although the writer may not know it.
LEMMA ListWritten ==
    ASSUME PipelineInv, NEW m, NEW s, NEW lo, NEW le, NEW R,
           WriterTyped(inf, m, s, lo, le), \A rs \in R : rs \in ResyncRec,
           Consistent(Horizon(log, inf), inf, Range(eventCh), R, m, s, lo, le),
           m.retained.gen # None
    PROVE  LET s2 == ResyncStore(m.retained, s)
           IN  /\ WriterTyped(inf, m, s2, lo, le)
               /\ Consistent(Horizon(log, inf), inf, Range(eventCh), R, m, s2, lo, le)
               /\ \A u \in UIDs : VersionAt(log, u, m.retained.rev) \notin Unreadable \cup {None} =>
                                     s2[u] = VersionAt(log, u, m.retained.rev)
               /\ \A u \in UIDs : s[u] # None /\ s2[u] = None => GoneBy(log, u, Horizon(log, inf))
<1> DEFINE h == Horizon(log, inf)
           ev == Range(eventCh)
           p == m.retained
           n == p.rev
           s2 == ResyncStore(p, s)
<1>1. /\ Chronicle(log) /\ Len(log) \in Nat /\ h \in 0 .. Len(log)
  BY InvFacts, BoundFacts
<1>2. /\ m \in MemoryRec /\ p \in RetainedRec /\ n \in Nat /\ s \in [UIDs -> Versions]
      /\ Consistent(h, inf, ev, R, m, s, lo, le)
  BY BoundFacts DEF WriterTyped, MemoryRec, RetainedRec
<1> HIDE DEF h, ev
<1>3. RetainedSound(log, h, running, inf, ev, R, m) /\ n <= h /\ n \in 0 .. Len(log) /\ n <= Len(log)
  BY <1>1, <1>2 DEF Consistent, RetainedSound
<1>4. /\ s2 \in [UIDs -> Versions]
      /\ \A u \in UIDs :
            /\ VersionAt(log, u, n) \notin Unreadable \cup {None} => s2[u] = VersionAt(log, u, n)
            /\ VersionAt(log, u, n) \in Unreadable \cup {None} /\ u \in p.stale => s2[u] = None
            /\ VersionAt(log, u, n) \in Unreadable \cup {None} /\ u \notin p.stale => s2[u] = s[u]
  BY <1>2, <1>3, ResyncRows
<1> HIDE DEF s2
<1>5. Informed(inf) => Outstanding(running, R, m)
  BY <1>2, OwedAnswer DEF Consistent
<1>6. \A u \in UIDs : u \in p.stale => GoneBy(log, u, h)
  <2> TAKE u \in UIDs
  <2>1. u \in p.stale => GoneBy(log, u, n)
    BY <1>3 DEF RetainedSound
  <2> QED BY <1>1, <1>3, <2>1 DEF Chronicle
<1>7. MemorySound(log, h, ev, R, m, s2)
  <2>0. MemorySound(log, h, ev, R, m, s)
    BY <1>2 DEF Consistent
  <2>1. ASSUME NEW u \in UIDs
        PROVE  /\ m.sent[u] # None => m.sent[u] <= s2[u] \/ GoneBy(log, u, h)
               /\ s2[u] # None => VersionOf(log, u, s2[u], h)
    <3>1. CASE VersionAt(log, u, n) \notin Unreadable \cup {None}
      <4> DEFINE v == VersionAt(log, u, n)
      <4>1. s2[u] = v /\ v # None
        BY <1>4, <3>1
      <4>2. VersionOf(log, u, v, n) /\ v \in 0 .. n
        BY <1>1, <1>3, <4>1 DEF Chronicle
      <4>3. VersionOf(log, u, v, h)
        BY <1>1, <1>3, <4>2 DEF Chronicle
      <4>4. m.sent[u] <= n
        BY <1>3 DEF RetainedSound
      <4>5. m.sent[u] # None => VersionOf(log, u, m.sent[u], h)
        BY <2>0 DEF MemorySound
      <4>6. m.sent[u] # None => VersionOf(log, u, m.sent[u], n)
        BY <1>1, <1>3, <4>4, <4>5 DEF Chronicle
      <4>7. m.sent[u] # None => GoneBy(log, u, n) \/ m.sent[u] <= v
        BY <1>1, <1>3, <4>6 DEF Chronicle
      <4>8. GoneBy(log, u, n) => GoneBy(log, u, h)
        BY <1>1, <1>3 DEF Chronicle
      <4> QED BY <4>1, <4>3, <4>7, <4>8
    <3>2. CASE VersionAt(log, u, n) \in Unreadable \cup {None} /\ u \in p.stale
      BY <1>4, <1>6, <3>2
    <3>3. CASE VersionAt(log, u, n) \in Unreadable \cup {None} /\ u \notin p.stale
      BY <1>4, <2>0, <3>3 DEF MemorySound
    <3> QED BY <3>1, <3>2, <3>3
  <2> QED BY <2>0, <2>1 DEF MemorySound
<1>8. /\ LiveFollowed(log, running, inf, ev, R, m, s2, lo)
      /\ GoneFollowed(log, running, inf, ev, R, m, s2, lo, le)
  BY <1>2, <1>5 DEF Consistent, LiveFollowed, GoneFollowed
<1>9. RowsKnown(m, s2, lo, le)
  <2> SUFFICES ASSUME NEW u \in UIDs, s2[u] # None
               PROVE  u \in m.reported \cup le \cup lo \/ u \in p.names
    BY DEF RowsKnown
  <2>1. CASE VersionAt(log, u, n) \notin Unreadable \cup {None}
    BY <1>3, <2>1 DEF RetainedSound
  <2>2. CASE VersionAt(log, u, n) \in Unreadable \cup {None}
    <3>1. s[u] # None
      BY <1>4, <2>2
    <3> QED BY <1>2, <3>1 DEF Consistent, RowsKnown
  <2> QED BY <2>1, <2>2
<1>10. ASSUME NEW u \in UIDs, s[u] # None, s2[u] = None PROVE GoneBy(log, u, h)
  BY <1>4, <1>6, <1>10
<1>11. WriterTyped(inf, m, s2, lo, le)
  BY <1>4 DEF WriterTyped
<1>12. Consistent(h, inf, ev, R, m, s2, lo, le)
  BY <1>2, <1>7, <1>8, <1>9 DEF Consistent
<1> QED BY <1>4, <1>10, <1>11, <1>12 DEF h, ev, s2

\* The answer to a LIST: nothing else of the informer changes.
LEMMA AckFacts ==
    ASSUME NEW f \in InfRec, NEW g, NEW a \in {"none", "ok", "nack"}
    PROVE  /\ Ack(f, g, a) \in InfRec /\ Ack(f, g, a).pc = f.pc
           /\ Ack(f, g, a).cursor = f.cursor
           /\ Informed(Ack(f, g, a)) <=> Informed(f)
           /\ \A l : Horizon(l, Ack(f, g, a)) = Horizon(l, f)
           /\ g = running /\ g # None => Ack(f, g, a).ack = a
           /\ g # running \/ g = None => Ack(f, g, a) = f
<1>1. /\ Ack(f, g, a) \in InfRec /\ Ack(f, g, a).pc = f.pc
      /\ Ack(f, g, a).cursor = f.cursor
      /\ g = running /\ g # None => Ack(f, g, a).ack = a
      /\ g # running \/ g = None => Ack(f, g, a) = f
  BY DEF Ack, InfRec
<1> QED BY <1>1 DEF Informed, Horizon

\* The batch is acknowledged: the names are those of the LIST, and a row that
\* it does not account for is one of the exceptions.
LEMMA ListCommitted ==
    ASSUME PipelineInv, NEW m, NEW s, NEW lo, NEW le, NEW R,
           WriterTyped(inf, m, s, lo, le), \A rs \in R : rs \in ResyncRec,
           Consistent(Horizon(log, inf), inf, Range(eventCh), R, m, s, lo, le),
           m.retained.gen # None,
           \A u \in UIDs : VersionAt(log, u, m.retained.rev) \notin Unreadable \cup {None} =>
                              s[u] = VersionAt(log, u, m.retained.rev)
    PROVE  LET f == Ack(inf, m.retained.gen, "ok")
               n == Resynced(m, m.retained)
               after == LeftAfter(m.retained, m, le \cup lo, s)
           IN  /\ WriterTyped(f, n, s, {}, after)
               /\ Consistent(Horizon(log, inf), f, Range(eventCh), R, n, s, {}, after)
<1> DEFINE h == Horizon(log, inf)
           ev == Range(eventCh)
           p == m.retained
           f == Ack(inf, p.gen, "ok")
           n == Resynced(m, p)
           after == LeftAfter(p, m, le \cup lo, s)
<1>1. /\ Chronicle(log) /\ Len(log) \in Nat /\ h \in 0 .. Len(log) /\ inf \in InfRec
      /\ (Informed(inf) => h = inf.cursor /\ running # None)
      /\ (\A e \in ev : e \in EventRec)
  BY InvFacts, BoundFacts DEF Horizon, Informed
<1>2. /\ m \in MemoryRec /\ p \in RetainedRec /\ p.rev \in Nat /\ p.gen \in Nat \ {0}
      /\ s \in [UIDs -> Versions] /\ lo \in SUBSET UIDs /\ le \in SUBSET UIDs
      /\ p.names \in SUBSET UIDs /\ m.reported \in SUBSET UIDs
      /\ Consistent(h, inf, ev, R, m, s, lo, le)
  BY BoundFacts DEF WriterTyped, MemoryRec, RetainedRec
<1>3. /\ after \in SUBSET UIDs
      /\ \A u \in UIDs : u \notin after =>
            /\ VersionAt(log, u, p.rev) = None =>
                  m.up[u] = None /\ \A e \in ev : e.uid = u => e.gone
            /\ u \in (le \cup lo \cup m.reported) \ p.names => s[u] = None
  <2>1. after \in SUBSET UIDs
    BY <1>2 DEF LeftAfter, Overtaken
  <2>2. ASSUME NEW u \in UIDs, u \notin after, VersionAt(log, u, p.rev) = None
        PROVE  m.up[u] = None /\ \A e \in ev : e.uid = u => e.gone
    <3>1. u \in UIDs \ Live(p.rev)
      BY <2>2 DEF Live, At
    <3>2. m.up[u] = None /\ ~\E i \in DOMAIN eventCh : eventCh[i].uid = u /\ ~eventCh[i].gone
      BY <2>2, <3>1 DEF LeftAfter, Overtaken
    <3> QED BY <3>2 DEF Range
  <2>3. ASSUME NEW u \in UIDs, u \notin after, u \in (le \cup lo \cup m.reported) \ p.names
        PROVE  s[u] = None
    BY <2>3 DEF LeftAfter
  <2> QED BY <2>1, <2>2, <2>3
<1>4. /\ f \in InfRec /\ f.pc = inf.pc /\ f.cursor = inf.cursor /\ (Informed(f) <=> Informed(inf))
      /\ (p.gen # running => f = inf)
  BY <1>1, AckFacts
<1>5. NoResync \in RetainedRec /\ NoResync.gen = None
  BY NoMemoryFacts
<1>6. /\ n \in MemoryRec /\ n.gen = m.gen /\ n.reported = p.names /\ n.retained = NoResync
      /\ n.up = m.up /\ n.del = m.del /\ n.sent = m.sent /\ n.closed = m.closed
  <2> DEFINE N == p.names
             Z == NoResync
  <2>1. n = [m EXCEPT !.reported = N, !.retained = Z] /\ N \in SUBSET UIDs /\ Z \in RetainedRec
    BY <1>2, <1>5 DEF Resynced
  <2> HIDE DEF N, Z, n
  <2>2. /\ n \in MemoryRec /\ n.gen = m.gen /\ n.reported = N /\ n.retained = Z
        /\ n.up = m.up /\ n.del = m.del /\ n.sent = m.sent /\ n.closed = m.closed
    BY <1>2, <2>1 DEF MemoryRec
  <2> QED BY <2>2 DEF N, Z
<1> HIDE DEF h, ev, f, n, after
<1>7. /\ RetainedSound(log, h, running, inf, ev, R, m) /\ p.rev <= h /\ p.rev \in 0 .. Len(log)
      /\ m.gen = p.gen
  BY <1>1, <1>2 DEF Consistent, RetainedSound, GenerationsSound
<1>8. WriterTyped(f, n, s, {}, after)
  <2>1. n.gen # None
    BY <1>6, <1>7
  <2>2. \A u \in n.del : n.up[u] = None
    BY <1>6 DEF WriterTyped
  <2> QED BY <1>2, <1>3, <1>4, <1>6, <2>1, <2>2 DEF WriterTyped
<1>9. \A rs \in R : p.gen < rs.gen /\ p.rev <= rs.rev /\ rs.rev \in 0 .. Len(log)
  <2> TAKE rs \in R
  <2>1. p.gen < rs.gen /\ p.rev <= rs.rev
    BY <1>7 DEF RetainedSound
  <2>2. rs.rev \in Nat /\ rs.rev <= h
    BY <1>2, BoundFacts DEF ResyncRec, Consistent, ResyncsSound
  <2> QED BY <1>1, <2>1, <2>2
<1>10. ResyncsSound(h, running, nextGen, f, ev, R)
  <2>1. \A rs \in R : rs.gen = running => f = inf
    <3> TAKE rs \in R
    <3>1. rs.gen \in Nat /\ p.gen < rs.gen
      BY <1>9, BoundFacts DEF ResyncRec
    <3> QED BY <1>2, <1>4, <3>1
  <2> QED BY <1>2, <2>1 DEF Consistent, ResyncsSound
<1>11. \A u \in UIDs : u \in p.names =>
          /\ SeenBy(log, u, h)
          /\ \A k \in 0 .. Len(log) : p.rev <= k => SeenBy(log, u, k)
  <2> SUFFICES ASSUME NEW u \in UIDs, u \in p.names, NEW k \in 0 .. Len(log), p.rev <= k
               PROVE  SeenBy(log, u, k)
    BY <1>1, <1>7
  <2> DEFINE v == VersionAt(log, u, p.rev)
  <2>1. v # None
    BY <1>7 DEF RetainedSound
  <2>2. VersionOf(log, u, v, p.rev) /\ v \in 0 .. p.rev
    BY <1>1, <1>7, <2>1 DEF Chronicle
  <2>3. v <= k
    BY <1>2, <2>2
  <2> QED BY <1>1, <1>7, <2>2, <2>3 DEF Chronicle
<1>12. MemorySound(log, h, ev, R, n, s)
  <2>1. MemorySound(log, h, ev, R, m, s)
    BY <1>2 DEF Consistent
  <2>2. \A rs \in R : Admits(n, rs.gen) => Admits(m, rs.gen)
    BY <1>6 DEF Admits
  <2>3. \A rs \in R : \A u \in UIDs : u \in n.reported => SeenBy(log, u, rs.rev)
    BY <1>6, <1>9, <1>11
  <2>4. \A u \in UIDs : u \in n.reported => SeenBy(log, u, h)
    BY <1>6, <1>11
  <2> QED BY <1>6, <2>1, <2>2, <2>3, <2>4 DEF MemorySound
<1>13. GenerationsSound(running, nextGen, Range(removeCh), n)
  BY <1>2, <1>5, <1>6 DEF Consistent, GenerationsSound
<1>14. RetainedSound(log, h, running, f, ev, R, n)
  BY <1>5, <1>6 DEF RetainedSound
<1>15. InformerSound(log, running, f, R, n)
  <2>1. p.gen = running => inf.pc = "ack"
    BY <1>7, <1>2 DEF RetainedSound, Waits
  <2>2. InformerSound(log, running, inf, R, m)
    BY <1>2 DEF Consistent
  <2> QED BY <1>4, <1>6, <2>1, <2>2 DEF InformerSound
<1>16. Informed(inf) => \/ Listed(running, R)
                        \/ p.gen = running /\ p.rev = inf.cursor
  BY <1>2, <1>7 DEF Consistent, InformerSound, RetainedSound, Waits
<1>17. \A u \in UIDs : Held(running, n, u) <=> Held(running, m, u)
  BY <1>6 DEF Held
<1>18. LiveFollowed(log, running, f, ev, R, n, s, {})
  <2>1. LiveFollowed(log, running, inf, ev, R, m, s, lo)
    BY <1>2 DEF Consistent
  <2>2. Listed(running, R) => Outstanding(running, R, n)
    BY DEF Outstanding
  <2>3. ASSUME NEW u \in UIDs, p.rev = inf.cursor, VersionAt(log, u, inf.cursor) # None,
               VersionAt(log, u, inf.cursor) \notin Unreadable
        PROVE  s[u] = VersionAt(log, u, inf.cursor)
    BY <2>3
  <2> QED BY <1>4, <1>6, <1>16, <1>17, <2>1, <2>2, <2>3 DEF LiveFollowed
<1>19. RowsKnown(n, s, {}, after)
  <2> SUFFICES ASSUME NEW u \in UIDs, s[u] # None PROVE u \in n.reported \cup after
    BY DEF RowsKnown
  <2>1. u \in m.reported \cup le \cup lo \/ u \in p.names
    BY <1>2 DEF Consistent, RowsKnown
  <2> QED BY <1>3, <1>6, <2>1
<1>20. GoneFollowed(log, running, f, ev, R, n, s, {}, after)
  <2> SUFFICES ASSUME Informed(inf), NEW u \in UIDs \ after,
                      VersionAt(log, u, inf.cursor) = None,
                      Shows(running, ev, n, s, u)
               PROVE  Listed(running, R)
    BY <1>4 DEF GoneFollowed, Outstanding
  <2> SUFFICES ASSUME p.rev = inf.cursor PROVE FALSE
    BY <1>16
  <2>1. m.up[u] = None /\ \A e \in ev : e.uid = u => e.gone
    BY <1>3
  <2>2. s[u] # None
    BY <1>6, <2>1 DEF Shows, Held
  <2>3. u \in p.names
    BY <1>6, <1>19, <2>2, <1>5 DEF RowsKnown
  <2> QED BY <1>7, <2>3, <1>2 DEF RetainedSound
<1>21. Consistent(h, f, ev, R, n, s, {}, after)
  BY <1>2, <1>10, <1>12, <1>13, <1>14, <1>15, <1>18, <1>19, <1>20 DEF Consistent
<1> QED BY <1>8, <1>21 DEF h, ev, f, n, after

\* The failures of the batches count against the bound.
LEMMA ChargeFacts ==
    ASSUME used \in UsedRec, NEW rs \in Seq(Results), NEW k \in Nat, Charge(rs, k)
    PROVE  used' \in UsedRec
<1> DEFINE S == {i \in DOMAIN rs : Failed(rs[i])}
           c == Cardinality(S)
           x == used.failures + c
           y == used.restarts + k
<1>1. IsFiniteSet(S)
  <2>1. DOMAIN rs = 1 .. Len(rs) /\ Len(rs) \in Nat
    OBVIOUS
  <2>2. IsFiniteSet(1 .. Len(rs))
    BY <2>1, FS_Interval
  <2> QED BY <2>1, <2>2, FS_Subset
<1>2. c \in Nat
  BY <1>1, FS_CardinalityType
<1>3. x <= MaxFailures /\ y <= MaxRestarts
      /\ used' = [used EXCEPT !.failures = x, !.restarts = y]
  BY DEF Charge
<1> HIDE DEF c, S
<1>4. used.failures \in Nat /\ used.restarts \in Nat
  BY BoundFacts DEF UsedRec
<1>5. x \in 0 .. MaxFailures /\ y \in 0 .. MaxRestarts
  BY <1>2, <1>3, <1>4, BoundFacts
<1> HIDE DEF x, y
<1> QED BY <1>3, <1>5 DEF UsedRec

\* A LIST of an accepted generation takes the place of a retained one, which
\* there is none of: an informer lists again only after it is answered.
LEMMA ListRetained ==
    ASSUME PipelineInv, resyncCh # <<>>, Accepts(Head(resyncCh).gen)
    PROVE  LET rs == Head(resyncCh)
               m == Adopt(rs.gen)
               p == ResyncOf(m, rs.gen, rs.rev)
               n == [m EXCEPT !.retained = p]
               R == Range(Tail(resyncCh))
           IN  /\ Adopted(rs.gen) = inf /\ m.retained.gen = None
               /\ m \in MemoryRec /\ n.retained = p /\ p.gen = rs.gen /\ p.gen # None
               /\ n.up = m.up /\ n.reported = m.reported
               /\ Resynced(n, p) = Resynced(m, p)
               /\ \A le \in SUBSET UIDs : LeftBy(rs.gen) \subseteq le =>
                     /\ WriterTyped(inf, n, store, lost, le)
                     /\ Consistent(Horizon(log, inf), inf, Range(eventCh), R, n, store, lost, le)
<1> DEFINE rs == Head(resyncCh)
           g == rs.gen
           k == rs.rev
           h == Horizon(log, inf)
           m == Adopt(g)
           lb == LeftBy(g)
           ev == Range(eventCh)
           R == Range(Tail(resyncCh))
           rss == Range(resyncCh)
           p == ResyncOf(m, g, k)
           n == [m EXCEPT !.retained = p]
<1>1. rs \in ResyncRec /\ rs \in rss /\ rss = R \cup {rs}
      /\ \A x \in R : g < x.gen /\ k <= x.rev
  BY ResyncPops
<1>2. g \in Generations /\ g \in Nat \ {0} /\ k \in Nat /\ k \in Versions
  BY <1>1, BoundFacts DEF ResyncRec
<1>3. g <= nextGen
  BY <1>1 DEF PipelineInv, Consistent, ResyncsSound
<1>4. /\ WriterTyped(inf, m, store, lost, lb)
      /\ Consistent(h, inf, ev, rss, m, store, lost, lb)
      /\ m.gen = g /\ Admits(m, g) /\ Adopted(g) = inf
  BY <1>2, <1>3, AdoptFacts
<1>5. /\ Chronicle(log) /\ Len(log) \in Nat /\ h \in 0 .. Len(log)
      /\ (\A x \in rss : x \in ResyncRec)
  BY InvFacts, BoundFacts
<1>6. m \in MemoryRec /\ m.reported \in SUBSET UIDs
  BY <1>4 DEF WriterTyped, MemoryRec
<1>7. /\ p.gen = g /\ p.rev = k /\ p.stale = m.reported \ Live(k)
      /\ p.names = Readable(k) \cup (m.reported \cap Live(k))
      /\ p \in RetainedRec
  <2>1. Readable(k) \in SUBSET UIDs
    BY DEF Readable, Live
  <2> QED BY <1>2, <1>6, <2>1 DEF ResyncOf, RetainedRec
<1> HIDE DEF rs, g, k, h, m, lb, ev, R, rss, p
<1>8. /\ n \in MemoryRec /\ n.retained = p /\ n.gen = m.gen /\ n.reported = m.reported
      /\ n.closed = m.closed /\ n.up = m.up /\ n.del = m.del /\ n.sent = m.sent
  BY <1>6, <1>7 DEF MemoryRec
<1>9. Resynced(n, p) = Resynced(m, p)
  <2> DEFINE N == p.names
             Z == NoResync
  <2>1. Resynced(n, p) = [n EXCEPT !.reported = N, !.retained = Z]
        /\ Resynced(m, p) = [m EXCEPT !.reported = N, !.retained = Z]
    BY DEF Resynced
  <2> HIDE DEF N, Z
  <2> QED BY <1>6, <1>7, <2>1 DEF MemoryRec
<1> HIDE DEF n
<1>10. m.retained.gen = None
  <2>1. m.retained.gen # None => m.retained.gen < g
    BY <1>1, <1>4 DEF Consistent, RetainedSound, g
  <2>2. m.retained.gen \in {None, g}
    BY <1>4 DEF Consistent, GenerationsSound
  <2> QED BY <1>2, <2>1, <2>2
<1>11. k <= h /\ k \in 0 .. Len(log) /\ (g = running => Waits(inf, k))
       /\ \A e \in ev : e.gen <= g => e.ver <= k
  BY <1>1, <1>2, <1>4, <1>5 DEF Consistent, ResyncsSound, g, k
<1>12. \A u \in UIDs : m.up[u] <= k /\ m.sent[u] <= k /\ (u \in m.reported => SeenBy(log, u, k))
  BY <1>1, <1>4 DEF Consistent, MemorySound, g, k
<1>13. RetainedSound(log, h, running, inf, ev, R, n)
  <2>1. ASSUME NEW u \in UIDs
        PROVE  /\ u \in p.stale => GoneBy(log, u, k)
               /\ u \in p.names => VersionAt(log, u, k) # None
               /\ VersionAt(log, u, k) \notin Unreadable \cup {None} => u \in p.names
    <3>1. u \in Live(k) <=> VersionAt(log, u, k) # None
      BY DEF Live, At
    <3>2. u \in Readable(k) <=> VersionAt(log, u, k) \notin Unreadable \cup {None}
      BY <3>1 DEF Readable, At
    <3>3. SeenBy(log, u, k) => GoneBy(log, u, k) \/ VersionAt(log, u, k) # None
      BY <1>5, <1>11 DEF Chronicle
    <3> QED BY <1>7, <1>12, <3>1, <3>2, <3>3
  <2> QED BY <1>1, <1>7, <1>8, <1>11, <1>12, <2>1 DEF RetainedSound
<1>14. /\ EventsSound(log, h, nextGen, ev)
       /\ ResyncsSound(h, running, nextGen, inf, ev, R)
  BY <1>1, <1>4 DEF Consistent, ResyncsSound
<1>15. GenerationsSound(running, nextGen, Range(removeCh), n)
  BY <1>4, <1>7, <1>8 DEF Consistent, GenerationsSound
<1>16. MemorySound(log, h, ev, R, n, store)
  <2>1. \A x \in R : Admits(n, x.gen) <=> Admits(m, x.gen)
    BY <1>8 DEF Admits
  <2>2. MemorySound(log, h, ev, rss, m, store)
    BY <1>4 DEF Consistent
  <2> QED BY <1>1, <1>8, <2>1, <2>2 DEF MemorySound
<1>17. InformerSound(log, running, inf, R, n)
  <2>1. InformerSound(log, running, inf, rss, m)
    BY <1>4 DEF Consistent
  <2>2. Listed(running, rss) => m.gen = running \/ Listed(running, R)
    BY <1>1, <1>4 DEF Listed, g
  <2> QED BY <1>8, <2>1, <2>2 DEF InformerSound
<1>18. Informed(inf) => Outstanding(running, R, n)
  BY <1>7, <1>8, <1>15, <1>17, <1>2, BoundFacts, OwedAnswer
<1>19. \A u \in UIDs : Held(running, n, u) <=> Held(running, m, u)
  BY <1>8 DEF Held
<1>20. LiveFollowed(log, running, inf, ev, R, n, store, lost)
  BY <1>4, <1>8, <1>18, <1>19 DEF Consistent, LiveFollowed
<1>21. ASSUME NEW le \in SUBSET UIDs, lb \subseteq le
       PROVE  /\ WriterTyped(inf, n, store, lost, le)
              /\ Consistent(h, inf, ev, R, n, store, lost, le)
  <2>1. n.gen # None
    BY <1>2, <1>4, <1>8, BoundFacts
  <2>2. WriterTyped(inf, n, store, lost, le)
    BY <1>4, <1>8, <2>1 DEF WriterTyped
  <2>3. RowsKnown(n, store, lost, le)
    BY <1>4, <1>8, <1>10, <1>21 DEF Consistent, RowsKnown
  <2>4. GoneFollowed(log, running, inf, ev, R, n, store, lost, le)
    BY <1>18 DEF GoneFollowed
  <2> QED BY <1>13, <1>14, <1>15, <1>16, <1>17, <1>20, <2>2, <2>3, <2>4 DEF Consistent
<1>22. p.gen # None
  BY <1>2, <1>7, BoundFacts
<1> QED BY <1>4, <1>6, <1>7, <1>8, <1>9, <1>10, <1>21, <1>22
        DEF rs, g, k, h, m, lb, ev, R, rss, p, n

\* sendResync, with each of the three results of its batch.
LEMMA SendResyncStep ==
    ASSUME PipelineInv, NEW r \in Results, SendResync(r)
    PROVE  /\ PipelineInv'
           /\ \A u \in UIDs : store[u] # None /\ store'[u] = None => GoneBy(log, u, Horizon(log, inf))
<1> DEFINE rs == Head(resyncCh)
           m == Adopt(rs.gen)
           p == ResyncOf(m, rs.gen, rs.rev)
           n == [m EXCEPT !.retained = p]
           h == Horizon(log, inf)
           ev == Range(eventCh)
           R == Range(Tail(resyncCh))
           lb == LeftBy(rs.gen)
           ov == Overtaken(p, m)
           s2 == ResyncStore(p, store)
           told == Ack(Adopted(rs.gen), m.retained.gen, "nack")
<1>1. /\ resyncCh # <<>> /\ Accepts(rs.gen) /\ resyncCh' = Tail(resyncCh)
      /\ store' = IF Written(r) THEN s2 ELSE store
      /\ w' = IF Failed(r) THEN n ELSE Resynced(m, p)
      /\ inf' = IF Failed(r) THEN told ELSE Ack(told, rs.gen, "ok")
      /\ left' = IF Failed(r) THEN lb \cup ov ELSE LeftAfter(p, m, lb \cup lost, store')
      /\ lost' = IF Failed(r) THEN lost ELSE {}
      /\ Charge(<<r>>, 0)
      /\ UNCHANGED <<log, running, nextGen, eventCh, removeCh>>
  BY DEF SendResync
<1>2. Tail(resyncCh) \in Seq(ResyncRec) /\ ResyncsOrdered(Tail(resyncCh)) /\ rs \in ResyncRec
  BY <1>1, ResyncPops
<1>3. /\ Adopted(rs.gen) = inf /\ m.retained.gen = None /\ m \in MemoryRec
      /\ n.retained = p /\ p.gen = rs.gen /\ p.gen # None
      /\ n.up = m.up /\ n.reported = m.reported
      /\ Resynced(n, p) = Resynced(m, p)
      /\ \A le \in SUBSET UIDs : lb \subseteq le =>
            /\ WriterTyped(inf, n, store, lost, le)
            /\ Consistent(h, inf, ev, R, n, store, lost, le)
  BY <1>1, ListRetained
<1>4. \A x \in R : x \in ResyncRec
  BY <1>2 DEF Range
<1>5. lb \in SUBSET UIDs /\ ov \in SUBSET UIDs /\ lost \in SUBSET UIDs
  BY DEF LeftBy, Overtaken, PipelineInv, WriterTyped
<1>6. used' \in UsedRec
  <2>1. <<r>> \in Seq(Results) /\ used \in UsedRec
    BY DEF PipelineInv, StateTyped
  <2> QED BY <1>1, <2>1, ChargeFacts
<1>7. told = inf
  BY <1>3 DEF Ack
<1>8. inf \in InfRec
  BY InvFacts
<1> HIDE DEF rs, m, p, n, h, ev, R, lb, ov, s2, told
<1>9. lb \cup ov \in SUBSET UIDs /\ lb \subseteq lb \cup ov
  BY <1>5
<1>10. /\ WriterTyped(inf, n, store, lost, lb \cup ov)
       /\ Consistent(h, inf, ev, R, n, store, lost, lb \cup ov)
  BY <1>3, <1>9
<1>11. /\ WriterTyped(inf, n, s2, lost, lb \cup ov)
       /\ Consistent(h, inf, ev, R, n, s2, lost, lb \cup ov)
       /\ \A u \in UIDs : VersionAt(log, u, p.rev) \notin Unreadable \cup {None} =>
                             s2[u] = VersionAt(log, u, p.rev)
       /\ \A u \in UIDs : store[u] # None /\ s2[u] = None => GoneBy(log, u, h)
  <2>1. n.retained.gen # None
    BY <1>3
  <2>2. LET s3 == ResyncStore(n.retained, store)
        IN  /\ WriterTyped(inf, n, s3, lost, lb \cup ov)
            /\ Consistent(Horizon(log, inf), inf, Range(eventCh), R, n, s3, lost, lb \cup ov)
            /\ \A u \in UIDs : VersionAt(log, u, n.retained.rev) \notin Unreadable \cup {None} =>
                                  s3[u] = VersionAt(log, u, n.retained.rev)
            /\ \A u \in UIDs : store[u] # None /\ s3[u] = None => GoneBy(log, u, Horizon(log, inf))
    BY <1>4, <1>10, <2>1, ListWritten DEF h, ev
  <2> QED BY <1>3, <2>2 DEF s2, h, ev
<1>12. StateTyped' /\ Ordered' /\ Range(eventCh') = ev /\ Range(resyncCh') = R
  BY <1>1, <1>2, <1>6 DEF PipelineInv, StateTyped, Ordered, ev, R
<1>13. CASE r = "failed"
  <2>1. /\ store' = store /\ w' = n /\ inf' = inf /\ left' = lb \cup ov /\ lost' = lost
    BY <1>1, <1>7, <1>13 DEF Written, Failed
  <2>2. Horizon(log', inf') = h
    BY <1>1, <2>1 DEF h
  <2> QED BY <1>1, <1>10, <1>12, <2>1, <2>2 DEF PipelineInv, Consistent, h
<1>14. CASE r = "unknown"
  <2>1. /\ store' = s2 /\ w' = n /\ inf' = inf /\ left' = lb \cup ov /\ lost' = lost
    BY <1>1, <1>7, <1>14 DEF Written, Failed
  <2>2. Horizon(log', inf') = h
    BY <1>1, <2>1 DEF h
  <2> QED BY <1>1, <1>11, <1>12, <2>1, <2>2 DEF PipelineInv, Consistent, h
<1>15. CASE r = "ok"
  <2> DEFINE f == Ack(inf, p.gen, "ok")
             after == LeftAfter(p, m, lb \cup lost, s2)
             q == Resynced(m, p)
  <2>1. /\ store' = s2 /\ w' = q /\ inf' = f /\ left' = after /\ lost' = {}
    BY <1>1, <1>3, <1>7, <1>15 DEF Written, Failed
  <2>2. LET f2 == Ack(inf, n.retained.gen, "ok")
            n2 == Resynced(n, n.retained)
            a2 == LeftAfter(n.retained, n, (lb \cup ov) \cup lost, s2)
        IN  /\ WriterTyped(f2, n2, s2, {}, a2)
            /\ Consistent(Horizon(log, inf), f2, Range(eventCh), R, n2, s2, {}, a2)
    <3>1. \A u \in UIDs : VersionAt(log, u, n.retained.rev) \notin Unreadable \cup {None} =>
                              s2[u] = VersionAt(log, u, n.retained.rev)
      BY <1>3, <1>11
    <3> QED BY <1>3, <1>4, <1>11, <3>1, ListCommitted DEF h, ev
  <2>3. LeftAfter(p, n, (lb \cup ov) \cup lost, s2) = after
    <3>1. Overtaken(p, n) = ov
      BY <1>3 DEF Overtaken, ov
    <3>2. after = ov \cup {u \in (lb \cup lost \cup m.reported) \ p.names : s2[u] # None}
      BY DEF LeftAfter, ov
    <3>3. LeftAfter(p, n, (lb \cup ov) \cup lost, s2) =
            ov \cup {u \in ((lb \cup ov) \cup lost \cup m.reported) \ p.names : s2[u] # None}
      BY <1>3, <3>1 DEF LeftAfter
    <3> QED BY <3>2, <3>3
  <2> HIDE DEF after
  <2>4. /\ WriterTyped(f, q, s2, {}, after)
        /\ Consistent(h, f, ev, R, q, s2, {}, after)
    BY <1>3, <2>2, <2>3 DEF h, ev
  <2>5. Horizon(log', inf') = h
    BY <1>1, <1>8, <2>1, AckFacts DEF h
  <2> HIDE DEF f, q
  <2> QED BY <1>1, <1>11, <1>12, <2>1, <2>4, <2>5 DEF PipelineInv, Consistent, h
<1> QED BY <1>13, <1>14, <1>15 DEF Results

-----------------------------------------------------------------------------
(* The writer: the batch of the pending events                             *)

\* The batch of the pending events is written, or written and acknowledged:
\* le2 and m2 are what the writer knows of it then.
LEMMA Flushed ==
    ASSUME PipelineInv, NEW f \in InfRec, f.pc = inf.pc, f.cursor = inf.cursor,
           NEW m, NEW s, NEW lo, NEW le,
           WriterTyped(f, m, s, lo, le),
           Consistent(Horizon(log, inf), f, Range(eventCh), Range(resyncCh), m, s, lo, le),
           NEW r \in Results
    PROVE  LET m2 == FlushMemory(m, r)
               s2 == FlushStore(m, s, r)
               le2 == (IF r = "unknown" THEN ToSend(m) \ m.reported ELSE {}) \cup le
           IN  /\ WriterTyped(f, m2, s2, lo, le2)
               /\ Consistent(Horizon(log, inf), f, Range(eventCh), Range(resyncCh),
                             m2, s2, lo, le2)
               /\ \A u \in UIDs : s[u] # None /\ s2[u] = None => GoneBy(log, u, Horizon(log, inf))
<1> DEFINE h == Horizon(log, inf)
           ev == Range(eventCh)
           rss == Range(resyncCh)
           S == ToSend(m)
           D == m.del
           q == [u \in UIDs |-> IF u \in S THEN m.up[u] ELSE m.sent[u]]
           s2 == [u \in UIDs |-> IF u \in D THEN None ELSE IF u \in S THEN m.up[u] ELSE s[u]]
           d == DropPending(m)
           rep == (m.reported \cup S) \ D
           n == [d EXCEPT !.reported = rep, !.sent = q]
           un == S \ m.reported
<1>1. /\ Chronicle(log) /\ Len(log) \in Nat /\ h \in 0 .. Len(log)
      /\ f.cursor \in 0 .. Len(log) /\ (Informed(f) => h = f.cursor)
      /\ (\A e \in ev : e \in EventRec) /\ (\A rs \in rss : rs \in ResyncRec)
  BY InvFacts, BoundFacts DEF Horizon, Informed
<1>2. /\ m \in MemoryRec /\ s \in [UIDs -> Versions] /\ le \in SUBSET UIDs /\ D \in SUBSET UIDs
      /\ Consistent(h, f, ev, rss, m, s, lo, le) /\ None = 0 /\ None \in Versions
      /\ (\A u \in D : m.up[u] = None) /\ m.up \in [UIDs -> Versions]
      /\ m.sent \in [UIDs -> Versions] /\ m.reported \in SUBSET UIDs
  BY BoundFacts DEF WriterTyped, MemoryRec
<1>3. /\ S \in SUBSET UIDs
      /\ \A u \in UIDs : u \in S <=> m.up[u] \notin Unreadable \cup {None, m.sent[u]}
  BY DEF ToSend
<1>4. /\ d \in MemoryRec /\ d.up = NoMemory.up /\ d.del = {} /\ d.gen = m.gen
      /\ d.reported = m.reported /\ d.closed = m.closed /\ d.sent = m.sent
      /\ d.retained = m.retained
  BY <1>2, DropPendingFacts
<1>5. FlushStore(m, s, r) = IF r = "failed" THEN s ELSE s2
  BY DEF FlushStore, Written
<1>6. FlushMemory(m, r) = IF r = "ok" THEN n ELSE m
  BY <1>4 DEF FlushMemory, Failed
<1>7. q \in [UIDs -> Versions] /\ s2 \in [UIDs -> Versions] /\ rep \in SUBSET UIDs
  BY <1>2, <1>3
<1> HIDE DEF h, ev, rss, S, d
<1>8. /\ \A u \in UIDs : q[u] = IF u \in S THEN m.up[u] ELSE m.sent[u]
      /\ \A u \in UIDs : s2[u] = IF u \in D THEN None ELSE IF u \in S THEN m.up[u] ELSE s[u]
  OBVIOUS
<1> HIDE DEF q, s2
<1>9. /\ n \in MemoryRec /\ n.up = NoMemory.up /\ n.del = {} /\ n.gen = m.gen
      /\ n.reported = rep /\ n.closed = m.closed /\ n.sent = q /\ n.retained = m.retained
  <2> HIDE DEF rep
  <2> QED BY <1>4, <1>7 DEF MemoryRec
<1> HIDE DEF n
<1>10. \A u \in UIDs : n.up[u] = None
  BY <1>9, NoMemoryFacts
<1>11. MemorySound(log, h, ev, rss, m, s) /\ LiveFollowed(log, running, f, ev, rss, m, s, lo)
       /\ RowsKnown(m, s, lo, le) /\ GoneFollowed(log, running, f, ev, rss, m, s, lo, le)
       /\ InformerSound(log, running, f, rss, m)
       /\ GenerationsSound(running, nextGen, Range(removeCh), m)
       /\ RetainedSound(log, h, running, f, ev, rss, m)
  BY <1>2 DEF Consistent
\* Deleted rows are of objects that are gone.
<1>12. ASSUME NEW u \in UIDs, s[u] # None, s2[u] = None PROVE GoneBy(log, u, h)
  <2>1. u \in D
    BY <1>3, <1>8, <1>12
  <2> QED BY <1>11, <2>1 DEF MemorySound
<1>13. \A u \in UIDs : /\ m.sent[u] # None => m.sent[u] <= s2[u] \/ GoneBy(log, u, h)
                       /\ s2[u] # None => VersionOf(log, u, s2[u], h)
  BY <1>3, <1>8, <1>11 DEF MemorySound
<1>14. MemorySound(log, h, ev, rss, m, s2)
  BY <1>11, <1>13 DEF MemorySound
<1>15. Outstanding(running, rss, n) <=> Outstanding(running, rss, m)
  BY <1>9 DEF Outstanding
\* A version that is sent for another generation than the running one.
<1>16. Informed(f) /\ m.gen # running => Outstanding(running, rss, m)
  BY <1>11 DEF InformerSound, Outstanding
<1>17. CASE r = "failed"
  <2>1. FlushMemory(m, r) = m /\ FlushStore(m, s, r) = s
    BY <1>5, <1>6, <1>17
  <2>2. (IF r = "unknown" THEN ToSend(m) \ m.reported ELSE {}) \cup le = le
    BY <1>17
  <2> QED BY <1>2, <2>1, <2>2 DEF h, ev, rss
<1>18. CASE r = "unknown"
  <2> DEFINE le2 == un \cup le
  <2>1. FlushMemory(m, r) = m /\ FlushStore(m, s, r) = s2
    BY <1>5, <1>6, <1>18
  <2>2. (IF r = "unknown" THEN ToSend(m) \ m.reported ELSE {}) \cup le = le2
    BY <1>18 DEF S
  <2>3. WriterTyped(f, m, s2, lo, le2)
    BY <1>2, <1>3, <1>7 DEF WriterTyped
  <2>4. LiveFollowed(log, running, f, ev, rss, m, s2, lo)
    <3> SUFFICES ASSUME Informed(f), ~Outstanding(running, rss, m), NEW u \in UIDs,
                        VersionAt(log, u, f.cursor) # None, ~Held(running, m, u)
                 PROVE  s2[u] = s[u]
      BY <1>11 DEF LiveFollowed
    <3>1. ~GoneBy(log, u, h)
      BY <1>1 DEF Chronicle
    <3>2. u \notin D
      BY <1>11, <3>1 DEF MemorySound
    <3>3. u \notin S
      BY <1>3, <1>16 DEF Held
    <3> QED BY <1>8, <3>2, <3>3
  <2>5. RowsKnown(m, s2, lo, le2)
    BY <1>8, <1>11 DEF RowsKnown
  <2>6. GoneFollowed(log, running, f, ev, rss, m, s2, lo, le2)
    <3>1. \A u \in UIDs : Informed(f) /\ Shows(running, ev, m, s2, u) =>
             Shows(running, ev, m, s, u) \/ Outstanding(running, rss, m)
      BY <1>3, <1>8, <1>16 DEF Shows, Held
    <3> QED BY <1>11, <3>1 DEF GoneFollowed
  <2>7. Consistent(h, f, ev, rss, m, s2, lo, le2)
    BY <1>2, <1>14, <2>4, <2>5, <2>6 DEF Consistent
  <2> QED BY <1>12, <2>1, <2>2, <2>3, <2>7 DEF h, ev, rss
<1>19. CASE r = "ok"
  <2>1. FlushMemory(m, r) = n /\ FlushStore(m, s, r) = s2
    BY <1>5, <1>6, <1>19
  <2>2. (IF r = "unknown" THEN ToSend(m) \ m.reported ELSE {}) \cup le = le
    BY <1>19
  <2>3. WriterTyped(f, n, s2, lo, le)
    BY <1>2, <1>7, <1>9 DEF WriterTyped
  <2>4. \A u \in UIDs : u \in S => VersionOf(log, u, m.up[u], h) /\ m.up[u] # None
    BY <1>3, <1>11 DEF MemorySound
  <2>5. MemorySound(log, h, ev, rss, n, s2)
    <3>1. ASSUME NEW u \in UIDs
          PROVE  /\ n.sent[u] # None => /\ VersionOf(log, u, n.sent[u], h)
                                        /\ n.sent[u] <= s2[u] \/ GoneBy(log, u, h)
                 /\ u \in n.reported => SeenBy(log, u, h)
      <4>1. m.up[u] \in Nat
        BY <1>2, BoundFacts
      <4>2. CASE u \in S
        <5>1. n.sent[u] = m.up[u] /\ VersionOf(log, u, m.up[u], h) /\ m.up[u] # None
          BY <1>8, <1>9, <2>4, <4>2
        <5>2. s2[u] = m.up[u]
          BY <1>2, <1>8, <4>2, <5>1
        <5>3. m.up[u] <= h
          BY <1>1, <5>1 DEF Chronicle
        <5>4. SeenBy(log, u, h)
          BY <1>1, <5>1, <5>3 DEF Chronicle
        <5> QED BY <4>1, <5>1, <5>2, <5>4
      <4>3. CASE u \notin S
        <5>1. n.sent[u] = m.sent[u] /\ (u \in n.reported => u \in m.reported)
          BY <1>8, <1>9, <4>3
        <5> QED BY <1>14, <5>1 DEF MemorySound
      <4> QED BY <4>2, <4>3
    <3>2. ASSUME NEW e \in ev PROVE n.up[e.uid] <= e.ver /\ n.sent[e.uid] <= e.ver
      <4>1. e.uid \in UIDs /\ e.ver \in Nat
        BY <1>1, BoundFacts DEF EventRec
      <4> QED BY <1>2, <1>8, <1>9, <1>10, <1>11, <4>1 DEF MemorySound
    <3>3. ASSUME NEW rs \in rss, Admits(n, rs.gen), NEW u \in UIDs
          PROVE  /\ n.up[u] <= rs.rev /\ n.sent[u] <= rs.rev
                 /\ u \in n.reported => SeenBy(log, u, rs.rev)
      <4>1. rs.rev \in Nat /\ rs.rev <= h /\ Admits(m, rs.gen)
        BY <1>1, <1>2, <1>9, <3>3, BoundFacts DEF ResyncRec, Consistent, ResyncsSound, Admits
      <4>2. rs.rev \in 0 .. Len(log)
        BY <1>1, <4>1
      <4>3. m.up[u] <= rs.rev /\ m.sent[u] <= rs.rev
            /\ (u \in m.reported => SeenBy(log, u, rs.rev))
        BY <1>11, <4>1 DEF MemorySound
      <4>4. u \in S => SeenBy(log, u, rs.rev)
        BY <1>1, <2>4, <4>2, <4>3 DEF Chronicle
      <4> QED BY <1>2, <1>8, <1>9, <1>10, <4>1, <4>3, <4>4
    <3> QED BY <1>9, <1>10, <1>13, <3>1, <3>2, <3>3 DEF MemorySound
  <2>6. RetainedSound(log, h, running, f, ev, rss, n)
    <3>1. m.retained.rev \in Nat
      BY <1>2, BoundFacts DEF MemoryRec, RetainedRec
    <3>2. m.retained.gen # None =>
             \A u \in UIDs : n.up[u] <= m.retained.rev /\ n.sent[u] <= m.retained.rev
      BY <1>2, <1>8, <1>9, <1>10, <1>11, <3>1 DEF RetainedSound
    <3> QED BY <1>9, <1>11, <3>2 DEF RetainedSound
  <2>7. /\ GenerationsSound(running, nextGen, Range(removeCh), n)
        /\ InformerSound(log, running, f, rss, n)
    BY <1>9, <1>11 DEF GenerationsSound, InformerSound
  <2>8. LiveFollowed(log, running, f, ev, rss, n, s2, lo)
    <3>1. \A u \in UIDs : ~Held(running, n, u)
      BY <1>10 DEF Held
    <3> SUFFICES ASSUME Informed(f), ~Outstanding(running, rss, m), NEW u \in UIDs,
                        VersionAt(log, u, f.cursor) # None, ~Carried(running, ev, u),
                        u \notin lo, VersionAt(log, u, f.cursor) \notin Unreadable
                 PROVE  s2[u] = VersionAt(log, u, f.cursor)
      BY <1>11, <1>15, <3>1 DEF LiveFollowed
    <3> DEFINE v == VersionAt(log, u, f.cursor)
    <3>2. ~GoneBy(log, u, h) /\ v \in Nat /\ VersionAt(log, u, h) = v
      BY <1>1 DEF Chronicle
    <3>3. /\ Held(running, m, u) => m.up[u] = v
          /\ ~Held(running, m, u) => s[u] = v
      BY <1>11 DEF LiveFollowed
    <3> HIDE DEF v
    <3>4. u \notin D
      BY <1>11, <3>2 DEF MemorySound
    <3>5. CASE ~Held(running, m, u)
      <4>1. u \notin S
        BY <1>3, <1>16, <3>5 DEF Held
      <4> QED BY <1>8, <3>3, <3>4, <3>5, <4>1 DEF v
    <3>6. CASE Held(running, m, u) /\ u \in S
      BY <1>8, <3>3, <3>4, <3>6 DEF v
    <3>7. CASE Held(running, m, u) /\ u \notin S
      <4>1. m.up[u] = v /\ m.sent[u] = v /\ v # None
        BY <1>3, <3>3, <3>7 DEF v
      <4>2. v <= s[u]
        BY <1>11, <3>2, <4>1 DEF MemorySound
      <4>3. s[u] \in Nat /\ s[u] # None
        BY <1>2, <3>2, <4>1, <4>2, BoundFacts
      <4>4. VersionOf(log, u, s[u], h)
        BY <1>11, <4>3 DEF MemorySound
      <4>5. s[u] <= v
        BY <1>1, <3>2, <4>4 DEF Chronicle
      <4>6. s2[u] = s[u]
        BY <1>8, <3>4, <3>7
      <4> QED BY <3>2, <4>2, <4>3, <4>5, <4>6 DEF v
    <3> QED BY <3>5, <3>6, <3>7
  <2>9. RowsKnown(n, s2, lo, le)
    <3> SUFFICES ASSUME NEW u \in UIDs, s2[u] # None
                 PROVE  \/ u \in rep \cup le \cup lo
                        \/ m.retained.gen # None /\ u \in m.retained.names
      BY <1>9 DEF RowsKnown
    <3>1. u \notin D /\ (u \notin S => s[u] # None)
      BY <1>8
    <3> QED BY <1>11, <3>1 DEF RowsKnown
  <2>10. GoneFollowed(log, running, f, ev, rss, n, s2, lo, le)
    <3> SUFFICES ASSUME Informed(f), ~Outstanding(running, rss, m),
                        NEW u \in UIDs \ (le \cup lo), VersionAt(log, u, f.cursor) = None,
                        Shows(running, ev, n, s2, u)
                 PROVE  \E e \in ev : e.gen = running /\ e.uid = u /\ e.gone
      BY <1>15 DEF GoneFollowed
    <3>1. s2[u] # None \/ \E e \in ev : e.gen = running /\ e.uid = u /\ ~e.gone
      BY <1>10 DEF Shows, Held
    <3>2. u \notin D
      BY <1>8, <1>11, <3>1 DEF MemorySound
    <3>3. s2[u] # None => s[u] # None \/ Held(running, m, u)
      BY <1>3, <1>8, <1>16 DEF Held
    <3>4. Shows(running, ev, m, s, u)
      BY <3>1, <3>3 DEF Shows
    <3> QED BY <1>11, <3>2, <3>4 DEF GoneFollowed
  <2>11. Consistent(h, f, ev, rss, n, s2, lo, le)
    BY <1>2, <2>5, <2>6, <2>7, <2>8, <2>9, <2>10 DEF Consistent
  <2> QED BY <1>12, <2>1, <2>2, <2>3, <2>11 DEF h, ev, rss
<1> QED BY <1>17, <1>18, <1>19 DEF Results

-----------------------------------------------------------------------------
(* A tick, and the end of the process                                      *)

\* retryPendingResyncs, with each result of its batch.
LEMMA Retried ==
    ASSUME PipelineInv, NEW r \in Results
    PROVE  LET m == RetryMemory(w, r)
               s == RetryStore(w, store, r)
               committed == Retries(w) /\ ~Failed(r)
               f == IF committed THEN Ack(inf, w.retained.gen, "ok") ELSE inf
               lo == IF committed THEN {} ELSE lost
               le == IF committed THEN LeftAfter(w.retained, w, left \cup lost, s) ELSE left
           IN  /\ WriterTyped(f, m, s, lo, le)
               /\ Consistent(Horizon(log, inf), f, Range(eventCh), Range(resyncCh), m, s, lo, le)
               /\ f \in InfRec /\ f.pc = inf.pc /\ f.cursor = inf.cursor
               /\ \A u \in UIDs : store[u] # None /\ s[u] = None => GoneBy(log, u, Horizon(log, inf))
<1> DEFINE h == Horizon(log, inf)
           ev == Range(eventCh)
           rss == Range(resyncCh)
           m == RetryMemory(w, r)
           s == RetryStore(w, store, r)
           committed == Retries(w) /\ ~Failed(r)
           f == IF committed THEN Ack(inf, w.retained.gen, "ok") ELSE inf
           lo == IF committed THEN {} ELSE lost
           le == IF committed THEN LeftAfter(w.retained, w, left \cup lost, s) ELSE left
           s2 == ResyncStore(w.retained, store)
           Goal == /\ WriterTyped(f, m, s, lo, le)
                   /\ Consistent(h, f, ev, rss, m, s, lo, le)
                   /\ f \in InfRec /\ f.pc = inf.pc /\ f.cursor = inf.cursor
                   /\ \A u \in UIDs : store[u] # None /\ s[u] = None => GoneBy(log, u, h)
<1>1. WriterTyped(inf, w, store, lost, left)
      /\ Consistent(h, inf, ev, rss, w, store, lost, left)
  BY DEF PipelineInv
<1>2. (\A rs \in rss : rs \in ResyncRec) /\ inf \in InfRec
  BY InvFacts
<1>3. ASSUME ~Retries(w) \/ r = "failed" PROVE Goal
  <2>1. m = w /\ s = store /\ f = inf /\ lo = lost /\ le = left
    BY <1>3 DEF RetryMemory, RetryStore, Failed, Written
  <2> HIDE DEF h, ev, rss, m, s, f, lo, le
  <2> QED BY <1>1, <1>2, <2>1
<1>4. ASSUME Retries(w), r # "failed" PROVE Goal
  <2>0. w.retained.gen # None
    BY <1>4 DEF Retries
  <2>1. /\ WriterTyped(inf, w, s2, lost, left)
        /\ Consistent(h, inf, ev, rss, w, s2, lost, left)
        /\ \A u \in UIDs : VersionAt(log, u, w.retained.rev) \notin Unreadable \cup {None} =>
                              s2[u] = VersionAt(log, u, w.retained.rev)
        /\ \A u \in UIDs : store[u] # None /\ s2[u] = None => GoneBy(log, u, h)
    BY <1>1, <1>2, <2>0, ListWritten
  <2>2. s = s2
    BY <1>4 DEF RetryStore, Written
  <2>3. CASE r = "unknown"
    <3>1. m = w /\ f = inf /\ lo = lost /\ le = left
      BY <2>3 DEF RetryMemory, Failed
    <3> HIDE DEF h, ev, rss, m, s, s2, f, lo, le
    <3> QED BY <1>2, <2>1, <2>2, <3>1
  <2>4. CASE r = "ok"
    <3> DEFINE f2 == Ack(inf, w.retained.gen, "ok")
               n == Resynced(w, w.retained)
               after == LeftAfter(w.retained, w, left \cup lost, s2)
    <3>1. m = n /\ f = f2 /\ lo = {} /\ le = after
      BY <1>4, <2>2, <2>4 DEF RetryMemory, Failed
    <3>2. /\ WriterTyped(f2, n, s2, {}, after)
          /\ Consistent(h, f2, ev, rss, n, s2, {}, after)
      <4> HIDE DEF s2
      <4> QED BY <1>2, <2>0, <2>1, ListCommitted
    <3>3. f2 \in InfRec /\ f2.pc = inf.pc /\ f2.cursor = inf.cursor
      BY <1>2, AckFacts
    <3> HIDE DEF h, ev, rss, m, s, s2, f, lo, le, f2, n, after
    <3> QED BY <2>1, <2>2, <3>1, <3>2, <3>3
  <2> QED BY <1>4, <2>3, <2>4 DEF Results
<1>5. Goal
  BY <1>3, <1>4
<1> QED BY <1>5

\* Both batches of a tick, one after the other.
LEMMA TickStep ==
    ASSUME PipelineInv, NEW r1 \in Results, NEW r2 \in Results, Tick(r1, r2)
    PROVE  /\ PipelineInv'
           /\ \A u \in UIDs : store[u] # None /\ store'[u] = None => GoneBy(log, u, Horizon(log, inf))
<1> DEFINE h == Horizon(log, inf)
           ev == Range(eventCh)
           rss == Range(resyncCh)
           m == RetryMemory(w, r1)
           s == RetryStore(w, store, r1)
           committed == Retries(w) /\ ~Failed(r1)
           f == IF committed THEN Ack(inf, w.retained.gen, "ok") ELSE inf
           lo == IF committed THEN {} ELSE lost
           le == IF committed THEN LeftAfter(w.retained, w, left \cup lost, s) ELSE left
           un == IF r2 = "unknown" THEN ToSend(m) \ m.reported ELSE {}
<1>1. /\ w' = FlushMemory(m, r2) /\ store' = FlushStore(m, s, r2)
      /\ inf' = f /\ left' = un \cup le /\ lost' = lo /\ Charge(<<r1, r2>>, 0)
      /\ UNCHANGED <<log, running, nextGen, eventCh, resyncCh, removeCh>>
  BY DEF Tick
<1>2. /\ WriterTyped(f, m, s, lo, le)
      /\ Consistent(h, f, ev, rss, m, s, lo, le)
      /\ f \in InfRec /\ f.pc = inf.pc /\ f.cursor = inf.cursor
      /\ \A u \in UIDs : store[u] # None /\ s[u] = None => GoneBy(log, u, h)
  BY Retried
<1> HIDE DEF m, s, f, lo, le
<1>3. /\ WriterTyped(f, FlushMemory(m, r2), FlushStore(m, s, r2), lo, un \cup le)
      /\ Consistent(h, f, ev, rss, FlushMemory(m, r2), FlushStore(m, s, r2), lo, un \cup le)
      /\ \A u \in UIDs : s[u] # None /\ FlushStore(m, s, r2)[u] = None => GoneBy(log, u, h)
  BY <1>2, Flushed
<1> HIDE DEF un
<1>4. used' \in UsedRec
  <2>1. <<r1, r2>> \in Seq(Results) /\ used \in UsedRec
    BY DEF PipelineInv, StateTyped
  <2> QED BY <1>1, <2>1, ChargeFacts
<1>5. StateTyped' /\ Ordered' /\ Range(eventCh') = ev /\ Range(resyncCh') = rss
  BY <1>1, <1>4 DEF PipelineInv, StateTyped, Ordered
<1>6. Horizon(log', inf') = h
  BY <1>1, <1>2 DEF Horizon, Informed
<1> HIDE DEF h, ev, rss
<1>7. PipelineInv'
  BY <1>1, <1>3, <1>5, <1>6 DEF PipelineInv, Consistent
<1> QED BY <1>1, <1>2, <1>3, <1>7 DEF h

\* A new process knows nothing, and finds rows that are versions of objects.
LEMMA RestartStep ==
    ASSUME PipelineInv, NEW s \in [UIDs -> Versions], Restart(s), used' \in UsedRec,
           \A u \in UIDs : s[u] # None => VersionOf(log, u, s[u], Horizon(log, inf))
    PROVE  PipelineInv'
<1> DEFINE le == {u \in UIDs : s[u] # None}
<1>1. /\ inf' = NoInformer /\ running' = None /\ nextGen' = 0
      /\ eventCh' = <<>> /\ resyncCh' = <<>> /\ removeCh' = <<>> /\ w' = NoMemory
      /\ store' = s /\ lost' = {} /\ left' = le /\ log' = log
  BY DEF Restart
<1>2. /\ Chronicle(log) /\ Len(log) \in Nat /\ Len(log) \in 0 .. Len(log)
      /\ Horizon(log, inf) \in 0 .. Len(log)
  BY InvFacts, BoundFacts
<1>3. \A u \in UIDs : s[u] # None => VersionOf(log, u, s[u], Len(log))
  <2> TAKE u \in UIDs
  <2>1. \A v : VersionOf(log, u, v, Horizon(log, inf)) => v \in 1 .. Horizon(log, inf)
    BY <1>2 DEF Chronicle
  <2>2. \A v : VersionOf(log, u, v, Horizon(log, inf)) => VersionOf(log, u, v, Len(log))
    BY <1>2, <2>1 DEF Chronicle
  <2> QED BY <2>2
<1>4. /\ NoInformer \in InfRec /\ NoInformer.pc = "none" /\ NoInformer.ack = "none"
      /\ NoInformer.cursor = 0 /\ ~Informed(NoInformer)
  BY BoundFacts DEF NoInformer, InfRec, Informed
<1>5. NoResync \in RetainedRec /\ NoResync.gen = None
  BY NoMemoryFacts
<1>6. /\ NoMemory \in MemoryRec /\ NoMemory.gen = None /\ NoMemory.closed = None
      /\ NoMemory.del = {} /\ NoMemory.reported = {} /\ NoMemory.retained = NoResync
      /\ \A u \in UIDs : NoMemory.up[u] = None /\ NoMemory.sent[u] = None
  BY <1>5, BoundFacts DEF NoMemory, MemoryRec
<1>7. Range(<<>>) = {}
  BY DEF Range
<1>8. StateTyped'
  <2>1. <<>> \in Seq(EventRec) /\ <<>> \in Seq(ResyncRec) /\ <<>> \in Seq(Generations)
    OBVIOUS
  <2>2. 0 \in 0 .. MaxGeneration
    BY BoundFacts
  <2> QED BY <1>1, <2>1, <2>2 DEF StateTyped
<1>9. WriterTyped(NoInformer, NoMemory, s, {}, le)
  <2>1. le \in SUBSET UIDs
    OBVIOUS
  <2> HIDE DEF le
  <2> QED BY <1>4, <1>6, <2>1 DEF WriterTyped
<1>10. Ordered'
  <2>1. Ordered /\ Len(<<>>) = 0 /\ 1 .. 0 = {}
    BY DEF PipelineInv
  <2>2. EventsOrdered(<<>>) /\ ResyncsOrdered(<<>>)
    BY <2>1 DEF EventsOrdered, ResyncsOrdered
  <2> QED BY <1>1, <2>1, <2>2 DEF Ordered
<1>11. MemorySound(log, Len(log), {}, {}, NoMemory, s)
  BY <1>3, <1>6 DEF MemorySound
<1>12. GenerationsSound(None, 0, {}, NoMemory)
  BY <1>5, <1>6, BoundFacts DEF GenerationsSound
<1>13. RetainedSound(log, Len(log), None, NoInformer, {}, {}, NoMemory)
  BY <1>5, <1>6 DEF RetainedSound
<1>14. InformerSound(log, None, NoInformer, {}, NoMemory)
  BY <1>2, <1>4 DEF InformerSound
<1>15. /\ LiveFollowed(log, None, NoInformer, {}, {}, NoMemory, s, {})
       /\ GoneFollowed(log, None, NoInformer, {}, {}, NoMemory, s, {}, le)
  BY <1>4 DEF LiveFollowed, GoneFollowed
<1>16. RowsKnown(NoMemory, s, {}, le)
  BY DEF RowsKnown
<1>17. EventsSound(log, Len(log), 0, {}) /\ ResyncsSound(Len(log), None, 0, NoInformer, {}, {})
  BY DEF EventsSound, ResyncsSound
<1>18. Horizon(log', inf') = Len(log)
  BY <1>1, <1>4 DEF Horizon
<1> HIDE DEF le
<1> QED BY <1>1, <1>7, <1>8, <1>9, <1>10, <1>11, <1>12, <1>13, <1>14, <1>15, <1>16, <1>17, <1>18
        DEF PipelineInv, Consistent

\* The end of the process: its last batches are those of a tick.
LEMMA ShutdownStep ==
    ASSUME PipelineInv, NEW r1 \in Results, NEW r2 \in Results, Shutdown(r1, r2)
    PROVE  /\ PipelineInv'
           /\ \A u \in UIDs : store[u] # None /\ store'[u] = None => GoneBy(log, u, Horizon(log, inf))
<1> DEFINE h == Horizon(log, inf)
           ev == Range(eventCh)
           rss == Range(resyncCh)
           m == RetryMemory(w, r1)
           s == RetryStore(w, store, r1)
           committed == Retries(w) /\ ~Failed(r1)
           f == IF committed THEN Ack(inf, w.retained.gen, "ok") ELSE inf
           lo == IF committed THEN {} ELSE lost
           le == IF committed THEN LeftAfter(w.retained, w, left \cup lost, s) ELSE left
           un == IF r2 = "unknown" THEN ToSend(m) \ m.reported ELSE {}
           z == FlushStore(m, s, r2)
<1>1. Restart(z) /\ Charge(<<r1, r2>>, 1)
  BY DEF Shutdown
<1>2. /\ WriterTyped(f, m, s, lo, le)
      /\ Consistent(h, f, ev, rss, m, s, lo, le)
      /\ f \in InfRec /\ f.pc = inf.pc /\ f.cursor = inf.cursor
      /\ \A u \in UIDs : store[u] # None /\ s[u] = None => GoneBy(log, u, h)
  BY Retried
<1> HIDE DEF m, s, f, lo, le
<1>3. /\ WriterTyped(f, FlushMemory(m, r2), z, lo, un \cup le)
      /\ Consistent(h, f, ev, rss, FlushMemory(m, r2), z, lo, un \cup le)
      /\ \A u \in UIDs : s[u] # None /\ z[u] = None => GoneBy(log, u, h)
  BY <1>2, Flushed
<1> HIDE DEF un, z
<1>4. used' \in UsedRec
  <2>1. <<r1, r2>> \in Seq(Results) /\ used \in UsedRec
    BY DEF PipelineInv, StateTyped
  <2> QED BY <1>1, <2>1, ChargeFacts
<1>5. z \in [UIDs -> Versions] /\ \A u \in UIDs : z[u] # None => VersionOf(log, u, z[u], h)
  BY <1>3 DEF WriterTyped, Consistent, MemorySound
<1>6. PipelineInv'
  BY <1>1, <1>4, <1>5, RestartStep
<1>7. store' = z
  BY <1>1 DEF Restart
<1> QED BY <1>2, <1>3, <1>6, <1>7

\* A crash loses everything but the inventory.
LEMMA CrashStep == ASSUME PipelineInv, Crash PROVE PipelineInv' /\ store' = store
<1>1. Restart(store) /\ Charge(<<>>, 1)
  BY DEF Crash
<1>2. <<>> \in Seq(Results) /\ used \in UsedRec
  BY DEF PipelineInv, StateTyped
<1>3. used' \in UsedRec
  BY <1>1, <1>2, ChargeFacts
<1>4. store \in [UIDs -> Versions]
      /\ \A u \in UIDs : store[u] # None => VersionOf(log, u, store[u], Horizon(log, inf))
  BY DEF PipelineInv, WriterTyped, Consistent, MemorySound
<1>5. store' = store
  BY <1>1 DEF Restart
<1> QED BY <1>1, <1>3, <1>4, <1>5, RestartStep

-----------------------------------------------------------------------------
(* The theorems                                                            *)

\* The pipeline starts as a process that has just been started.
LEMMA PipelineInit == Init => PipelineInv
<1> SUFFICES ASSUME Init PROVE PipelineInv
  OBVIOUS
<1>1. /\ log = <<>> /\ inf = NoInformer /\ running = None /\ nextGen = 0
      /\ eventCh = <<>> /\ resyncCh = <<>> /\ removeCh = <<>> /\ w = NoMemory
      /\ store = [u \in UIDs |-> None]
      /\ used = [failures |-> 0, breaks |-> 0, restarts |-> 0]
      /\ lost = {} /\ left = {}
  BY DEF Init
<1>2. Len(log) = 0 /\ Range(<<>>) = {} /\ Len(<<>>) = 0 /\ 1 .. 0 = {}
  BY <1>1 DEF Range
<1>3. LogSound(log)
  BY <1>1, <1>2, BoundFacts DEF LogSound
<1>4. EventsOrdered(eventCh) /\ ResyncsOrdered(resyncCh)
  BY <1>1, <1>2 DEF EventsOrdered, ResyncsOrdered
<1>5. /\ NoInformer \in InfRec /\ NoInformer.pc = "none" /\ NoInformer.ack = "none"
      /\ NoInformer.cursor = 0 /\ ~Informed(NoInformer)
  BY BoundFacts DEF NoInformer, InfRec, Informed
<1>6. NoResync \in RetainedRec /\ NoResync.gen = None
  BY NoMemoryFacts
<1>7. /\ NoMemory \in MemoryRec /\ NoMemory.gen = None /\ NoMemory.closed = None
      /\ NoMemory.del = {} /\ NoMemory.reported = {} /\ NoMemory.retained = NoResync
      /\ \A u \in UIDs : NoMemory.up[u] = None /\ NoMemory.sent[u] = None
  BY <1>6, BoundFacts DEF NoMemory, MemoryRec
<1>8. store \in [UIDs -> Versions] /\ \A u \in UIDs : store[u] = None
  BY <1>1, BoundFacts
<1>9. StateTyped
  <2>1. used \in UsedRec
    BY <1>1, BoundFacts DEF UsedRec
  <2>2. <<>> \in Seq(EventRec) /\ <<>> \in Seq(ResyncRec) /\ <<>> \in Seq(Generations)
    OBVIOUS
  <2> QED BY <1>1, <2>1, <2>2, BoundFacts DEF StateTyped
<1>10. WriterTyped(NoInformer, NoMemory, store, {}, {})
  BY <1>5, <1>7, <1>8 DEF WriterTyped
<1>11. MemorySound(log, 0, {}, {}, NoMemory, store)
  BY <1>7, <1>8 DEF MemorySound
<1>12. GenerationsSound(None, 0, {}, NoMemory)
  BY <1>6, <1>7, BoundFacts DEF GenerationsSound
<1>13. RetainedSound(log, 0, None, NoInformer, {}, {}, NoMemory)
  BY <1>6, <1>7 DEF RetainedSound
<1>14. InformerSound(log, None, NoInformer, {}, NoMemory)
  BY <1>2, <1>5 DEF InformerSound
<1>15. /\ LiveFollowed(log, None, NoInformer, {}, {}, NoMemory, store, {})
       /\ GoneFollowed(log, None, NoInformer, {}, {}, NoMemory, store, {}, {})
  BY <1>5 DEF LiveFollowed, GoneFollowed
<1>16. RowsKnown(NoMemory, store, {}, {})
  BY <1>8 DEF RowsKnown
<1>17. EventsSound(log, 0, 0, {}) /\ ResyncsSound(0, None, 0, NoInformer, {}, {})
  BY DEF EventsSound, ResyncsSound
<1>18. Horizon(log, inf) = 0
  BY <1>1, <1>2, <1>5 DEF Horizon
<1> QED BY <1>1, <1>2, <1>3, <1>4, <1>9, <1>10, <1>11, <1>12, <1>13, <1>14, <1>15, <1>16, <1>17,
           <1>18
        DEF PipelineInv, Consistent, Ordered

\* Every step keeps the invariant, and a row disappears only when its object
\* is gone.
LEMMA PipelineStep ==
    ASSUME PipelineInv, [Next]_vars
    PROVE  /\ PipelineInv'
           /\ \A u \in UIDs : store[u] # None /\ store'[u] = None => GoneBy(log, u, Horizon(log, inf))
<1>1. ASSUME NEW u \in UIDs, Change(u) PROVE PipelineInv' /\ store' = store
  BY <1>1, ChangeStep DEF Change
<1>2. ASSUME StopInformer PROVE PipelineInv' /\ store' = store
  BY <1>2, StopInformerStep DEF StopInformer
<1>3. ASSUME StartInformer PROVE PipelineInv' /\ store' = store
  BY <1>3, StartInformerStep DEF StartInformer
<1>4. ASSUME List PROVE PipelineInv' /\ store' = store
  BY <1>4, ListStep DEF List
<1>5. ASSUME TakeAck PROVE PipelineInv' /\ store' = store
  BY <1>5, TakeAckStep DEF TakeAck
<1>6. ASSUME Deliver PROVE PipelineInv' /\ store' = store
  BY <1>6, DeliverStep DEF Deliver
<1>7. ASSUME ListFails PROVE PipelineInv' /\ store' = store
  BY <1>7, ListFailsStep DEF ListFails
<1>8. ASSUME WatchBreaks PROVE PipelineInv' /\ store' = store
  BY <1>8, WatchBreaksStep DEF WatchBreaks
<1>9. ASSUME Reject PROVE PipelineInv' /\ store' = store
  BY <1>9, RejectStep DEF Reject
<1>10. ASSUME TakeUpsert PROVE PipelineInv' /\ store' = store
  BY <1>10, TakeUpsertStep DEF TakeUpsert
<1>11. ASSUME TakeDelete PROVE PipelineInv' /\ store' = store
  BY <1>11, TakeDeleteStep DEF TakeDelete
<1>12. ASSUME RejectResync PROVE PipelineInv' /\ store' = store
  BY <1>12, RejectResyncStep DEF RejectResync
<1>13. ASSUME NEW r \in Results, SendResync(r)
       PROVE  /\ PipelineInv'
              /\ \A u \in UIDs : store[u] # None /\ store'[u] = None =>
                                    GoneBy(log, u, Horizon(log, inf))
  BY <1>13, SendResyncStep
<1>14. ASSUME TakeRemove PROVE PipelineInv' /\ store' = store
  BY <1>14, TakeRemoveStep DEF TakeRemove
<1>15. ASSUME NEW r1 \in Results, NEW r2 \in Results, Tick(r1, r2) \/ Shutdown(r1, r2)
       PROVE  /\ PipelineInv'
              /\ \A u \in UIDs : store[u] # None /\ store'[u] = None =>
                                    GoneBy(log, u, Horizon(log, inf))
  BY <1>15, TickStep, ShutdownStep
<1>16. ASSUME Crash PROVE PipelineInv' /\ store' = store
  BY <1>16, CrashStep
<1>17. ASSUME UNCHANGED vars PROVE PipelineInv' /\ store' = store
  BY <1>17 DEF PipelineInv, StateTyped, WriterTyped, Ordered, Consistent, vars
<1> QED BY <1>1, <1>2, <1>3, <1>4, <1>5, <1>6, <1>7, <1>8, <1>9, <1>10, <1>11, <1>12, <1>13,
           <1>14, <1>15, <1>16, <1>17
        DEF Next, Informer, TakeEvent, TakeResync

\* The inductive invariant of the pipeline, for any number of objects, changes
\* of the cluster, generations, failures and restarts: what the channels, the
\* writer and the inventory hold are versions of the objects, in order, and
\* whatever the informer has seen is in one of them.
THEOREM PipelineInvariant == Spec => []PipelineInv
<1>1. PipelineInv /\ [Next]_vars => PipelineInv'
  BY PipelineStep
<1> QED BY <1>1, PipelineInit, PTL DEF Spec

\* The messages, the writer's memory and the inventory are of their types: in
\* particular nothing is pending without a generation, and no object is in a
\* batch both as an upsert and as a delete.
THEOREM PipelineTypeCorrect == Spec => []TypeOK
<1>1. PipelineInv => TypeOK
  <2> SUFFICES ASSUME PipelineInv PROVE TypeOK
    OBVIOUS
  <2>1. (running = None) <=> (inf.pc = "none")
    BY InvFacts
  <2> QED BY <2>1 DEF PipelineInv, StateTyped, WriterTyped, Ordered, LogSound, TypeOK, EventRec,
                      ResyncRec, InfRec, RetainedRec, MemoryRec, UsedRec
<1> QED BY <1>1, PipelineInvariant, PTL

\* Once the channels are empty and nothing is pending, the inventory holds the
\* current version of every live object, unless it cannot be read or a late
\* removal dropped it (inventory_writer.go, flush and sendResync).
THEOREM LiveObjectsAreCurrent == Spec => []LiveIsCurrent
<1>1. PipelineInv => LiveIsCurrent
  <2> SUFFICES ASSUME PipelineInv, Drained, NEW u \in UIDs, VersionAt(log, u, Len(log)) # None,
                      u \notin lost, VersionAt(log, u, Len(log)) \notin Unreadable
               PROVE  store[u] = VersionAt(log, u, Len(log))
    BY DEF LiveIsCurrent, Live, Now, At
  <2>1. /\ Informed(inf) /\ inf.cursor = Len(log) /\ running # None
        /\ Range(eventCh) = {} /\ Range(resyncCh) = {} /\ Pending(w) = {} /\ w.retained = NoResync
    BY DEF Drained, Informed, Range
  <2>2. LiveFollowed(log, running, inf, Range(eventCh), Range(resyncCh), w, store, lost)
    BY DEF PipelineInv, Consistent
  <2>3. ~Carried(running, Range(eventCh), u) /\ ~Held(running, w, u)
    BY <2>1 DEF Carried, Held, Pending
  <2>4. ~Outstanding(running, Range(resyncCh), w)
    BY <2>1, NoMemoryFacts DEF Outstanding, Listed
  <2> QED BY <2>1, <2>2, <2>3, <2>4 DEF LiveFollowed
<1> QED BY <1>1, PipelineInvariant, PTL

\* Once the channels are empty and nothing is pending, no row of a deleted
\* object is left, but for the rows that no LIST of the generation accounted
\* for (inventory_writer.go, applyResyncSuccess).
THEOREM DeletedRowsAreGone == Spec => []GoneIsGone
<1>1. PipelineInv => GoneIsGone
  <2> SUFFICES ASSUME PipelineInv, Drained, NEW u \in UIDs \ (lost \cup left),
                      VersionAt(log, u, Len(log)) = None, store[u] # None
               PROVE  FALSE
    BY DEF GoneIsGone, Now, At
  <2>1. /\ Informed(inf) /\ inf.cursor = Len(log) /\ running # None
        /\ Range(eventCh) = {} /\ Range(resyncCh) = {} /\ Pending(w) = {} /\ w.retained = NoResync
    BY DEF Drained, Informed, Range
  <2>2. GoneFollowed(log, running, inf, Range(eventCh), Range(resyncCh), w, store, lost, left)
    BY DEF PipelineInv, Consistent
  <2>3. u \notin w.del
    BY <2>1 DEF Pending
  <2>4. ~Outstanding(running, Range(resyncCh), w)
    BY <2>1, NoMemoryFacts DEF Outstanding, Listed
  <2> QED BY <2>1, <2>2, <2>3, <2>4 DEF GoneFollowed, Shows
<1> QED BY <1>1, PipelineInvariant, PTL

\* The writer deletes a row only when its object is gone from the cluster,
\* whatever overtakes what, fails, is retried or ends (inventory_writer.go,
\* flush, sendResync and retryPendingResyncs).
THEOREM NeverDeletesLiveRows == Spec => NeverDeletesLive
<1>1. PipelineInv /\ [Next]_vars =>
         [\A u \in UIDs : store[u] # None /\ store'[u] = None => Now(u) = None]_vars
  <2> SUFFICES ASSUME PipelineInv, [Next]_vars, NEW u \in UIDs, store[u] # None, store'[u] = None
               PROVE  Now(u) = None
    OBVIOUS
  <2>1. GoneBy(log, u, Horizon(log, inf))
    BY PipelineStep
  <2>2. /\ Chronicle(log) /\ Len(log) \in 0 .. Len(log) /\ Horizon(log, inf) \in 0 .. Len(log)
        /\ Horizon(log, inf) <= Len(log)
    BY InvFacts, BoundFacts
  <2>3. GoneBy(log, u, Len(log))
    BY <2>1, <2>2 DEF Chronicle
  <2>4. VersionAt(log, u, Len(log)) = None
    BY <2>2, <2>3 DEF Chronicle
  <2> QED BY <2>4 DEF Now, At
<1> QED BY <1>1, PipelineInvariant, PTL DEF Spec, NeverDeletesLive
=============================================================================
