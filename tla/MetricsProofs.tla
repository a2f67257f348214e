---------------------------- MODULE MetricsProofs ---------------------------
(***************************************************************************)
(* Proofs about Metrics, for any metrics, events, queue capacity and range *)
(* of the counters: what InSeq adds up, an inductive invariant, and the    *)
(* two properties that follow from it.                                     *)
(***************************************************************************)
EXTENDS Metrics, FiniteSetTheorems, WellFoundedInduction, TLAPS

\* The time the provers may take at a step that names none of them.
USE SMTT(30), ZenonT(30)

-----------------------------------------------------------------------------
(* The sum of the reports of a sequence.                                   *)

\* A set of natural numbers that is not empty has a least one.
LEMMA Least ==
  ASSUME NEW S, S \subseteq Nat, S # {}
  PROVE  \E c \in S : \A d \in S : c <= d
<1> DEFINE R == {p \in Nat \X Nat : p[1] < p[2]}
<1>1. IsWellFoundedOn(R, Nat)
  BY Zenon, NatLessThanWellFounded DEF OpToRel
<1>2. PICK c \in S : \A d \in S : ~(<<d, c>> \in R)
  <2> HIDE DEF R
  <2> QED BY Zenon, <1>1, WFMin
<1>3. \A d \in S : c <= d
  <2> SUFFICES ASSUME NEW d \in S PROVE c <= d
    BY Zenon
  <2>1. c \in Nat /\ d \in Nat
    BY Zenon
  <2>2. ~(d < c)
    BY Zenon, <1>2, <2>1
  <2> QED BY ONLY SMTT(30), <2>1, <2>2
<1> QED BY Zenon, <1>3

\* f holds the sums of the first n values of v.
AddsUp(f, v, n) == f[0] = 0 /\ \A j \in 1..n : f[j] = f[j - 1] + v[j]

\* There are such sums,
LEMMA SumsExist ==
  ASSUME NEW n \in Nat, NEW v \in [1..n -> Nat]
  PROVE  \E f \in [0..n -> Nat] : AddsUp(f, v, n)
<1> DEFINE Has(k) == \E f \in [0..k -> Nat] : AddsUp(f, v, k)
<1> DEFINE Bad == {k \in 0..n : ~Has(k)}
<1> HIDE DEF Has
<1> SUFFICES ASSUME Bad # {} PROVE FALSE
  <2>1. Bad = {} => Has(n)
    OBVIOUS
  <2> QED BY Zenon, <2>1 DEF Has
<1>1. PICK k \in Bad : \A d \in Bad : k <= d
  <2>1. Bad \subseteq Nat
    OBVIOUS
  <2> HIDE DEF Bad
  <2> QED BY Zenon, <2>1, Least
<1>2. k \in 0..n /\ ~Has(k)
  BY Zenon
<1>3. CASE k = 0
  <2>1. AddsUp([j \in 0..0 |-> 0], v, 0)
    BY DEF AddsUp
  <2>2. [j \in 0..0 |-> 0] \in [0..0 -> Nat]
    BY Zenon
  <2> QED BY Zenon, <1>2, <1>3, <2>1, <2>2 DEF Has
<1>4. CASE k # 0
  <2>1. k - 1 \in 0..n /\ k - 1 \notin Bad
    <3> HIDE DEF Bad
    <3> QED BY <1>1, <1>2, <1>4
  <2>2. PICK f \in [0..(k - 1) -> Nat] : AddsUp(f, v, k - 1)
    BY Zenon, <2>1 DEF Has
  <2> DEFINE g == [j \in 0..k |-> IF j < k THEN f[j] ELSE f[k - 1] + v[k]]
  <2>3. v[k] \in Nat /\ f[k - 1] \in Nat
    BY <1>2, <1>4
  <2>4. g \in [0..k -> Nat]
    BY <1>2, <1>4, <2>3
  <2>5. g[0] = 0
    BY <1>2, <1>4, <2>2 DEF AddsUp
  <2>6. ASSUME NEW j \in 1..k PROVE g[j] = g[j - 1] + v[j]
    <3>1. CASE j = k
      BY <1>2, <1>4, <3>1
    <3>2. CASE j # k
      <4>1. j \in 1..(k - 1) /\ j \in 0..k /\ j - 1 \in 0..k /\ j < k /\ j - 1 < k
        BY <1>2, <1>4, <3>2
      <4>2. f[j] = f[j - 1] + v[j]
        BY Zenon, <2>2, <4>1 DEF AddsUp
      <4> QED BY Zenon, <4>1, <4>2
    <3> QED BY Zenon, <3>1, <3>2
  <2> HIDE DEF g
  <2>7. AddsUp(g, v, k)
    BY Zenon, <2>5, <2>6 DEF AddsUp
  <2> QED BY Zenon, <1>2, <2>4, <2>7 DEF Has
<1> QED BY Zenon, <1>3, <1>4

\* and only one choice of them.
LEMMA SumsUnique ==
  ASSUME NEW n \in Nat, NEW v, NEW f, NEW g, AddsUp(f, v, n), AddsUp(g, v, n)
  PROVE  f[n] = g[n]
<1> DEFINE Bad == {k \in 0..n : f[k] # g[k]}
<1> SUFFICES ASSUME Bad # {} PROVE FALSE
  OBVIOUS
<1>1. PICK k \in Bad : \A d \in Bad : k <= d
  <2>1. Bad \subseteq Nat
    OBVIOUS
  <2> HIDE DEF Bad
  <2> QED BY Zenon, <2>1, Least
<1>2. k \in 0..n /\ f[k] # g[k]
  BY Zenon
<1>3. k # 0
  BY Zenon, <1>2 DEF AddsUp
<1>4. k - 1 \in 0..n /\ k - 1 \notin Bad
  <2> HIDE DEF Bad
  <2> QED BY <1>1, <1>2, <1>3
<1>5. f[k - 1] = g[k - 1]
  BY Zenon, <1>4
<1>6. k \in 1..n
  BY <1>2, <1>3
<1> QED BY Zenon, <1>2, <1>5, <1>6 DEF AddsUp

\* What a report is worth.
LEMMA ValueType == ASSUME NEW x, NEW m PROVE Value(x, m) \in Nat
<1>1. CASE x \in Report
  <2>1. x[2] \in Nat
    BY <1>1, MetricsAssumption DEF Report
  <2> QED BY Zenon, <2>1 DEF Value
<1> QED BY Zenon, <1>1 DEF Value

\* InSeq is the last of any sums of the values.
LEMMA InSeqIs ==
  ASSUME NEW S, NEW s \in Seq(S), NEW m, NEW f \in [0..Len(s) -> Int],
         AddsUp(f, [j \in 1..Len(s) |-> Value(s[j], m)], Len(s))
  PROVE  InSeq(s, m) = f[Len(s)]
<1> DEFINE v == [j \in 1..Len(s) |-> Value(s[j], m)]
           Eq(h) == h = [j \in 0..Len(s) |-> IF j = 0 THEN 0 ELSE h[j - 1] + Value(s[j], m)]
           g == CHOOSE h : Eq(h)
<1>0. Len(s) \in Nat
  OBVIOUS
<1>1. InSeq(s, m) = g[Len(s)]
  BY Zenon DEF InSeq
<1>2. Eq(f)
  <2>1. f[0] = 0
    BY Zenon DEF AddsUp
  <2>2. ASSUME NEW j \in 1..Len(s) PROVE f[j] = f[j - 1] + Value(s[j], m)
    BY Zenon, <2>2 DEF AddsUp
  <2>3. ASSUME NEW j \in 0..Len(s)
        PROVE  f[j] = IF j = 0 THEN 0 ELSE f[j - 1] + Value(s[j], m)
    <3>1. j # 0 => j \in 1..Len(s)
      BY <1>0
    <3> QED BY Zenon, <2>1, <2>2, <3>1
  <2> QED BY Zenon, <2>3
<1>3. Eq(g)
  <2> HIDE DEF Eq
  <2> QED BY Zenon, <1>2
<1>4. AddsUp(g, v, Len(s))
  <2> HIDE DEF g
  <2>1. g[0] = 0
    BY <1>0, <1>3
  <2>2. ASSUME NEW j \in 1..Len(s) PROVE g[j] = g[j - 1] + v[j]
    <3>1. j \in 0..Len(s) /\ j # 0
      BY <1>0
    <3>2. g[j] = IF j = 0 THEN 0 ELSE g[j - 1] + Value(s[j], m)
      BY Zenon, <1>3, <3>1
    <3> QED BY Zenon, <3>1, <3>2
  <2> HIDE DEF v
  <2> QED BY Zenon, <2>1, <2>2 DEF AddsUp
<1> HIDE DEF g, v, Eq
<1> QED BY Zenon, <1>0, <1>1, <1>4, SumsUnique DEF v

\* A sequence has such sums.
LEMMA InSeqSums ==
  ASSUME NEW S, NEW s \in Seq(S), NEW m
  PROVE  \E f \in [0..Len(s) -> Nat] :
           AddsUp(f, [j \in 1..Len(s) |-> Value(s[j], m)], Len(s)) /\ InSeq(s, m) = f[Len(s)]
<1> DEFINE v == [j \in 1..Len(s) |-> Value(s[j], m)]
<1>1. v \in [1..Len(s) -> Nat] /\ Len(s) \in Nat
  BY ValueType
<1> HIDE DEF v
<1>2. PICK f \in [0..Len(s) -> Nat] : AddsUp(f, v, Len(s))
  BY Zenon, <1>1, SumsExist
<1>3. f \in [0..Len(s) -> Int]
  OBVIOUS
<1> QED BY Zenon, <1>2, <1>3, InSeqIs DEF v

\* The reports of a sequence add up to a number.
LEMMA InSeqType == ASSUME NEW S, NEW s \in Seq(S), NEW m PROVE InSeq(s, m) \in Nat
<1>1. PICK f \in [0..Len(s) -> Nat] : InSeq(s, m) = f[Len(s)]
  BY Zenon, InSeqSums
<1> QED BY <1>1

\* The empty sequence is worth nothing, and one element more adds its value.
LEMMA InSeqEmpty == ASSUME NEW m PROVE InSeq(<<>>, m) = 0
<1>1. <<>> \in Seq({}) /\ Len(<<>>) = 0
  OBVIOUS
<1>2. PICK f \in [0..0 -> Nat] : AddsUp(f, [j \in 1..0 |-> Value(<<>>[j], m)], 0) /\ InSeq(<<>>, m) = f[0]
  BY Zenon, <1>1, InSeqSums
<1> QED BY Zenon, <1>2 DEF AddsUp

\* A report put at the end of a sequence adds its value.
LEMMA InSeqAppend ==
  ASSUME NEW S, NEW s \in Seq(S), NEW x \in S, NEW m
  PROVE  InSeq(Append(s, x), m) = InSeq(s, m) + Value(x, m)
<1> DEFINE t == Append(s, x)
           n == Len(s)
           v == [j \in 1..Len(t) |-> Value(t[j], m)]
<1>1. PICK f \in [0..n -> Nat] :
        AddsUp(f, [j \in 1..n |-> Value(s[j], m)], n) /\ InSeq(s, m) = f[n]
  BY Zenon, InSeqSums
<1>2. t \in Seq(S) /\ n \in Nat /\ Len(t) = n + 1 /\ t[n + 1] = x /\ \A j \in 1..n : t[j] = s[j]
  OBVIOUS
<1>3. \A j \in 1..n : f[j] = f[j - 1] + Value(s[j], m)
  BY Zenon, <1>1 DEF AddsUp
<1>4. f[0] = 0 /\ f[n] \in Nat
  BY <1>1, <1>2 DEF AddsUp
<1> HIDE DEF t, n
<1> DEFINE g == [j \in 0..(n + 1) |-> IF j <= n THEN f[j] ELSE f[n] + Value(x, m)]
<1>5. g \in [0..(n + 1) -> Int] /\ g[n + 1] = f[n] + Value(x, m)
  BY <1>2, <1>4, ValueType
<1>6. g[0] = 0
  BY <1>2, <1>4
<1>7. ASSUME NEW j \in 1..(n + 1) PROVE g[j] = g[j - 1] + v[j]
  <2>1. CASE j = n + 1
    <3>1. j \in 0..(n + 1) /\ j - 1 \in 0..(n + 1) /\ j - 1 = n /\ ~(j <= n) /\ j - 1 <= n
      BY <1>2, <2>1
    <3>2. v[j] = Value(x, m)
      BY Zenon, <1>2, <2>1
    <3> QED BY Zenon, <3>1, <3>2
  <2>2. CASE j # n + 1
    <3>1. /\ j \in 1..n /\ j \in 0..(n + 1) /\ j - 1 \in 0..(n + 1)
          /\ j <= n /\ j - 1 <= n
      BY <1>2, <2>2
    <3>2. v[j] = Value(s[j], m)
      BY Zenon, <1>2, <3>1
    <3> QED BY Zenon, <1>3, <3>1, <3>2
  <2> QED BY Zenon, <2>1, <2>2
<1> HIDE DEF g, v
<1>8. AddsUp(g, v, n + 1)
  BY Zenon, <1>6, <1>7 DEF AddsUp
<1>9. InSeq(t, m) = g[n + 1]
  <2>1. g \in [0..Len(t) -> Int] /\ AddsUp(g, v, Len(t))
    BY Zenon, <1>2, <1>5, <1>8
  <2>2. InSeq(t, m) = g[Len(t)]
    BY Zenon, <1>2, <2>1, InSeqIs DEF v
  <2> QED BY Zenon, <1>2, <2>2
<1> QED BY Zenon, <1>1, <1>5, <1>9 DEF t

\* The first element is worth what the rest lacks.
LEMMA InSeqTail ==
  ASSUME NEW S, NEW s \in Seq(S), s # <<>>, NEW m
  PROVE  InSeq(s, m) = Value(Head(s), m) + InSeq(Tail(s), m)
<1> DEFINE t == Tail(s)
           n == Len(t)
           v == [j \in 1..n |-> Value(t[j], m)]
<1>1. PICK f \in [0..Len(s) -> Nat] :
        AddsUp(f, [j \in 1..Len(s) |-> Value(s[j], m)], Len(s)) /\ InSeq(s, m) = f[Len(s)]
  BY Zenon, InSeqSums
<1>2. t \in Seq(S) /\ n \in Nat /\ Len(s) = n + 1 /\ Head(s) = s[1] /\ \A j \in 1..n : t[j] = s[j + 1]
  OBVIOUS
<1>3. \A j \in 1..(n + 1) : f[j] = f[j - 1] + Value(s[j], m)
  BY Zenon, <1>1, <1>2 DEF AddsUp
<1>4. f[0] = 0 /\ f \in [0..(n + 1) -> Nat]
  BY Zenon, <1>1, <1>2 DEF AddsUp
<1> HIDE DEF t, n
<1>5. f[1] = Value(Head(s), m) /\ f[1] \in Nat /\ f[n + 1] \in Nat
  <2>1. 1 \in 1..(n + 1) /\ 1 - 1 = 0 /\ 1 \in 0..(n + 1) /\ n + 1 \in 0..(n + 1)
    BY <1>2
  <2>2. f[1] = 0 + Value(s[1], m)
    BY Zenon, <1>3, <1>4, <2>1
  <2> QED BY <1>2, <1>4, <2>1, <2>2, ValueType
<1> DEFINE g == [j \in 0..n |-> f[j + 1] - f[1]]
<1>6. \A j \in 0..n : f[j + 1] \in Nat
  BY <1>2, <1>4
<1>7. g \in [0..n -> Int]
  BY <1>5, <1>6
<1>8. ASSUME NEW j \in 1..n PROVE g[j] = g[j - 1] + v[j]
  <2>1. /\ j \in 0..n /\ j - 1 \in 0..n /\ j + 1 \in 1..(n + 1) /\ (j + 1) - 1 = j /\ (j - 1) + 1 = j
    BY <1>2
  <2>2. f[j + 1] = f[j] + Value(t[j], m)
    BY Zenon, <1>2, <1>3, <2>1
  <2>3. f[j] \in Nat /\ Value(t[j], m) \in Nat
    BY <1>2, <1>4, ValueType
  <2>4. g[j] = f[j + 1] - f[1] /\ g[j - 1] = f[j] - f[1] /\ v[j] = Value(t[j], m)
    BY Zenon, <2>1
  <2> QED BY ONLY SMTT(30), <1>5, <2>2, <2>3, <2>4
<1>9. g[0] = 0 /\ g[n] = f[n + 1] - f[1]
  BY <1>2, <1>5
<1> HIDE DEF g, v
<1>10. AddsUp(g, v, n)
  BY Zenon, <1>8, <1>9 DEF AddsUp
<1>11. InSeq(t, m) = g[n]
  BY Zenon, <1>2, <1>7, <1>10, InSeqIs DEF v, n
<1> QED BY <1>1, <1>2, <1>5, <1>9, <1>11 DEF t

-----------------------------------------------------------------------------
(* The inductive invariant.                                                *)

Item   == Report \cup {NoReport, Torn}
Taking == {"send", "get", "put"}
Place  == {"filter", "sleep", "next", "send", "get", "put", "post", "wait", "exited"}

\* A thread in the filter is at a metric of its list, with something to report.
PlaceAt(r) ==
  /\ pos[r] <= Len(ListOf(r)) + 1
  /\ InFilter(r) => pos[r] <= Len(ListOf(r)) /\ val[r] >= 1

PlaceInv == \A r \in Reporter : PlaceAt(r)

\* A counter holds part of the events counted.
EventInv ==
  /\ count \in [Metric -> 0..MaxCount] /\ lost \in [Metric -> Nat]
  /\ first \in [Metric -> 0..(UIntMod - 1)]
  /\ \A m \in Metric : last[m] <= count[m]

\* The threads have not met in the filter, which holds what one has taken.
FilterAt(r) ==
  /\ pc[r] = "get" => buf = <<Current(r), val[r]>>
  /\ pc[r] = "put" => msg = <<Current(r), val[r]>>

FilterInv ==
  /\ ~(InFilter("main") /\ InFilter("reporter")) /\ ~bad
  /\ \A r \in Reporter : FilterAt(r)

\* Every report on the way is whole.
WholeInv ==
  /\ mq \in Seq(Report) /\ wire \in Seq(Report)
  /\ prodPc = "write" => prodMsg \in Report

\* The collector has added c[m] to where it started; the rest is under way.
Wrap(n) == IF n < UIntMod THEN n ELSE n - UIntMod
SumAt(c, m) == counter[m] = Wrap(first[m] + c[m]) /\ c[m] + Underway(m) = count[m]
SumInv == \E c \in [Metric -> Nat] : \A m \in Metric : SumAt(c, m)

\* The reports the counter has to stand for: those queued or with the producer,
\* those lost (x), less the one that is not counted yet and those the other
\* branch has written.  Each of them, and the one a thread is making, took an
\* event from a counter.
Outstanding == Len(mq) + (IF prodPc \in {"write", "post"} THEN 1 ELSE 0)
AtPost      == IF \E r \in Reporter : pc[r] = "post" THEN 1 ELSE 0
InMaking    == IF \E r \in Reporter : pc[r] \in Taking THEN 1 ELSE 0
Reported    == {e \in Metric \X (1..MaxCount) : e[2] <= count[e[1]] - last[e[1]]}

\* n - k on a counter of 32 bits.
Diff(n, k) == IF n < k THEN (n + UIntMod) - k ELSE n - k

\* The counter for x lost reports; the other branch was given no more reports
\* than were made.
PendingFor(x) ==
  /\ pending = Diff(Outstanding + x, AtPost + elsewhere)
  /\ Outstanding + x + InMaking <= Cardinality(Reported)
ElsewhereInv == elsewhere + other + InMaking <= Cardinality(Reported)
PendingInv   == ElsewhereInv /\ \E x \in Nat : PendingFor(x)

Base == TypeOK /\ PlaceInv /\ EventInv
Flow == FilterInv /\ WholeInv /\ SumInv /\ PendingInv
MetricsInv == Base /\ (~overlap => Flow)

-----------------------------------------------------------------------------
(* The lists of metrics, and the two threads.                              *)

\* The lists of the two calls of Report() hold metrics.
LEMMA Lists ==
  ASSUME NEW r \in Reporter
  PROVE  /\ ListOf(r) \in Seq(Metric) /\ Len(ListOf(r)) \in 0..(Len(EnqList) + 1)
         /\ Len(EnqList) \in Nat
         /\ \A k \in 1..Len(ListOf(r)) : ListOf(r)[k] \in Metric
<1>1. EnqList \in Seq(Metric) /\ <<Drop>> \in Seq(Metric)
  BY MetricsAssumption DEF Metric
<1>2. ListOf(r) \in Seq(Metric) /\ Len(ListOf(r)) \in 0..(Len(EnqList) + 1) /\ Len(EnqList) \in Nat
  BY <1>1 DEF ListOf
<1> QED BY <1>2

\* There are finitely many metrics, and Drop is one.
LEMMA MetricFinite == IsFiniteSet(Metric) /\ Drop \in Metric
<1>1. IsFiniteSet(1..Len(EnqList))
  BY MetricsAssumption, FS_Interval
<1>2. EnqList \in [1..Len(EnqList) -> Enqueue]
  BY MetricsAssumption
<1>3. EnqList \in Surjection(1..Len(EnqList), Enqueue)
  <2> SUFFICES ASSUME NEW e \in Enqueue PROVE \E k \in 1..Len(EnqList) : EnqList[k] = e
    BY Zenon, <1>2 DEF Surjection
  <2> QED BY Zenon DEF Enqueue
<1>4. IsFiniteSet(Enqueue)
  BY Zenon, <1>1, <1>3, FS_Surjection
<1> QED BY Zenon, <1>4, FS_AddElement DEF Metric

\* UIntMod is positive, and no counter reaches it.
LEMMA Bounds == UIntMod \in Nat \ {0} /\ MaxCount < UIntMod /\ MaxCount \in Nat
<1>2. Cardinality(Metric) \in Nat /\ Cardinality(Metric) # 0
  BY Zenon, MetricFinite, FS_CardinalityType, FS_EmptySet
<1> DEFINE n == Cardinality(Metric)
<1>3. n \in Nat /\ n # 0 /\ MaxCount * n < UIntMod /\ MaxCount \in Nat /\ UIntMod \in Nat
  BY Zenon, <1>2, EventsAssumption, MetricsAssumption
<1> HIDE DEF n
<1>4. MaxCount * n >= MaxCount
  BY <1>3
<1> QED BY <1>3, <1>4

\* There are two threads.
LEMMA OtherIs == ASSUME NEW r \in Reporter PROVE Other(r) \in Reporter /\ Other(r) # r
<1>1. \E q \in Reporter : q # r
  BY Zenon DEF Reporter
<1> QED BY Zenon, <1>1 DEF Other

-----------------------------------------------------------------------------
(* Types, places and counts, whether or not the threads have met.          *)

\* Types, places and counters, at the start.
LEMMA BaseInit == Init => Base
<1> SUFFICES ASSUME Init PROVE Base
  BY Zenon
<1>1. 0 \in 0..(UIntMod - 1) /\ UIntMod - 1 \in 0..(UIntMod - 1) /\ 0 \in 0..MaxCount
  BY Bounds
<1>2. counter \in [Metric -> 0..(UIntMod - 1)]
  BY Zenon, <1>1 DEF Init
<1>3. TypeOK
  <2>1. pos \in [Reporter -> 1..(Len(EnqList) + 2)] /\ val \in [Reporter -> 0..MaxCount]
    BY <1>1, MetricsAssumption DEF Init
  <2>2. mq \in Seq(Item) /\ wire \in Seq(Report \cup {Torn}) /\ Len(mq) <= QCap
    BY MetricsAssumption DEF Init
  <2>3. pc \in [Reporter -> Place]
    BY Zenon DEF Init, Place
  <2>4. other \in 0..QCap /\ elsewhere \in Nat
    BY MetricsAssumption DEF Init
  <2> QED BY Zenon, <1>1, <1>2, <2>1, <2>2, <2>3, <2>4 DEF Init, TypeOK, Item, Place
<1>4. PlaceInv
  <2> SUFFICES ASSUME NEW r \in Reporter PROVE PlaceAt(r)
    BY Zenon DEF PlaceInv
  <2>1. pos[r] = 1 /\ ~InFilter(r)
    BY Zenon DEF Init, InFilter
  <2> QED BY <2>1, Lists DEF PlaceAt
<1>5. EventInv
  BY <1>1, <1>2 DEF Init, EventInv
<1> QED BY Zenon, <1>3, <1>4, <1>5 DEF Base

\* The parts of the type invariant.
ThreadType ==
  /\ pc \in [Reporter -> Place] /\ pos \in [Reporter -> 1..(Len(EnqList) + 2)]
  /\ val \in [Reporter -> 0..MaxCount]
FilterType == buf \in Item /\ msg \in Item /\ bad \in BOOLEAN /\ overlap \in BOOLEAN
QueueType  == /\ mq \in Seq(Item) /\ Len(mq) <= QCap /\ branch \in BOOLEAN /\ pending \in 0..(UIntMod - 1)
              /\ other \in 0..QCap /\ elsewhere \in Nat
ProdType   == prodPc \in {"none", "get", "write", "post"} /\ prodMsg \in Item
ColType    == /\ wire \in Seq(Report \cup {Torn}) /\ collecting \in BOOLEAN
              /\ counter \in [Metric -> 0..(UIntMod - 1)]
LastType   == last \in [Metric -> 0..(UIntMod - 1)]

\* TypeOK, part by part;
LEMMA TypeParts ==
  TypeOK <=> ThreadType /\ FilterType /\ QueueType /\ ProdType /\ ColType /\ LastType
BY Zenon DEF TypeOK, ThreadType, FilterType, QueueType, ProdType, ColType, LastType, Item, Place

\* the same of the next state.
LEMMA TypePartsNext ==
  TypeOK' <=> ThreadType' /\ FilterType' /\ QueueType' /\ ProdType' /\ ColType' /\ LastType'
BY Zenon DEF TypeOK, ThreadType, FilterType, QueueType, ProdType, ColType, LastType, Item, Place

\* Counting.
LEMMA CountBase == ASSUME Base, NEW m \in Metric, Count(m) PROVE Base'
<1>1. /\ ThreadType /\ FilterType /\ QueueType /\ ProdType /\ ColType /\ LastType
      /\ PlaceInv /\ EventInv
  BY Zenon, TypeParts DEF Base
<1>2. ThreadType' /\ FilterType' /\ QueueType' /\ ProdType' /\ ColType'
  BY Zenon, <1>1 DEF Count, ThreadType, FilterType, QueueType, ProdType, ColType,
     reportVars, filterVars, queueVars, prodVars, colVars
<1>3. /\ last[m] \in Nat /\ count[m] \in Nat /\ last[m] <= count[m] /\ count[m] < MaxCount
      /\ (last[m] + 1) % UIntMod = last[m] + 1
  BY <1>1, Bounds DEF Count, LastType, EventInv
<1>4. LastType' /\ EventInv'
  <2>1. last[m] + 1 \in 0..(UIntMod - 1) /\ count[m] + 1 \in 0..MaxCount
    BY <1>3, Bounds
  <2>2. /\ last' = [last EXCEPT ![m] = last[m] + 1] /\ count' = [count EXCEPT ![m] = count[m] + 1]
        /\ UNCHANGED <<lost, first>>
    BY Zenon, <1>3 DEF Count
  <2> QED BY <1>1, <1>3, <2>1, <2>2 DEF LastType, EventInv
<1>5. PlaceInv'
  BY Zenon, <1>1 DEF Count, PlaceInv, PlaceAt, InFilter, reportVars
<1> QED BY Zenon, <1>2, <1>4, <1>5, TypePartsNext DEF Base

\* A thread goes on, and its counters, the queue and the rest stay.
LEMMA GoesPlace ==
  ASSUME ThreadType, PlaceInv, NEW r \in Reporter, NEW from, NEW to \in Place,
         NEW p \in 1..(Len(EnqList) + 2),
         ReporterGoes(r, from, to, p), p <= Len(ListOf(r)) + 1,
         val' \in [Reporter -> 0..MaxCount], \A q \in Reporter : q # r => val'[q] = val[q],
         to \in Taking \cup {"post"} => p <= Len(ListOf(r)) /\ val'[r] >= 1
  PROVE  ThreadType' /\ PlaceInv'
<1>1. /\ pc' = [pc EXCEPT ![r] = to] /\ pos' = [pos EXCEPT ![r] = p]
      /\ pc \in [Reporter -> Place] /\ pos \in [Reporter -> 1..(Len(EnqList) + 2)]
  BY Zenon DEF ReporterGoes, ThreadType
<1>2. ThreadType'
  BY Zenon, <1>1 DEF ThreadType
<1>3. ASSUME NEW q \in Reporter PROVE PlaceAt(q)'
  <2>1. CASE q = r
    <3>1. pc'[q] = to /\ pos'[q] = p
      BY Zenon, <1>1, <2>1
    <3> QED BY Zenon, <2>1, <3>1 DEF PlaceAt, InFilter, Taking
  <2>2. CASE q # r
    <3>1. pc'[q] = pc[q] /\ pos'[q] = pos[q] /\ val'[q] = val[q] /\ PlaceAt(q)
      BY Zenon, <1>1, <2>2 DEF PlaceInv
    <3> QED BY Zenon, <3>1 DEF PlaceAt, InFilter
  <2> QED BY Zenon, <2>1, <2>2
<1> QED BY Zenon, <1>2, <1>3 DEF PlaceInv

\* The steps of Report() that touch neither counters nor reports.
QuietGoes ==
  \/ Wake \/ FilterLoopEnds \/ WaitEnds
  \/ \E r \in Reporter : ReportDone(r)

\* A thread that goes on outside the filter.
LEMMA QuietBase == ASSUME Base, QuietGoes PROVE Base'
<1>1. /\ ThreadType /\ FilterType /\ QueueType /\ ProdType /\ ColType /\ LastType
      /\ PlaceInv /\ EventInv
  BY Zenon, TypeParts DEF Base
<1>2. UNCHANGED <<last, val, filterVars, queueVars, prodVars, colVars, histVars>>
  BY Zenon DEF QuietGoes, Wake, FilterLoopEnds, WaitEnds, ReportDone
<1>3. /\ FilterType' /\ QueueType' /\ ProdType' /\ ColType' /\ LastType' /\ EventInv'
  BY Zenon, <1>1, <1>2 DEF FilterType, QueueType, ProdType, ColType, LastType, EventInv,
     filterVars, queueVars, prodVars, colVars, histVars
<1>4. PICK r \in Reporter, from \in Place, to \in Place \ (Taking \cup {"post"}) :
        ReporterGoes(r, from, to, 1)
  BY Zenon DEF QuietGoes, Wake, FilterLoopEnds, WaitEnds, ReportDone, Reporter, Place, Taking
<1>5. 1 \in 1..(Len(EnqList) + 2) /\ 1 <= Len(ListOf(r)) + 1
  BY Lists
<1>6. val' \in [Reporter -> 0..MaxCount] /\ \A q \in Reporter : q # r => val'[q] = val[q]
  BY Zenon, <1>1, <1>2 DEF ThreadType
<1>7. ThreadType' /\ PlaceInv'
  BY Zenon, <1>1, <1>4, <1>5, <1>6, GoesPlace
<1> QED BY Zenon, <1>3, <1>7, TypePartsNext DEF Base

\* What Exchange takes from a counter.
LEMMA ExchangeFacts ==
  ASSUME Base, NEW r \in Reporter, Exchange(r)
  PROVE  /\ pos[r] \in 1..Len(ListOf(r)) /\ Current(r) \in Metric
         /\ last[Current(r)] \in 0..MaxCount
         /\ last' = [last EXCEPT ![Current(r)] = 0] /\ val' = [val EXCEPT ![r] = last[Current(r)]]
<1>1. ThreadType /\ LastType /\ EventInv
  BY Zenon, TypeParts DEF Base
<1>2. pos[r] \in 1..Len(ListOf(r))
  BY <1>1, Lists DEF ThreadType, Exchange
<1>3. Current(r) \in Metric
  BY Zenon, <1>2, Lists DEF Current
<1>4. last[Current(r)] \in 0..MaxCount
  BY <1>1, <1>3, Bounds DEF LastType, EventInv
<1> QED BY Zenon, <1>2, <1>3, <1>4 DEF Exchange

\* Taking a counter.
LEMMA ExchangeBase == ASSUME Base, NEW r \in Reporter, Exchange(r) PROVE Base'
<1>1. /\ ThreadType /\ FilterType /\ QueueType /\ ProdType /\ ColType /\ LastType
      /\ PlaceInv /\ EventInv
  BY Zenon, TypeParts DEF Base
<1>2. UNCHANGED <<filterVars, queueVars, prodVars, colVars, count, lost, first, elsewhere>>
  BY Zenon DEF Exchange
<1>3. QueueType' /\ ProdType' /\ ColType' /\ FilterType'
  <2>1. overlap' \in BOOLEAN
    BY Zenon DEF Exchange
  <2> QED BY Zenon, <1>1, <1>2, <2>1 DEF QueueType, ProdType, ColType, FilterType,
     queueVars, prodVars, colVars, filterVars
<1> DEFINE m == Current(r)
<1>4. /\ pos[r] \in 1..Len(ListOf(r)) /\ m \in Metric /\ last[m] \in 0..MaxCount
      /\ last' = [last EXCEPT ![m] = 0] /\ val' = [val EXCEPT ![r] = last[m]]
  BY Zenon, ExchangeFacts
<1>5. \/ ReporterGoes(r, "next", "next", pos[r] + 1)
      \/ ReporterGoes(r, "next", "send", pos[r]) /\ last[m] # 0
  BY Zenon DEF Exchange
<1> HIDE DEF m
<1>6. LastType' /\ EventInv'
  BY <1>1, <1>2, <1>4, Bounds DEF LastType, EventInv
<1>7. val' \in [Reporter -> 0..MaxCount] /\ val'[r] = last[m] /\ \A q \in Reporter : q # r => val'[q] = val[q]
  BY Zenon, <1>1, <1>4 DEF ThreadType
<1>8. ThreadType' /\ PlaceInv'
  <2>1. pos[r] + 1 <= Len(ListOf(r)) + 1 /\ pos[r] <= Len(ListOf(r)) + 1 /\ pos[r] <= Len(ListOf(r))
        /\ pos[r] \in 1..(Len(EnqList) + 2) /\ pos[r] + 1 \in 1..(Len(EnqList) + 2)
    BY <1>4, Lists
  <2>2. "next" \in Place /\ "send" \in Place /\ "next" \notin Taking \cup {"post"}
    BY Zenon DEF Place, Taking
  <2>3. last[m] # 0 => val'[r] >= 1
    BY <1>4, <1>7
  <2> QED BY Zenon, <1>1, <1>5, <1>7, <2>1, <2>2, <2>3, GoesPlace
<1> QED BY Zenon, <1>3, <1>6, <1>8, TypePartsNext DEF Base

\* The steps of a thread inside the filter.
FilterStep(r) == SendString(r) \/ GetString(r) \/ GetTorn(r) \/ PutReport(r) \/ PostReport(r)

\* A thread inside the filter is at one of its metrics.
LEMMA AtMetric ==
  ASSUME Base, NEW r \in Reporter, InFilter(r)
  PROVE  /\ pos[r] \in 1..Len(ListOf(r)) /\ Current(r) \in Metric
         /\ val[r] \in 1..MaxCount /\ <<Current(r), val[r]>> \in Report
<1>1. ThreadType /\ PlaceAt(r)
  BY Zenon, TypeParts DEF Base, PlaceInv
<1>2. pos[r] \in 1..Len(ListOf(r)) /\ val[r] \in 1..MaxCount
  BY <1>1, Lists DEF ThreadType, PlaceAt
<1>3. Current(r) \in Metric
  BY Zenon, <1>2, Lists DEF Current
<1> QED BY Zenon, <1>2, <1>3 DEF Report

\* The thread that goes through the filter.
LEMMA FilterThreads ==
  ASSUME Base, NEW r \in Reporter, FilterStep(r)
  PROVE  ThreadType' /\ PlaceInv' /\ InFilter(r)
<1>1. ThreadType /\ PlaceInv
  BY Zenon, TypeParts DEF Base
<1>2. InFilter(r) /\ UNCHANGED val
  BY Zenon DEF FilterStep, SendString, GetString, GetTorn, PutReport, PostReport, ReporterGoes, InFilter
<1>3. PICK from \in Place, to \in Place, p \in {pos[r], pos[r] + 1} :
        ReporterGoes(r, from, to, p) /\ (p = pos[r] \/ to = "next")
  BY Zenon DEF FilterStep, SendString, GetString, GetTorn, PutReport, PostReport, Place
<1>4. pos[r] \in 1..Len(ListOf(r)) /\ val[r] \in 1..MaxCount
  BY Zenon, <1>2, AtMetric
<1>5. /\ p \in 1..(Len(EnqList) + 2) /\ p <= Len(ListOf(r)) + 1 /\ val'[r] >= 1
      /\ p = pos[r] => p <= Len(ListOf(r))
  BY <1>2, <1>3, <1>4, Lists
<1>6. "next" \notin Taking \cup {"post"}
  BY Zenon DEF Taking
<1>7. val' \in [Reporter -> 0..MaxCount] /\ \A q \in Reporter : q # r => val'[q] = val[q]
  BY Zenon, <1>1, <1>2 DEF ThreadType
<1> QED BY Zenon, <1>1, <1>2, <1>3, <1>5, <1>6, <1>7, GoesPlace

\* A report that is lost is counted as lost.
LEMMA LosesType == ASSUME lost \in [Metric -> Nat], NEW x, Loses(x) PROVE lost' \in [Metric -> Nat]
<1>1. \A m \in Metric : lost[m] + Value(x, m) \in Nat
  BY ValueType
<1> QED BY Zenon, <1>1 DEF Loses

\* Going through the filter.
LEMMA FilterBase == ASSUME Base, NEW r \in Reporter, FilterStep(r) PROVE Base'
<1>1. /\ FilterType /\ QueueType /\ ProdType /\ ColType /\ LastType /\ EventInv
  BY Zenon, TypeParts DEF Base
<1>2. ThreadType' /\ PlaceInv' /\ InFilter(r)
  BY Zenon, FilterThreads
<1>3. UNCHANGED <<last, prodVars, colVars, branch, count, first, overlap, elsewhere>>
  BY Zenon DEF FilterStep, SendString, GetString, GetTorn, PutReport, PostReport, queueVars, histVars
<1>4. ProdType' /\ ColType' /\ LastType'
  BY Zenon, <1>1, <1>3 DEF ProdType, ColType, LastType, prodVars, colVars
<1>5. FilterType'
  <2>1. <<Current(r), val[r]>> \in Item /\ NoReport \in Item /\ Torn \in Item
    BY Zenon, <1>2, AtMetric DEF Item
  <2>2. buf' \in Item /\ msg' \in Item /\ bad' \in BOOLEAN
    BY Zenon, <1>1, <2>1 DEF FilterStep, SendString, GetString, GetTorn, PutReport, PostReport,
       FilterType, filterVars
  <2> QED BY Zenon, <1>1, <1>3, <2>2 DEF FilterType
<1>6. QueueType' /\ EventInv'
  <2>1. CASE SendString(r) \/ GetString(r) \/ GetTorn(r)
    BY Zenon, <1>1, <2>1 DEF SendString, GetString, GetTorn, QueueType, EventInv, queueVars, histVars
  <2>2. CASE PutReport(r)
    <3>1. EventInv'
      <4>1. lost' \in [Metric -> Nat]
        BY Zenon, <1>1, <2>2, LosesType DEF PutReport, EventInv
      <4> QED BY Zenon, <1>1, <1>3, <4>1 DEF EventInv
    <3>2. mq' \in Seq(Item) /\ Len(mq') <= QCap
      <4>1. CASE mq' = mq
        BY Zenon, <1>1, <4>1 DEF QueueType
      <4>2. CASE mq' = Append(mq, msg) /\ Len(mq) < QCap
        BY <1>1, <4>2, MetricsAssumption DEF QueueType, FilterType
      <4> QED BY Zenon, <2>2, <4>1, <4>2 DEF PutReport
    <3>3. other' \in 0..QCap
      BY <1>1, <2>2, MetricsAssumption DEF PutReport, QueueType
    <3> QED BY Zenon, <1>1, <2>2, <3>1, <3>2, <3>3 DEF PutReport, QueueType
  <2>3. CASE PostReport(r)
    <3>1. pending' \in 0..(UIntMod - 1)
      BY <1>1, <2>3, Bounds DEF PostReport, QueueType
    <3> QED BY Zenon, <1>1, <2>3, <3>1 DEF PostReport, QueueType, EventInv, histVars
  <2> QED BY Zenon, <2>1, <2>2, <2>3 DEF FilterStep
<1> QED BY Zenon, <1>2, <1>4, <1>5, <1>6, TypePartsNext DEF Base

\* The steps of the producer thread, and of the collector.
ProdStep == Open \/ ProdGet \/ ProdWrite \/ ProdPost \/ ProdFails

\* The producer thread.
LEMMA ProdBase == ASSUME Base, ProdStep PROVE Base'
<1>1. /\ ThreadType /\ FilterType /\ QueueType /\ ProdType /\ ColType /\ LastType
      /\ PlaceInv /\ EventInv
  BY Zenon, TypeParts DEF Base
<1>2. UNCHANGED <<last, reportVars, filterVars, count, first, overlap>>
  BY Zenon DEF ProdStep, Open, ProdGet, ProdWrite, ProdPost, ProdFails, ProducerGoes
<1>3. ThreadType' /\ FilterType' /\ LastType' /\ PlaceInv'
  BY Zenon, <1>1, <1>2 DEF ThreadType, FilterType, LastType, PlaceInv, PlaceAt, InFilter,
     reportVars, filterVars
<1>4. EventInv'
  <2>1. lost' \in [Metric -> Nat]
    BY Zenon, <1>1, LosesType DEF ProdStep, Open, ProdGet, ProdWrite, ProdPost, ProdFails, EventInv
  <2> QED BY Zenon, <1>1, <1>2, <2>1 DEF EventInv
<1>5. ProdType' /\ QueueType' /\ ColType'
  <2>1. CASE Open
    BY Zenon, <1>1, <2>1 DEF Open, ProducerGoes, ProdType, QueueType, ColType, colVars
  <2>2. CASE ProdGet
    <3>1. Head(mq) \in Item /\ Tail(mq) \in Seq(Item) /\ Len(Tail(mq)) <= QCap
      BY <1>1, <2>2, MetricsAssumption DEF ProdGet, QueueType
    <3> QED BY Zenon, <1>1, <2>2, <3>1 DEF ProdGet, ProducerGoes, ProdType, QueueType, ColType, colVars
  <2>3. CASE ProdWrite
    <3>1. prodMsg \in Report \cup {Torn}
      BY Zenon, <1>1, <2>3 DEF ProdWrite, ProdType, Item
    <3>2. wire' \in Seq(Report \cup {Torn})
      BY <1>1, <2>3, <3>1 DEF ProdWrite, ColType
    <3> QED BY Zenon, <1>1, <2>3, <3>2 DEF ProdWrite, ProducerGoes, ProdType, QueueType, ColType, queueVars
  <2>4. CASE ProdPost
    <3>1. pending' \in 0..(UIntMod - 1)
      BY <1>1, <2>4, Bounds DEF ProdPost, QueueType
    <3>2. NoReport \in Item
      BY Zenon DEF Item
    <3> QED BY Zenon, <1>1, <2>4, <3>1, <3>2 DEF ProdPost, ProducerGoes, ProdType, QueueType, ColType, colVars
  <2>5. CASE ProdFails
    <3>1. mq' \in Seq(Item) /\ Len(mq') <= QCap
      <4>1. CASE mq' = mq
        BY Zenon, <1>1, <4>1 DEF QueueType
      <4>2. CASE mq' = Append(mq, prodMsg) /\ Len(mq) < QCap
        BY <1>1, <4>2, MetricsAssumption DEF QueueType, ProdType
      <4> QED BY Zenon, <2>5, <4>1, <4>2 DEF ProdFails
    <3>2. NoReport \in Item
      BY Zenon DEF Item
    <3> QED BY Zenon, <1>1, <2>5, <3>1, <3>2
            DEF ProdFails, ProducerGoes, ProdType, QueueType, ColType, colVars
  <2> QED BY Zenon, <2>1, <2>2, <2>3, <2>4, <2>5 DEF ProdStep
<1> QED BY Zenon, <1>3, <1>4, <1>5, TypePartsNext DEF Base

\* The thread of the other branch.
LEMMA OtherBase == ASSUME Base, OtherPost PROVE Base'
<1>1. /\ ThreadType /\ FilterType /\ QueueType /\ ProdType /\ ColType /\ LastType
      /\ PlaceInv /\ EventInv
  BY Zenon, TypeParts DEF Base
<1>2. ThreadType' /\ FilterType' /\ ProdType' /\ ColType' /\ LastType' /\ PlaceInv' /\ EventInv'
  BY Zenon, <1>1 DEF OtherPost, ThreadType, FilterType, ProdType, ColType, LastType, PlaceInv, PlaceAt,
     EventInv, InFilter, reportVars, filterVars, prodVars, colVars
<1>3. pending' \in 0..(UIntMod - 1) /\ other' \in 0..QCap /\ elsewhere' \in Nat
  <2>1. /\ pending \in 0..(UIntMod - 1) /\ other \in 0..QCap /\ elsewhere \in Nat
        /\ other > 0 /\ other' = other - 1
        /\ pending' \in {pending, (pending + UIntMod - 1) % UIntMod} /\ elsewhere' \in {elsewhere, elsewhere + 1}
    BY Zenon, <1>1 DEF OtherPost, QueueType
  <2> QED BY ONLY SMTT(30), <2>1, Bounds, MetricsAssumption
<1>4. QueueType'
  BY Zenon, <1>1, <1>3 DEF OtherPost, QueueType
<1> QED BY Zenon, <1>2, <1>4, TypePartsNext DEF Base

\* The collector.
LEMMA CollectBase == ASSUME Base, Collect PROVE Base'
<1>1. /\ ThreadType /\ FilterType /\ QueueType /\ ProdType /\ ColType /\ LastType
      /\ PlaceInv /\ EventInv
  BY Zenon, TypeParts DEF Base
<1>2. ThreadType' /\ FilterType' /\ QueueType' /\ ProdType' /\ LastType' /\ PlaceInv' /\ EventInv'
  BY Zenon, <1>1 DEF Collect, ThreadType, FilterType, QueueType, ProdType, LastType, PlaceInv, PlaceAt,
     EventInv, InFilter, reportVars, filterVars, queueVars, prodVars, histVars
<1>3. Head(wire) \in Report \cup {Torn} /\ Tail(wire) \in Seq(Report \cup {Torn})
  BY <1>1 DEF Collect, ColType
<1>4. counter' \in [Metric -> 0..(UIntMod - 1)]
  <2>1. CASE Head(wire) = Torn
    BY Zenon, <1>1, <2>1 DEF Collect, ColType
  <2>2. CASE Head(wire) # Torn
    <3> DEFINE m == Head(wire)[1]
               n == Head(wire)[2]
    <3>1. m \in Metric /\ n \in 1..MaxCount
      BY Zenon, <1>3, <2>2 DEF Report
    <3>2. counter' = [counter EXCEPT ![m] = Add(counter[m], n)]
      BY Zenon, <2>2 DEF Collect
    <3> HIDE DEF m, n
    <3>3. Add(counter[m], n) \in 0..(UIntMod - 1)
      BY <1>1, <3>1, Bounds DEF Add, ColType
    <3> QED BY Zenon, <1>1, <3>1, <3>2, <3>3 DEF ColType
  <2> QED BY Zenon, <2>1, <2>2
<1>5. ColType'
  BY Zenon, <1>3, <1>4 DEF Collect, ColType
<1> QED BY Zenon, <1>2, <1>5, TypePartsNext DEF Base

\* The steps, by kind.
LEMMA NextKinds ==
  ASSUME Next
  PROVE  \/ \E m \in Metric : Count(m)
         \/ QuietGoes \/ Collect \/ ProdStep \/ OtherPost
         \/ \E r \in Reporter : Exchange(r) \/ FilterStep(r)
<1>1. Drop \in Metric /\ Enqueue \subseteq Metric
  BY Zenon DEF Metric
<1> QED BY Zenon, <1>1 DEF Next, Processed, Dropped, QuietGoes, ProdStep, FilterStep

\* Types, places and counters, after any step.
LEMMA BaseStep == ASSUME Base, [Next]_vars PROVE Base'
<1>1. CASE Next
  BY Zenon, <1>1, NextKinds, CountBase, QuietBase, ExchangeBase, FilterBase, ProdBase, OtherBase, CollectBase
<1>2. CASE UNCHANGED vars
  BY Zenon, <1>2 DEF Base, TypeOK, PlaceInv, PlaceAt, EventInv, InFilter, vars, reportVars, filterVars,
     queueVars, prodVars, colVars, histVars
<1> QED BY Zenon, <1>1, <1>2

-----------------------------------------------------------------------------
(* What one thread holds when the other is not in the filter.              *)

HandFor(p, q, w, m) ==
  LET mine == {r \in Reporter : p[r] \in Taking /\ ListOf(r)[q[r]] = m}
  IN  IF mine = {} THEN 0 ELSE w[CHOOSE r \in mine : TRUE]
PostFor(p) == IF \E r \in Reporter : p[r] = "post" THEN 1 ELSE 0
MakeFor(p) == IF \E r \in Reporter : p[r] \in Taking THEN 1 ELSE 0

OnlyBy(r, p, q, w) ==
  /\ \A m : HandFor(p, q, w, m) = IF p[r] \in Taking /\ ListOf(r)[q[r]] = m THEN w[r] ELSE 0
  /\ PostFor(p) = IF p[r] = "post" THEN 1 ELSE 0
  /\ MakeFor(p) = IF p[r] \in Taking THEN 1 ELSE 0

\* InHand, AtPost and InMaking depend on the threads only, in this state
LEMMA ForNow ==
  /\ \A m : InHand(m) = HandFor(pc, pos, val, m)
  /\ AtPost = PostFor(pc) /\ InMaking = MakeFor(pc)
BY Zenon DEF InHand, HandFor, Current, AtPost, PostFor, InMaking, MakeFor, Taking

\* and in the next.
LEMMA ForNext ==
  /\ \A m : InHand(m)' = HandFor(pc', pos', val', m)
  /\ AtPost' = PostFor(pc') /\ InMaking' = MakeFor(pc')
BY Zenon DEF InHand, HandFor, Current, AtPost, PostFor, InMaking, MakeFor, Taking

\* With one thread outside the filter, they are those of the other.
LEMMA OneHand ==
  ASSUME NEW p, NEW q, NEW w, NEW r \in Reporter, NEW o \in Reporter, o # r,
         p[o] \notin Taking \cup {"post"}
  PROVE  OnlyBy(r, p, q, w)
<1>1. \A k \in Reporter : k = r \/ k = o
  BY Zenon DEF Reporter
<1>2. ASSUME NEW m
      PROVE  HandFor(p, q, w, m) = IF p[r] \in Taking /\ ListOf(r)[q[r]] = m THEN w[r] ELSE 0
  <2> DEFINE mine == {k \in Reporter : p[k] \in Taking /\ ListOf(k)[q[k]] = m}
  <2>0. HandFor(p, q, w, m) = IF mine = {} THEN 0 ELSE w[CHOOSE k \in mine : TRUE]
    BY Zenon DEF HandFor
  <2>1. CASE p[r] \in Taking /\ ListOf(r)[q[r]] = m
    <3>1. mine = {r}
      BY Zenon, <1>1, <2>1
    <3>2. (CHOOSE k \in {r} : TRUE) = r
      BY Zenon
    <3> HIDE DEF mine
    <3> QED BY Zenon, <2>0, <2>1, <3>1, <3>2
  <2>2. CASE ~(p[r] \in Taking /\ ListOf(r)[q[r]] = m)
    <3>1. mine = {}
      BY Zenon, <1>1, <2>2
    <3> HIDE DEF mine
    <3> QED BY Zenon, <2>0, <2>2, <3>1
  <2> QED BY Zenon, <2>1, <2>2
<1>3. PostFor(p) = IF p[r] = "post" THEN 1 ELSE 0
  BY Zenon, <1>1 DEF PostFor
<1>4. MakeFor(p) = IF p[r] \in Taking THEN 1 ELSE 0
  BY Zenon, <1>1 DEF MakeFor
<1> QED BY Zenon, <1>2, <1>3, <1>4 DEF OnlyBy

\* The other thread is not in the filter.
LEMMA Apart ==
  ASSUME FilterInv, NEW r \in Reporter, InFilter(r)
  PROVE  Other(r) \in Reporter /\ Other(r) # r /\ ~InFilter(Other(r))
<1>1. Other(r) \in Reporter /\ Other(r) # r
  BY Zenon, OtherIs
<1>2. \/ r = "main" /\ Other(r) = "reporter"
      \/ r = "reporter" /\ Other(r) = "main"
  BY Zenon, <1>1 DEF Reporter
<1> QED BY Zenon, <1>1, <1>2 DEF FilterInv

-----------------------------------------------------------------------------
(* The parts that a step leaves alone.                                     *)

\* The filter, while the threads stay where they are.
LEMMA FilterKept == ASSUME FilterInv, UNCHANGED <<reportVars, filterVars>> PROVE FilterInv'
BY Zenon DEF FilterInv, FilterAt, InFilter, Current, reportVars, filterVars

\* The reports on the way, while none moves.
LEMMA WholeKept == ASSUME WholeInv, UNCHANGED <<mq, wire, prodPc, prodMsg>> PROVE WholeInv'
BY Zenon DEF WholeInv

\* The sums, while nothing is counted or added up.
LEMMA SumKept ==
  ASSUME SumInv, UNCHANGED <<counter, first, count>>, \A m \in Metric : Underway(m)' = Underway(m)
  PROVE  SumInv'
<1>1. PICK c \in [Metric -> Nat] : \A m \in Metric : SumAt(c, m)
  BY Zenon DEF SumInv
<1>2. \A m \in Metric : SumAt(c, m)'
  BY Zenon, <1>1 DEF SumAt
<1> QED BY Zenon, <1>2 DEF SumInv

\* The counter of pending reports, while none is made or written.
LEMMA PendingKept ==
  ASSUME PendingInv, pending' = pending, Outstanding' = Outstanding, UNCHANGED <<count, last, other, elsewhere>>,
         AtPost' = AtPost, InMaking' = InMaking
  PROVE  PendingInv'
<1>1. Reported' = Reported
  BY Zenon DEF Reported
<1> QED BY Zenon, <1>1 DEF PendingInv, PendingFor, ElsewhereInv, Diff

\* What the producer thread holds.
Carried(m) == IF prodPc = "write" THEN Value(prodMsg, m) ELSE 0

\* The terms of what is under way are numbers.
LEMMA Terms ==
  ASSUME Base, Flow, NEW m \in Metric
  PROVE  /\ last[m] \in Nat /\ InHand(m) \in Nat /\ InSeq(mq, m) \in Nat /\ InSeq(wire, m) \in Nat
         /\ lost[m] \in Nat /\ Carried(m) \in Nat /\ count[m] \in Nat
         /\ Underway(m) = last[m] + InHand(m) + InSeq(mq, m) + InSeq(wire, m) + lost[m] + Carried(m)
<1>1. last[m] \in Nat /\ lost[m] \in Nat /\ count[m] \in Nat
  <2>1. LastType /\ EventInv
    BY Zenon, TypeParts DEF Base
  <2> QED BY <2>1 DEF LastType, EventInv
<1>2. InSeq(mq, m) \in Nat /\ InSeq(wire, m) \in Nat
  BY Zenon, InSeqType DEF Flow, WholeInv
<1>3. Carried(m) \in Nat
  BY Zenon, ValueType DEF Carried
<1>4. InHand(m) \in Nat
  <2>1. PICK r \in Reporter : ~InFilter(r)
    BY Zenon DEF Flow, FilterInv, Reporter
  <2>2. PICK o \in Reporter : o # r
    BY Zenon, OtherIs
  <2>3. pc[r] \notin Taking \cup {"post"}
    BY Zenon, <2>1 DEF InFilter, Taking
  <2>4. val[o] \in Nat
    <3>1. val \in [Reporter -> 0..MaxCount]
      BY Zenon, TypeParts DEF Base, ThreadType
    <3> QED BY <2>2, <3>1
  <2>5. OnlyBy(o, pc, pos, val)
    BY Zenon, <2>2, <2>3, OneHand
  <2>6. InHand(m) \in {val[o], 0}
    BY Zenon, <2>5, ForNow DEF OnlyBy
  <2> QED BY <2>4, <2>6
<1> QED BY Zenon, <1>1, <1>2, <1>3, <1>4 DEF Underway, Carried

\* What is under way in the next state.
LEMMA UnderwayNext ==
  \A m : Underway(m)' = last'[m] + InHand(m)' + InSeq(mq', m) + InSeq(wire', m) + lost'[m] + Carried(m)'
BY Zenon DEF Underway, Carried, InSeq

-----------------------------------------------------------------------------
(* The steps, while the threads have not met.                              *)

\* A counter of 32 bits that goes once around.
LEMMA WrapsOnce ==
  ASSUME NEW b \in Nat, b < 2 * UIntMod
  PROVE  b % UIntMod = Wrap(b)
<1>1. UIntMod \in Nat \ {0}
  BY Zenon, Bounds
<1>2. CASE b < UIntMod
  BY ONLY SMTT(30), <1>1, <1>2, b \in Nat DEF Wrap
<1>3. CASE b >= UIntMod
  <2>1. b - UIntMod \in 0..(UIntMod - 1) /\ b = UIntMod * 1 + (b - UIntMod)
    BY <1>1, <1>3
  <2> QED BY <1>1, <1>3, <2>1 DEF Wrap
<1> QED BY <1>1, <1>2, <1>3

\* One more, and one less, on a counter of 32 bits.
LEMMA Counted ==
  ASSUME NEW p \in Nat, p < UIntMod
  PROVE  /\ (p + 1) % UIntMod = IF p + 1 = UIntMod THEN 0 ELSE p + 1
         /\ (p + UIntMod - 1) % UIntMod = IF p = 0 THEN UIntMod - 1 ELSE p - 1
<1>1. UIntMod \in Nat \ {0}
  BY Zenon, Bounds
<1> DEFINE u == p + 1
           d == p + UIntMod - 1
<1>2. u \in Nat /\ u < 2 * UIntMod /\ d \in Nat /\ d < 2 * UIntMod /\ u = p + 1 /\ d = p + UIntMod - 1
  BY ONLY SMTT(30), <1>1, p \in Nat, p < UIntMod
<1> HIDE DEF u, d
<1>3. u % UIntMod = Wrap(u) /\ d % UIntMod = Wrap(d)
  BY Zenon, <1>2, WrapsOnce
<1>4. /\ Wrap(u) = IF p + 1 = UIntMod THEN 0 ELSE p + 1
      /\ Wrap(d) = IF p = 0 THEN UIntMod - 1 ELSE p - 1
  BY ONLY SMTT(30), <1>1, <1>2, p \in Nat, p < UIntMod DEF Wrap
<1> QED BY Zenon, <1>3, <1>4 DEF u, d

\* Counting on a difference.
LEMMA DiffCounts ==
  ASSUME NEW n \in Nat, NEW k \in Nat, n < UIntMod, k <= UIntMod
  PROVE  /\ Diff(n, k) \in Nat /\ Diff(n, k) < UIntMod /\ Diff(n + 1, k + 1) = Diff(n, k)
         /\ k + 1 <= UIntMod => (Diff(n, k + 1) + 1) % UIntMod = Diff(n, k)
         /\ k + 1 <= UIntMod => (Diff(n, k) + UIntMod - 1) % UIntMod = Diff(n, k + 1)
         /\ n + 1 < UIntMod => (Diff(n + 1, k) + UIntMod - 1) % UIntMod = Diff(n, k)
<1>1. UIntMod \in Nat \ {0}
  BY Zenon, Bounds
<1>2. Diff(n, k) \in Nat /\ Diff(n, k) < UIntMod /\ Diff(n + 1, k + 1) = Diff(n, k)
  BY ONLY SMTT(30), <1>1, n \in Nat, k \in Nat, n < UIntMod, k <= UIntMod DEF Diff
<1>3. ASSUME k + 1 <= UIntMod PROVE (Diff(n, k + 1) + 1) % UIntMod = Diff(n, k)
  <2>1. Diff(n, k + 1) \in Nat /\ Diff(n, k + 1) < UIntMod
    BY ONLY SMTT(30), <1>1, <1>3, n \in Nat, k \in Nat, n < UIntMod DEF Diff
  <2>2. (Diff(n, k + 1) + 1) % UIntMod
          = IF Diff(n, k + 1) + 1 = UIntMod THEN 0 ELSE Diff(n, k + 1) + 1
    BY Zenon, <2>1, Counted
  <2>3. (IF Diff(n, k + 1) + 1 = UIntMod THEN 0 ELSE Diff(n, k + 1) + 1) = Diff(n, k)
    BY ONLY SMTT(30), <1>1, <1>3, n \in Nat, k \in Nat, n < UIntMod DEF Diff
  <2> QED BY ONLY SMTT(30), <2>2, <2>3
<1>4. ASSUME k + 1 <= UIntMod PROVE (Diff(n, k) + UIntMod - 1) % UIntMod = Diff(n, k + 1)
  <2>1. (Diff(n, k) + UIntMod - 1) % UIntMod = IF Diff(n, k) = 0 THEN UIntMod - 1 ELSE Diff(n, k) - 1
    BY Zenon, <1>2, Counted
  <2>2. (IF Diff(n, k) = 0 THEN UIntMod - 1 ELSE Diff(n, k) - 1) = Diff(n, k + 1)
    BY ONLY SMTT(30), <1>1, <1>4, n \in Nat, k \in Nat, n < UIntMod DEF Diff
  <2> QED BY ONLY SMTT(30), <2>1, <2>2
<1>5. ASSUME n + 1 < UIntMod PROVE (Diff(n + 1, k) + UIntMod - 1) % UIntMod = Diff(n, k)
  <2>1. Diff(n + 1, k) \in Nat /\ Diff(n + 1, k) < UIntMod
    BY ONLY SMTT(30), <1>1, <1>5, n \in Nat, k \in Nat, k <= UIntMod DEF Diff
  <2>2. (Diff(n + 1, k) + UIntMod - 1) % UIntMod
          = IF Diff(n + 1, k) = 0 THEN UIntMod - 1 ELSE Diff(n + 1, k) - 1
    BY Zenon, <2>1, Counted
  <2>3. (IF Diff(n + 1, k) = 0 THEN UIntMod - 1 ELSE Diff(n + 1, k) - 1) = Diff(n, k)
    BY ONLY SMTT(30), <1>1, <1>5, n \in Nat, k \in Nat, k <= UIntMod DEF Diff
  <2> QED BY ONLY SMTT(30), <2>2, <2>3
<1> QED BY Zenon, <1>2, <1>3, <1>4, <1>5

\* A thread that is not in the filter goes on outside.
LEMMA IdleFlow ==
  ASSUME Base, Flow, NEW r \in Reporter, ~InFilter(r), pc'[r] \notin Taking \cup {"post"},
         \A q \in Reporter : q # r => pc'[q] = pc[q] /\ pos'[q] = pos[q] /\ val'[q] = val[q],
         UNCHANGED <<filterVars, queueVars, prodVars, colVars, count, lost, first, last, elsewhere>>
  PROVE  Flow'
<1>1. PICK o \in Reporter : o # r
  BY Zenon, OtherIs
<1>2. pc[r] \notin Taking \cup {"post"} /\ \A k \in Reporter : k = r \/ k = o
  BY Zenon, <1>1 DEF InFilter, Taking, Reporter
<1>3. pc'[o] = pc[o] /\ pos'[o] = pos[o] /\ val'[o] = val[o]
  BY Zenon, <1>1
<1>4. FilterInv'
  <2>1. FilterAt(o)'
    BY Zenon, <1>3 DEF Flow, FilterInv, FilterAt, Current, filterVars
  <2>2. FilterAt(r)'
    BY Zenon DEF FilterAt, Taking
  <2>3. ~InFilter(r)'
    BY Zenon DEF InFilter, Taking
  <2>4. ~(InFilter("main") /\ InFilter("reporter"))'
    BY Zenon, <2>3 DEF Reporter
  <2>5. ~bad'
    BY Zenon DEF Flow, FilterInv, filterVars
  <2> QED BY Zenon, <1>2, <2>1, <2>2, <2>4, <2>5 DEF FilterInv
<1>5. UNCHANGED <<mq, wire, prodPc, prodMsg, pending, counter, other>>
  BY Zenon DEF queueVars, prodVars, colVars
<1>6. WholeInv'
  BY Zenon, <1>5, WholeKept DEF Flow
<1>7. /\ \A m : HandFor(pc', pos', val', m) = HandFor(pc, pos, val, m)
      /\ PostFor(pc') = PostFor(pc) /\ MakeFor(pc') = MakeFor(pc)
  <2>1. OnlyBy(o, pc, pos, val)
    BY Zenon, <1>1, <1>2, OneHand
  <2>2. OnlyBy(o, pc', pos', val')
    BY Zenon, <1>1, OneHand
  <2> QED BY ONLY SMTT(30), <1>3, <2>1, <2>2 DEF OnlyBy
<1>8. /\ \A m : InHand(m)' = InHand(m)
      /\ AtPost' = AtPost /\ InMaking' = InMaking
  BY Zenon, <1>7, ForNow, ForNext
<1>9. SumInv'
  <2>1. \A m \in Metric : Underway(m)' = Underway(m)
    <3>1. \A m : Carried(m)' = Carried(m)
      BY Zenon, <1>5 DEF Carried
    <3> QED BY Zenon, <1>5, <1>8, <3>1, UnderwayNext, Terms
  <2> QED BY Zenon, <1>5, <2>1, SumKept DEF Flow
<1>10. PendingInv'
  <2>1. Outstanding' = Outstanding
    BY Zenon, <1>5 DEF Outstanding
  <2> QED BY Zenon, <1>5, <1>8, <2>1, PendingKept DEF Flow
<1> QED BY Zenon, <1>4, <1>6, <1>9, <1>10 DEF Flow

\* A thread that goes on outside the filter.
LEMMA QuietFlow == ASSUME Base, Flow, QuietGoes PROVE Flow'
<1>1. UNCHANGED <<last, val, filterVars, queueVars, prodVars, colVars, histVars>>
  BY Zenon DEF QuietGoes, Wake, FilterLoopEnds, WaitEnds, ReportDone
<1>2. PICK r \in Reporter, from \in Place \ (Taking \cup {"post"}), to \in Place \ (Taking \cup {"post"}) :
        ReporterGoes(r, from, to, 1)
  BY Zenon DEF QuietGoes, Wake, FilterLoopEnds, WaitEnds, ReportDone, Reporter, Place, Taking
<1>3. pc \in [Reporter -> Place] /\ pos \in [Reporter -> 1..(Len(EnqList) + 2)]
  BY Zenon, TypeParts DEF Base, ThreadType
<1>4. /\ ~InFilter(r) /\ pc'[r] \notin Taking \cup {"post"}
      /\ \A q \in Reporter : q # r => pc'[q] = pc[q] /\ pos'[q] = pos[q]
  BY Zenon, <1>2, <1>3 DEF ReporterGoes, InFilter, Taking
<1> QED BY Zenon, <1>1, <1>4, IdleFlow DEF histVars

\* Counting.
LEMMA CountFlow == ASSUME Base, Flow, NEW m \in Metric, Count(m) PROVE Flow'
<1>1. LastType /\ EventInv
  BY Zenon, TypeParts DEF Base
<1>2. UNCHANGED <<reportVars, filterVars, queueVars, prodVars, colVars, lost, first, elsewhere>>
  BY Zenon DEF Count
<1>3. UNCHANGED <<pc, pos, val, mq, pending, other, prodPc, prodMsg, wire, counter>>
  BY Zenon, <1>2 DEF reportVars, queueVars, prodVars, colVars
<1>4. FilterInv' /\ WholeInv'
  BY Zenon, <1>2, <1>3, FilterKept, WholeKept DEF Flow
<1>5. /\ last[m] \in Nat /\ count[m] \in Nat /\ last[m] <= count[m] /\ count[m] < MaxCount
      /\ (last[m] + 1) % UIntMod = last[m] + 1
  BY <1>1, Bounds DEF Count, LastType, EventInv
<1>6. /\ last' = [last EXCEPT ![m] = last[m] + 1] /\ count' = [count EXCEPT ![m] = count[m] + 1]
  BY Zenon, <1>5 DEF Count
<1>7. \A k \in Metric : /\ last'[k] = IF k = m THEN last[k] + 1 ELSE last[k]
                        /\ count'[k] = IF k = m THEN count[k] + 1 ELSE count[k]
  BY Zenon, <1>1, <1>6 DEF LastType, EventInv
<1>8. SumInv'
  <2>1. PICK c \in [Metric -> Nat] : \A k \in Metric : SumAt(c, k)
    BY Zenon DEF Flow, SumInv
  <2>2. ASSUME NEW k \in Metric PROVE SumAt(c, k)'
    <3>1. /\ last[k] \in Nat /\ InHand(k) \in Nat /\ InSeq(mq, k) \in Nat /\ InSeq(wire, k) \in Nat
          /\ lost[k] \in Nat /\ Carried(k) \in Nat /\ count[k] \in Nat
          /\ Underway(k) = last[k] + InHand(k) + InSeq(mq, k) + InSeq(wire, k) + lost[k] + Carried(k)
      BY Zenon, Terms
    <3>2. Underway(k)' = last'[k] + InHand(k) + InSeq(mq, k) + InSeq(wire, k) + lost[k] + Carried(k)
      <4>1. InHand(k)' = InHand(k)
        BY Zenon, <1>3, ForNow, ForNext
      <4>2. Carried(k)' = Carried(k)
        BY Zenon, <1>3 DEF Carried
      <4> QED BY Zenon, <1>2, <1>3, <4>1, <4>2, UnderwayNext
    <3>3. counter[k] = Wrap(first[k] + c[k]) /\ c[k] + Underway(k) = count[k] /\ c[k] \in Nat
      BY Zenon, <2>1 DEF SumAt
    <3>4. c[k] + Underway(k)' = count'[k]
      BY <1>7, <3>1, <3>2, <3>3
    <3> QED BY Zenon, <1>2, <1>3, <3>3, <3>4 DEF SumAt
  <2> QED BY Zenon, <2>1, <2>2 DEF SumInv
<1>9. PendingInv'
  <2>1. Reported' = Reported
    <3>1. \A k \in Metric : count'[k] - last'[k] = count[k] - last[k]
      <4> SUFFICES ASSUME NEW k \in Metric PROVE count'[k] - last'[k] = count[k] - last[k]
        BY Zenon
      <4>1. last[k] \in Nat /\ count[k] \in Nat
        BY <1>1 DEF LastType, EventInv
      <4> QED BY <1>7, <4>1
    <3> QED BY Zenon, <3>1 DEF Reported
  <2>2. Outstanding' = Outstanding /\ AtPost' = AtPost /\ InMaking' = InMaking
    BY Zenon, <1>3 DEF Outstanding, AtPost, InMaking
  <2> QED BY Zenon, <1>2, <1>3, <2>1, <2>2 DEF Flow, PendingInv, PendingFor, ElsewhereInv, Diff
<1> QED BY Zenon, <1>4, <1>8, <1>9 DEF Flow

\* A report is worth its count to its metric.
LEMMA ValueOf ==
  ASSUME NEW m, NEW n, <<m, n>> \in Report
  PROVE  \A k : Value(<<m, n>>, k) = IF k = m THEN n ELSE 0
BY Zenon DEF Value

\* The events taken from the counters are finitely many, fewer than 2^32.
LEMMA ReportedFinite == IsFiniteSet(Metric \X (1..MaxCount)) /\ Cardinality(Metric \X (1..MaxCount)) < UIntMod
<1>1. IsFiniteSet(Metric) /\ IsFiniteSet(1..MaxCount) /\ Cardinality(1..MaxCount) = MaxCount
  BY MetricFinite, MetricsAssumption, FS_Interval
<1>2. /\ IsFiniteSet(Metric \X (1..MaxCount))
      /\ Cardinality(Metric \X (1..MaxCount)) = Cardinality(Metric) * Cardinality(1..MaxCount)
  BY Zenon, <1>1, FS_Product
<1>3. Cardinality(Metric) \in Nat
  BY Zenon, <1>1, FS_CardinalityType
<1> QED BY <1>1, <1>2, <1>3, MetricsAssumption, EventsAssumption

\* Exchange takes a count that is not 0: the thread enters the filter.
LEMMA EnterFlow ==
  ASSUME Base, Base', Flow, NEW r \in Reporter, Exchange(r), last[Current(r)] # 0, ~InFilter(Other(r))
  PROVE  Flow'
<1> DEFINE m == Current(r)
           n == last[m]
<1>1. /\ pos[r] \in 1..Len(ListOf(r)) /\ m \in Metric /\ n \in 0..MaxCount
      /\ last' = [last EXCEPT ![m] = 0] /\ val' = [val EXCEPT ![r] = n]
  BY Zenon, ExchangeFacts
<1>2. ReporterGoes(r, "next", "send", pos[r])
  BY Zenon DEF Exchange
<1>3. UNCHANGED <<filterVars, queueVars, prodVars, colVars, count, lost, first, elsewhere>>
  BY Zenon DEF Exchange
<1>4. n # 0 /\ n <= count[m] /\ EventInv /\ ThreadType /\ LastType
  BY Zenon, <1>1, TypeParts DEF Base, EventInv
<1>5. PICK o \in Reporter : o = Other(r) /\ o # r
  BY Zenon, OtherIs
<1>6. /\ pc[r] = "next" /\ pc'[r] = "send" /\ pos'[r] = pos[r] /\ val'[r] = n
      /\ pc'[o] = pc[o] /\ pos'[o] = pos[o] /\ val'[o] = val[o]
  BY Zenon, <1>1, <1>2, <1>4, <1>5 DEF ReporterGoes, ThreadType
<1>7. m = ListOf(r)[pos[r]]
  BY Zenon DEF Current
<1>8. \A k \in Metric : last'[k] = IF k = m THEN 0 ELSE last[k]
  BY Zenon, <1>1, <1>4 DEF LastType
<1>9. n = last[m]
  BY Zenon
<1> HIDE DEF m, n
<1>10. pc[r] \notin Taking \cup {"post"} /\ pc[o] \notin Taking \cup {"post"} /\ pc'[r] \in Taking
       /\ pc'[r] # "post" /\ pc'[o] \notin Taking \cup {"post"}
  BY Zenon, <1>5, <1>6 DEF Taking, InFilter
<1>11. OnlyBy(r, pc, pos, val) /\ OnlyBy(r, pc', pos', val')
  BY Zenon, <1>5, <1>10, OneHand
<1>12. \A k : InHand(k) = 0 /\ InHand(k)' = IF k = m THEN n ELSE 0
  BY Zenon, <1>6, <1>7, <1>10, <1>11, ForNow, ForNext DEF OnlyBy
<1>13. AtPost = 0 /\ AtPost' = 0 /\ InMaking = 0 /\ InMaking' = 1
  BY Zenon, <1>10, <1>11, ForNow, ForNext DEF OnlyBy
<1>14. UNCHANGED <<mq, wire, prodPc, prodMsg, pending, counter, other>>
  BY Zenon, <1>3 DEF queueVars, prodVars, colVars
<1>15. FilterInv'
  <2>1. \A k \in Reporter : k = r \/ k = o
    BY Zenon, <1>5 DEF Reporter
  <2>2. \A k \in Reporter : FilterAt(k)'
    BY Zenon, <1>6, <1>10, <2>1 DEF FilterAt, Taking
  <2>3. ~InFilter(o)'
    BY Zenon, <1>10 DEF InFilter, Taking
  <2>4. ~(InFilter("main") /\ InFilter("reporter"))'
    BY Zenon, <2>3 DEF Reporter
  <2>5. ~bad'
    BY Zenon, <1>3 DEF Flow, FilterInv, filterVars
  <2> QED BY Zenon, <2>2, <2>4, <2>5 DEF FilterInv
<1>16. WholeInv'
  BY Zenon, <1>14, WholeKept DEF Flow
<1>17. SumInv'
  <2>1. ASSUME NEW k \in Metric PROVE Underway(k)' = Underway(k)
    <3>1. /\ last[k] \in Nat /\ InHand(k) \in Nat /\ InSeq(mq, k) \in Nat /\ InSeq(wire, k) \in Nat
          /\ lost[k] \in Nat /\ Carried(k) \in Nat
          /\ Underway(k) = last[k] + InHand(k) + InSeq(mq, k) + InSeq(wire, k) + lost[k] + Carried(k)
      BY Zenon, Terms
    <3>2. Carried(k)' = Carried(k)
      BY Zenon, <1>14 DEF Carried
    <3>3. Underway(k)' = last'[k] + InHand(k)' + InSeq(mq, k) + InSeq(wire, k) + lost[k] + Carried(k)
      BY ZenonT(30), <1>3, <1>14, <3>2, UnderwayNext
    <3>4. last'[k] + InHand(k)' = last[k] + InHand(k) /\ last'[k] \in Nat /\ InHand(k)' \in Nat
      <4>1. CASE k = m
        <5>1. last'[k] = 0 /\ InHand(k) = 0 /\ InHand(k)' = n /\ last[k] = n
          BY Zenon, <1>8, <1>9, <1>12, <4>1
        <5> QED BY ONLY SMTT(30), <3>1, <5>1
      <4>2. CASE k # m
        <5>1. last'[k] = last[k] /\ InHand(k) = 0 /\ InHand(k)' = 0
          BY Zenon, <1>8, <1>12, <4>2
        <5> QED BY ONLY SMTT(30), <3>1, <5>1
      <4> QED BY Zenon, <4>1, <4>2
    <3> QED BY ONLY SMTT(30), <3>1, <3>3, <3>4
  <2> QED BY Zenon, <1>3, <1>14, <2>1, SumKept DEF Flow
<1>18. PendingInv'
  <2>1. Reported \subseteq Reported' /\ Reported # Reported' /\ Reported' \subseteq Metric \X (1..MaxCount)
    <3>1. \A k \in Metric : last[k] \in Nat /\ count[k] \in Nat /\ count'[k] = count[k]
      BY <1>3, <1>4 DEF LastType, EventInv
    <3>2. \A k \in Metric : count[k] - last[k] <= count'[k] - last'[k]
      BY <1>8, <3>1
    <3>3. Reported \subseteq Reported'
      BY <1>8, <3>1 DEF Reported
    <3>4. count[m] \in 1..MaxCount /\ last[m] \in Nat /\ last[m] # 0 /\ last'[m] = 0 /\ count'[m] = count[m]
      BY <1>1, <1>3, <1>4, <1>8, <1>9 DEF EventInv
    <3>5. <<m, count[m]>> \in Reported' /\ <<m, count[m]>> \notin Reported
      BY <1>1, <3>4 DEF Reported
    <3>6. Reported' \subseteq Metric \X (1..MaxCount)
      BY Zenon DEF Reported
    <3> QED BY Zenon, <3>3, <3>5, <3>6
  <2>2. IsFiniteSet(Reported')
    BY Zenon, <2>1, ReportedFinite, FS_Subset
  <2>3. /\ Cardinality(Reported) \in Nat /\ Cardinality(Reported') \in Nat
        /\ Cardinality(Reported) < Cardinality(Reported')
    <3>1. /\ IsFiniteSet(Reported) /\ Cardinality(Reported) <= Cardinality(Reported')
          /\ Cardinality(Reported) = Cardinality(Reported') => Reported = Reported'
      BY Zenon, <2>1, <2>2, FS_Subset
    <3>2. Cardinality(Reported) \in Nat /\ Cardinality(Reported') \in Nat
      BY Zenon, <2>2, <3>1, FS_CardinalityType
    <3> QED BY ONLY SMTT(30), <2>1, <3>1, <3>2
  <2>4. PICK x \in Nat : PendingFor(x)
    BY Zenon DEF Flow, PendingInv
  <2>5. Outstanding' = Outstanding /\ Outstanding \in Nat
    BY <1>14 DEF Outstanding, Flow, WholeInv
  <2>6. Outstanding' + x + InMaking' <= Cardinality(Reported')
    <3>1. Outstanding + x + InMaking <= Cardinality(Reported)
      BY Zenon, <2>4 DEF PendingFor
    <3> QED BY ONLY SMTT(30), <1>13, <2>3, <2>5, <3>1, x \in Nat
  <2>7. pending' = Diff(Outstanding' + x, AtPost' + elsewhere')
    BY Zenon, <1>3, <1>13, <1>14, <2>4, <2>5 DEF PendingFor
  <2>8. elsewhere' + other' + InMaking' <= Cardinality(Reported')
    <3>1. elsewhere \in Nat /\ other \in Nat
      BY TypeParts, MetricsAssumption DEF Base, QueueType
    <3>2. elsewhere + other + InMaking <= Cardinality(Reported)
      BY Zenon DEF Flow, PendingInv, ElsewhereInv
    <3>3. elsewhere' = elsewhere /\ other' = other
      BY Zenon, <1>3, <1>14
    <3> QED BY ONLY SMTT(30), <1>13, <2>3, <3>1, <3>2, <3>3
  <2>9. PendingFor(x)' /\ ElsewhereInv'
    BY Zenon, <2>6, <2>7, <2>8 DEF PendingFor, ElsewhereInv, Diff
  <2> QED BY Zenon, <2>9 DEF PendingInv
<1> QED BY Zenon, <1>15, <1>16, <1>17, <1>18 DEF Flow

\* Exchange as a whole.
LEMMA ExchangeFlow ==
  ASSUME Base, Base', Flow, NEW r \in Reporter, Exchange(r), ~overlap'
  PROVE  Flow'
<1>1. CASE last[Current(r)] = 0
  <2> DEFINE m == Current(r)
  <2>1. /\ m \in Metric /\ last' = [last EXCEPT ![m] = 0] /\ val' = [val EXCEPT ![r] = last[m]]
        /\ ReporterGoes(r, "next", "next", pos[r] + 1)
        /\ UNCHANGED <<filterVars, queueVars, prodVars, colVars, count, lost, first, elsewhere>>
    BY Zenon, <1>1, ExchangeFacts DEF Exchange
  <2>2. ThreadType /\ LastType
    BY Zenon, TypeParts DEF Base
  <2>3. last[m] = 0
    BY Zenon, <1>1
  <2> HIDE DEF m
  <2>4. last' = last
    BY Zenon, <2>1, <2>2, <2>3 DEF LastType
  <2>5. /\ ~InFilter(r) /\ pc'[r] \notin Taking \cup {"post"}
        /\ \A q \in Reporter : q # r => pc'[q] = pc[q] /\ pos'[q] = pos[q] /\ val'[q] = val[q]
    BY Zenon, <2>1, <2>2 DEF ThreadType, ReporterGoes, InFilter, Taking
  <2> QED BY Zenon, <2>1, <2>4, <2>5, IdleFlow
<1>2. CASE last[Current(r)] # 0
  <2>1. last[Current(r)] > 0
    BY <1>2, ExchangeFacts
  <2>2. ~InFilter(Other(r))
    BY Zenon, <2>1 DEF Exchange
  <2> QED BY Zenon, <1>2, <2>2, EnterFlow
<1> QED BY Zenon, <1>1, <1>2

\* A step of the thread in the filter, seen by the invariant.
LEMMA InFilterFacts ==
  ASSUME Base, Flow, NEW r \in Reporter, InFilter(r), NEW to, NEW p, NEW from,
         ReporterGoes(r, from, to, p), UNCHANGED val
  PROVE  /\ OnlyBy(r, pc, pos, val) /\ OnlyBy(r, pc', pos', val')
         /\ pc[r] = from /\ pc'[r] = to /\ pos'[r] = p
         /\ \A k \in Reporter : k # r => /\ pc[k] \notin Taking \cup {"post"}
                                         /\ pc'[k] \notin Taking \cup {"post"}
         /\ ~(InFilter("main") /\ InFilter("reporter"))'
<1>1. PICK o \in Reporter : o = Other(r) /\ o # r /\ ~InFilter(o)
  BY Zenon, Apart DEF Flow
<1>2. pc \in [Reporter -> Place] /\ pos \in [Reporter -> 1..(Len(EnqList) + 2)]
  BY Zenon, TypeParts DEF Base, ThreadType
<1>3. pc[r] = from /\ pc'[r] = to /\ pos'[r] = p /\ pc'[o] = pc[o]
  BY Zenon, <1>1, <1>2 DEF ReporterGoes
<1>4. pc[o] \notin Taking \cup {"post"} /\ pc'[o] \notin Taking \cup {"post"}
  BY Zenon, <1>1, <1>3 DEF InFilter, Taking
<1>5. OnlyBy(r, pc, pos, val) /\ OnlyBy(r, pc', pos', val')
  BY Zenon, <1>1, <1>4, OneHand
<1>6. \A k \in Reporter : k # r => k = o
  BY Zenon, <1>1 DEF Reporter
<1>7. ~InFilter(o)'
  BY Zenon, <1>4 DEF InFilter, Taking
<1>8. ~(InFilter("main") /\ InFilter("reporter"))'
  BY Zenon, <1>7 DEF Reporter
<1> QED BY Zenon, <1>3, <1>4, <1>5, <1>6, <1>8

\* String::Send and Length::Get pass the report on inside the filter.
LEMMA PassFlow ==
  ASSUME Base, Flow, NEW r \in Reporter, SendString(r) \/ GetString(r) \/ GetTorn(r)
  PROVE  Flow'
<1>1. InFilter(r) /\ UNCHANGED <<last, val, queueVars, prodVars, colVars, histVars>>
  BY Zenon DEF SendString, GetString, GetTorn, ReporterGoes, InFilter
<1> DEFINE t == <<Current(r), val[r]>>
<1>2. t \in Report /\ Current(r) = ListOf(r)[pos[r]]
  BY Zenon, <1>1, AtMetric DEF Current
<1>3. pc \in [Reporter -> Place] /\ ~bad /\ FilterAt(r)
  BY ZenonT(30), TypeParts DEF Base, ThreadType, Flow, FilterInv
<1>4. \/ ReporterGoes(r, "send", "get", pos[r]) /\ buf' = t /\ ~bad'
      \/ ReporterGoes(r, "get", "put", pos[r]) /\ msg' = t /\ ~bad'
  <2>1. CASE SendString(r)
    BY Zenon, <1>3, <2>1 DEF SendString
  <2>2. CASE GetString(r)
    <3>1. buf = t
      BY Zenon, <1>3, <2>2 DEF GetString, ReporterGoes, FilterAt
    <3>2. buf # NoReport
      BY Zenon, <1>2, <3>1, MetricsAssumption
    <3> QED BY Zenon, <1>3, <2>2, <3>1, <3>2 DEF GetString
  <2>3. CASE GetTorn(r)
    BY Zenon, <1>1, <2>3, Apart DEF GetTorn, Flow
  <2> QED BY Zenon, <2>1, <2>2, <2>3
<1>5. PICK from \in {"send", "get"}, to \in {"get", "put"} :
        /\ ReporterGoes(r, from, to, pos[r]) /\ ~bad'
        /\ to = "get" => buf' = t
        /\ to = "put" => msg' = t
  <2> HIDE DEF t
  <2> QED BY Zenon, <1>4
<1>6. /\ OnlyBy(r, pc, pos, val) /\ OnlyBy(r, pc', pos', val')
      /\ pc[r] = from /\ pc'[r] = to /\ pos'[r] = pos[r]
      /\ \A k \in Reporter : k # r => /\ pc[k] \notin Taking \cup {"post"}
                                      /\ pc'[k] \notin Taking \cup {"post"}
      /\ ~(InFilter("main") /\ InFilter("reporter"))'
  BY Zenon, <1>1, <1>5, InFilterFacts
<1>7. t = <<ListOf(r)[pos'[r]], val'[r]>>
  BY Zenon, <1>1, <1>2, <1>6
<1> HIDE DEF t
<1>8. FilterInv'
  <2>1. FilterAt(r)'
    BY Zenon, <1>5, <1>6, <1>7 DEF FilterAt, Current
  <2>2. ASSUME NEW k \in Reporter, k # r PROVE FilterAt(k)'
    BY Zenon, <1>6, <2>2 DEF FilterAt, Taking
  <2> QED BY Zenon, <1>5, <1>6, <2>1, <2>2 DEF FilterInv
<1>9. UNCHANGED <<mq, wire, prodPc, prodMsg, pending, counter, count, first, lost, other, elsewhere>>
  BY Zenon, <1>1 DEF queueVars, prodVars, colVars, histVars
<1>10. WholeInv'
  BY ZenonT(30), <1>9, WholeKept DEF Flow
<1>11. pc[r] \in Taking /\ pc'[r] \in Taking /\ pc[r] # "post" /\ pc'[r] # "post"
  BY Zenon, <1>6 DEF Taking
<1>12. (\A m : InHand(m)' = InHand(m)) /\ AtPost' = AtPost /\ InMaking' = InMaking
  <2>1. /\ \A m : HandFor(pc', pos', val', m) = HandFor(pc, pos, val, m)
        /\ PostFor(pc') = PostFor(pc) /\ MakeFor(pc') = MakeFor(pc)
    BY ZenonT(30), <1>1, <1>6, <1>11 DEF OnlyBy
  <2> QED BY Zenon, <2>1, ForNow, ForNext
<1>13. SumInv'
  <2>1. \A m \in Metric : Underway(m)' = Underway(m)
    <3>1. \A m : Carried(m)' = Carried(m)
      BY Zenon, <1>9 DEF Carried
    <3> QED BY Zenon, <1>1, <1>9, <1>12, <3>1, UnderwayNext, Terms
  <2> QED BY Zenon, <1>9, <2>1, SumKept DEF Flow
<1>14. PendingInv'
  <2>1. Outstanding' = Outstanding
    BY Zenon, <1>9 DEF Outstanding
  <2> QED BY Zenon, <1>1, <1>9, <1>12, <2>1, PendingKept DEF Flow
<1> QED BY Zenon, <1>8, <1>10, <1>13, <1>14 DEF Flow

\* The events taken from the counters are fewer than 2^32.
LEMMA ReportedCount ==
  /\ Cardinality(Reported) \in Nat /\ Cardinality(Metric \X (1..MaxCount)) \in Nat
  /\ Cardinality(Reported) <= Cardinality(Metric \X (1..MaxCount))
<1>1. Reported \subseteq Metric \X (1..MaxCount)
  BY Zenon DEF Reported
<1>2. /\ IsFiniteSet(Reported)
      /\ Cardinality(Reported) <= Cardinality(Metric \X (1..MaxCount))
  BY Zenon, <1>1, ReportedFinite, FS_Subset
<1> QED BY Zenon, <1>2, ReportedFinite, FS_CardinalityType

\* The quantities of PendingInv are numbers, below 2^32.
LEMMA Quantities ==
  ASSUME Base, Flow
  PROVE  /\ Outstanding \in Nat /\ AtPost \in {0, 1} /\ InMaking \in {0, 1}
         /\ elsewhere \in Nat /\ other \in Nat /\ Cardinality(Reported) \in Nat
         /\ elsewhere + other + InMaking <= Cardinality(Reported)
         /\ Cardinality(Reported) < UIntMod /\ UIntMod \in Nat \ {0}
<1>1. Outstanding \in Nat
  BY DEF Outstanding, Flow, WholeInv
<1>2. AtPost \in {0, 1} /\ InMaking \in {0, 1}
  BY Zenon DEF AtPost, InMaking
<1>3. elsewhere \in Nat /\ other \in 0..QCap
  BY Zenon, TypeParts DEF Base, QueueType
<1>4. other \in Nat
  BY <1>3, MetricsAssumption
<1>5. elsewhere + other + InMaking <= Cardinality(Reported)
  BY Zenon DEF Flow, PendingInv, ElsewhereInv
<1>6. Cardinality(Reported) \in Nat /\ Cardinality(Reported) < UIntMod /\ UIntMod \in Nat \ {0}
  BY ONLY SMTT(30), ReportedCount, ReportedFinite, Bounds
<1> QED BY Zenon, <1>1, <1>2, <1>3, <1>4, <1>5, <1>6

\* The lost reports that are still counted as pending.
LEMMA PendingPick ==
  ASSUME Base, Flow
  PROVE  \E x \in Nat : /\ pending = Diff(Outstanding + x, AtPost + elsewhere)
                        /\ Outstanding + x + InMaking <= Cardinality(Reported)
                        /\ Outstanding + x < UIntMod
<1>1. PICK x \in Nat : PendingFor(x)
  BY Zenon DEF Flow, PendingInv
<1>2. pending = Diff(Outstanding + x, AtPost + elsewhere) /\ Outstanding + x + InMaking <= Cardinality(Reported)
  BY Zenon, <1>1 DEF PendingFor
<1>3. Outstanding + x < UIntMod
  BY ONLY SMTT(30), <1>2, x \in Nat, Quantities, Base, Flow
<1> QED BY Zenon, <1>2, <1>3

\* PendingInv in the next state.
LEMMA PendingNext ==
  ASSUME NEW y \in Nat, pending' = Diff(Outstanding' + y, AtPost' + elsewhere'),
         Outstanding' + y + InMaking' <= Cardinality(Reported'),
         elsewhere' + other' + InMaking' <= Cardinality(Reported')
  PROVE  PendingInv'
<1>1. PendingFor(y)' /\ ElsewhereInv'
  BY Zenon DEF PendingFor, ElsewhereInv, Diff
<1> QED BY Zenon, <1>1 DEF PendingInv

\* Tee::Put.
LEMMA PutFlow == ASSUME Base, Flow, NEW r \in Reporter, PutReport(r) PROVE Flow'
<1>1. /\ InFilter(r) /\ ReporterGoes(r, "put", "post", pos[r])
      /\ UNCHANGED <<last, val, filterVars, branch, pending, prodVars, colVars, count, first, elsewhere>>
      /\ other' \in {other} \cup {i \in {other + 1} : i <= QCap}
  BY Zenon DEF PutReport, ReporterGoes, InFilter
<1>2. UNCHANGED <<wire, prodPc, prodMsg, counter, bad>>
  BY Zenon, <1>1 DEF filterVars, prodVars, colVars
<1>3. /\ OnlyBy(r, pc, pos, val) /\ OnlyBy(r, pc', pos', val')
      /\ pc[r] = "put" /\ pc'[r] = "post" /\ pos'[r] = pos[r]
      /\ \A k \in Reporter : k # r => /\ pc[k] \notin Taking \cup {"post"}
                                      /\ pc'[k] \notin Taking \cup {"post"}
      /\ ~(InFilter("main") /\ InFilter("reporter"))'
  BY Zenon, <1>1, InFilterFacts
<1>4. "put" \in Taking /\ "post" \notin Taking /\ "put" # "post"
  BY Zenon DEF Taking
<1> DEFINE m == Current(r)
           n == val[r]
<1>5. <<m, n>> \in Report /\ m = ListOf(r)[pos[r]] /\ msg = <<m, n>>
  BY Zenon, <1>1, <1>3, AtMetric DEF Current, Flow, FilterInv, FilterAt
<1>6. n \in Nat /\ n = val[r]
  <2>1. val[r] \in 1..MaxCount
    BY Zenon, <1>1, AtMetric
  <2> QED BY ONLY SMTT(30), <2>1, Bounds
<1> HIDE DEF m, n
<1>7. \A k : InHand(k) = (IF k = m THEN n ELSE 0) /\ InHand(k)' = 0
  BY Zenon, <1>3, <1>4, <1>5, <1>6, ForNow, ForNext DEF OnlyBy
<1>8. AtPost = 0 /\ AtPost' = 1 /\ InMaking = 1 /\ InMaking' = 0
  BY Zenon, <1>3, <1>4, ForNow, ForNext DEF OnlyBy
<1>9. FilterInv'
  <2>1. FilterAt(r)'
    BY Zenon, <1>3 DEF FilterAt
  <2>2. ASSUME NEW k \in Reporter, k # r PROVE FilterAt(k)'
    BY Zenon, <1>3, <2>2 DEF FilterAt, Taking
  <2>3. ~bad'
    BY Zenon, <1>2 DEF Flow, FilterInv
  <2> QED BY ZenonT(30), <1>3, <2>1, <2>2, <2>3 DEF FilterInv
<1>10. \A k : Value(<<m, n>>, k) = IF k = m THEN n ELSE 0
  BY ONLY SMTT(30), <1>5, ValueOf
<1>11. \/ mq' = Append(mq, msg) /\ lost' = lost
       \/ mq' = mq /\ lost' = [k \in Metric |-> lost[k] + Value(msg, k)]
  BY Zenon DEF PutReport, Loses
<1>12. mq \in Seq(Report)
  BY Zenon DEF Flow, WholeInv
<1>13. WholeInv'
  <2>1. mq' \in Seq(Report)
    <3>1. msg \in Report
      BY Zenon, <1>5
    <3> QED BY ONLY SMTT(30), <1>11, <1>12, <3>1
  <2> QED BY Zenon, <1>2, <2>1 DEF Flow, WholeInv
<1>14. SumInv'
  <2>1. ASSUME NEW k \in Metric PROVE Underway(k)' = Underway(k)
    <3>1. /\ last[k] \in Nat /\ InHand(k) \in Nat /\ InSeq(mq, k) \in Nat /\ InSeq(wire, k) \in Nat
          /\ lost[k] \in Nat /\ Carried(k) \in Nat
          /\ Underway(k) = last[k] + InHand(k) + InSeq(mq, k) + InSeq(wire, k) + lost[k] + Carried(k)
      BY Zenon, Terms
    <3>2. Carried(k)' = Carried(k)
      BY Zenon, <1>2 DEF Carried
    <3>3. Underway(k)' = last[k] + InHand(k)' + InSeq(mq', k) + InSeq(wire, k) + lost'[k] + Carried(k)
      BY Zenon, <1>1, <1>2, <3>2, UnderwayNext
    <3>4. Value(msg, k) = InHand(k) /\ InHand(k)' = 0
      BY ZenonT(30), <1>5, <1>7, <1>10
    <3>5. CASE mq' = Append(mq, msg) /\ lost' = lost
      <4>1. InSeq(mq', k) = InSeq(mq, k) + Value(msg, k) /\ lost'[k] = lost[k]
        BY ZenonT(30), <1>5, <1>12, <3>5, InSeqAppend
      <4> QED BY ONLY SMTT(30), <3>1, <3>3, <3>4, <4>1
    <3>6. CASE mq' = mq /\ lost' = [j \in Metric |-> lost[j] + Value(msg, j)]
      <4>1. InSeq(mq', k) = InSeq(mq, k) /\ lost'[k] = lost[k] + Value(msg, k)
        BY Zenon, <3>6
      <4> QED BY ONLY SMTT(30), <3>1, <3>3, <3>4, <4>1
    <3> QED BY Zenon, <1>11, <3>5, <3>6
  <2> QED BY Zenon, <1>1, <1>2, <2>1, SumKept DEF Flow
<1>15. PendingInv'
  <2>1. PICK x \in Nat : /\ pending = Diff(Outstanding + x, AtPost + elsewhere)
                         /\ Outstanding + x + InMaking <= Cardinality(Reported)
                         /\ Outstanding + x < UIntMod
    BY Zenon, PendingPick
  <2>2. Reported' = Reported /\ pending' = pending /\ elsewhere' = elsewhere
    BY Zenon, <1>1 DEF Reported
  <2>3. Outstanding \in Nat /\ elsewhere \in Nat /\ other \in Nat /\ UIntMod \in Nat
        /\ elsewhere + other + InMaking <= Cardinality(Reported)
        /\ Cardinality(Reported) \in Nat /\ Cardinality(Reported) < UIntMod
    BY ONLY SMTT(30), Quantities, Base, Flow
  <2>4. Outstanding' = Outstanding + 1 \/ Outstanding' = Outstanding
    BY <1>2, <1>5, <1>11, <1>12 DEF Outstanding
  <2>5. PICK y \in {x, x + 1} : Outstanding' + y = Outstanding + x + 1
    <3>1. CASE Outstanding' = Outstanding + 1
      BY <2>3, <3>1
    <3>2. CASE Outstanding' = Outstanding
      BY <2>3, <3>2
    <3> QED BY Zenon, <2>4, <3>1, <3>2
  <2>6. y \in Nat /\ Outstanding' \in Nat
    BY ONLY SMTT(30), <2>3, <2>4, <2>5, x \in Nat
  <2>7. pending' = Diff(Outstanding' + y, AtPost' + elsewhere')
    <3>1. /\ Outstanding + x \in Nat /\ Outstanding + x + 1 = (Outstanding + x) + 1
          /\ 0 + elsewhere = elsewhere /\ 1 + elsewhere = elsewhere + 1 /\ elsewhere <= UIntMod
      BY ONLY SMTT(30), <1>8, <2>3, x \in Nat
    <3>2. Diff((Outstanding + x) + 1, elsewhere + 1) = Diff(Outstanding + x, elsewhere)
      BY Zenon, <2>1, <2>3, <3>1, DiffCounts
    <3> QED BY Zenon, <1>8, <2>1, <2>2, <2>5, <3>1, <3>2
  <2>8. Outstanding' + y + InMaking' <= Cardinality(Reported')
    <3>1. Outstanding + x + InMaking <= Cardinality(Reported)
      BY Zenon, <2>1
    <3>2. Outstanding' + y + 0 = Outstanding' + y
      BY ONLY SMTT(30), <2>6
    <3> QED BY Zenon, <1>8, <2>2, <2>5, <3>1, <3>2
  <2>9. elsewhere' + other' + InMaking' <= Cardinality(Reported')
    BY ONLY SMTT(30), <1>1, <1>8, <2>2, <2>3
  <2> QED BY Zenon, <2>6, <2>7, <2>8, <2>9, PendingNext
<1> QED BY Zenon, <1>9, <1>13, <1>14, <1>15 DEF Flow

\* The post filter.
LEMMA PostFlow == ASSUME Base, Flow, NEW r \in Reporter, PostReport(r) PROVE Flow'
<1>1. /\ InFilter(r) /\ ReporterGoes(r, "post", "next", pos[r] + 1)
      /\ pending' = (pending + 1) % UIntMod
      /\ UNCHANGED <<last, val, filterVars, branch, mq, other, prodVars, colVars, histVars>>
  BY Zenon DEF PostReport, ReporterGoes, InFilter
<1>2. UNCHANGED <<wire, prodPc, prodMsg, counter, bad, count, lost, first, elsewhere>>
  BY Zenon, <1>1 DEF filterVars, prodVars, colVars, histVars
<1>3. /\ OnlyBy(r, pc, pos, val) /\ OnlyBy(r, pc', pos', val')
      /\ pc[r] = "post" /\ pc'[r] = "next"
      /\ \A k \in Reporter : k # r => /\ pc[k] \notin Taking \cup {"post"}
                                      /\ pc'[k] \notin Taking \cup {"post"}
      /\ ~(InFilter("main") /\ InFilter("reporter"))'
  BY Zenon, <1>1, InFilterFacts
<1>4. "post" \notin Taking /\ "next" \notin Taking /\ "next" # "post"
  BY Zenon DEF Taking
<1>5. \A k : InHand(k) = 0 /\ InHand(k)' = 0
  BY Zenon, <1>3, <1>4, ForNow, ForNext DEF OnlyBy
<1>6. AtPost = 1 /\ AtPost' = 0 /\ InMaking = 0 /\ InMaking' = 0
  BY Zenon, <1>3, <1>4, ForNow, ForNext DEF OnlyBy
<1>7. FilterInv'
  <2>1. FilterAt(r)'
    BY Zenon, <1>3 DEF FilterAt
  <2>2. ASSUME NEW k \in Reporter, k # r PROVE FilterAt(k)'
    BY Zenon, <1>3, <2>2 DEF FilterAt, Taking
  <2>3. ~bad'
    BY Zenon, <1>2 DEF Flow, FilterInv
  <2> QED BY ZenonT(30), <1>3, <2>1, <2>2, <2>3 DEF FilterInv
<1>8. WholeInv'
  BY Zenon, <1>1, <1>2, WholeKept DEF Flow
<1>9. SumInv'
  <2>1. \A m \in Metric : Underway(m)' = Underway(m)
    <3>1. \A m : Carried(m)' = Carried(m)
      BY Zenon, <1>2 DEF Carried
    <3> QED BY Zenon, <1>1, <1>2, <1>5, <3>1, UnderwayNext, Terms
  <2> QED BY Zenon, <1>2, <2>1, SumKept DEF Flow
<1>10. PendingInv'
  <2>1. PICK x \in Nat : /\ pending = Diff(Outstanding + x, AtPost + elsewhere)
                         /\ Outstanding + x + InMaking <= Cardinality(Reported)
                         /\ Outstanding + x < UIntMod
    BY Zenon, PendingPick
  <2>2. Reported' = Reported /\ Outstanding' = Outstanding /\ elsewhere' = elsewhere /\ other' = other
    BY Zenon, <1>1, <1>2 DEF Reported, Outstanding
  <2>3. Outstanding \in Nat /\ elsewhere \in Nat /\ other \in Nat /\ UIntMod \in Nat
        /\ elsewhere + other + InMaking <= Cardinality(Reported)
        /\ Cardinality(Reported) \in Nat /\ Cardinality(Reported) < UIntMod
    BY ONLY SMTT(30), Quantities, Base, Flow
  <2>4. /\ Outstanding + x \in Nat /\ 0 + elsewhere = elsewhere /\ 1 + elsewhere = elsewhere + 1
        /\ elsewhere <= UIntMod /\ elsewhere + 1 <= UIntMod
    BY ONLY SMTT(30), <1>6, <2>3, x \in Nat
  <2>5. (Diff(Outstanding + x, elsewhere + 1) + 1) % UIntMod = Diff(Outstanding + x, elsewhere)
    BY Zenon, <2>1, <2>3, <2>4, DiffCounts
  <2>6. pending' = Diff(Outstanding' + x, AtPost' + elsewhere')
    BY Zenon, <1>1, <1>6, <2>1, <2>2, <2>4, <2>5
  <2> QED BY Zenon, <1>6, <2>1, <2>2, <2>3, <2>6, PendingNext
<1> QED BY Zenon, <1>7, <1>8, <1>9, <1>10 DEF Flow

\* What no step of the producer thread disturbs.
LEMMA ProducerFacts ==
  ASSUME Base, Flow, NEW from, NEW to, ProducerGoes(from, to)
  PROVE  /\ FilterInv' /\ UNCHANGED <<last, count, first>>
         /\ \A m : InHand(m)' = InHand(m)
         /\ AtPost' = AtPost /\ InMaking' = InMaking /\ Reported' = Reported
         /\ prodPc = from /\ prodPc' = to
<1>1. /\ UNCHANGED <<last, count, first, reportVars, filterVars>>
      /\ prodPc = from /\ prodPc' = to
  BY Zenon DEF ProducerGoes
<1>2. UNCHANGED <<pc, pos, val>>
  BY Zenon, <1>1 DEF reportVars
<1>3. FilterInv'
  BY Zenon, <1>1, FilterKept DEF Flow
<1>4. (\A m : InHand(m)' = InHand(m)) /\ AtPost' = AtPost /\ InMaking' = InMaking
  BY Zenon, <1>2, ForNow, ForNext
<1>5. Reported' = Reported
  BY Zenon, <1>1 DEF Reported
<1> QED BY Zenon, <1>1, <1>3, <1>4, <1>5

\* What is under way behind the queue.
Stock(m) == InSeq(mq, m) + InSeq(wire, m) + lost[m] + Carried(m)

\* A report moved from one place to another is still under way.
LEMMA Moved ==
  ASSUME Base, Flow, UNCHANGED <<last, counter, first, count>>, \A m : InHand(m)' = InHand(m),
         \A m \in Metric : /\ InSeq(mq', m) \in Nat /\ InSeq(wire', m) \in Nat
                           /\ lost'[m] \in Nat /\ Carried(m)' \in Nat
                           /\ InSeq(mq', m) + InSeq(wire', m) + lost'[m] + Carried(m)' = Stock(m)
  PROVE  SumInv'
<1>1. ASSUME NEW m \in Metric PROVE Underway(m)' = Underway(m)
  <2>1. /\ last[m] \in Nat /\ InHand(m) \in Nat /\ InSeq(mq, m) \in Nat /\ InSeq(wire, m) \in Nat
        /\ lost[m] \in Nat /\ Carried(m) \in Nat
        /\ Underway(m) = last[m] + InHand(m) + InSeq(mq, m) + InSeq(wire, m) + lost[m] + Carried(m)
    BY Zenon, Terms
  <2>2. Underway(m)' = last[m] + InHand(m) + InSeq(mq', m) + InSeq(wire', m) + lost'[m] + Carried(m)'
    BY Zenon, UnderwayNext
  <2>3. /\ InSeq(mq', m) \in Nat /\ InSeq(wire', m) \in Nat /\ lost'[m] \in Nat /\ Carried(m)' \in Nat
        /\ InSeq(mq', m) + InSeq(wire', m) + lost'[m] + Carried(m)'
             = InSeq(mq, m) + InSeq(wire, m) + lost[m] + Carried(m)
    BY Zenon DEF Stock
  <2> QED BY ONLY SMTT(30), <2>1, <2>2, <2>3
<1> QED BY ZenonT(30), <1>1, SumKept DEF Flow

\* The branch is made.
LEMMA OpenFlow == ASSUME Base, Flow, Open PROVE Flow'
<1>1. /\ FilterInv' /\ UNCHANGED <<last, count, first>>
      /\ \A m : InHand(m)' = InHand(m)
      /\ AtPost' = AtPost /\ InMaking' = InMaking
      /\ prodPc = "none" /\ prodPc' = "get"
  BY Zenon, ProducerFacts DEF Open
<1>2. UNCHANGED <<mq, pending, other, elsewhere, prodMsg, wire, counter, lost>>
  BY Zenon DEF Open, colVars
<1>3. WholeInv'
  BY Zenon, <1>1, <1>2 DEF Flow, WholeInv
<1>4. SumInv'
  <2>1. ASSUME NEW m \in Metric PROVE Carried(m)' = Carried(m)
    BY Zenon, <1>1 DEF Carried
  <2> QED BY ZenonT(30), <1>1, <1>2, <2>1, Terms, Moved DEF Stock
<1>5. PendingInv'
  <2>1. Outstanding' = Outstanding
    BY Zenon, <1>1, <1>2 DEF Outstanding
  <2> QED BY Zenon, <1>1, <1>2, <2>1, PendingKept DEF Flow
<1> QED BY Zenon, <1>1, <1>3, <1>4, <1>5 DEF Flow

\* The thread takes the first report of the queue.
LEMMA ProdGetFlow == ASSUME Base, Flow, ProdGet PROVE Flow'
<1>1. /\ FilterInv' /\ UNCHANGED <<last, count, first>>
      /\ \A m : InHand(m)' = InHand(m)
      /\ AtPost' = AtPost /\ InMaking' = InMaking
      /\ prodPc = "get" /\ prodPc' = "write"
  BY Zenon, ProducerFacts DEF ProdGet
<1>2. /\ UNCHANGED <<pending, other, elsewhere, wire, counter, lost>>
      /\ mq # <<>> /\ prodMsg' = Head(mq) /\ mq' = Tail(mq)
  BY Zenon DEF ProdGet, colVars
<1>3. mq \in Seq(Report) /\ wire \in Seq(Report)
  BY Zenon DEF Flow, WholeInv
<1>4. /\ Head(mq) \in Report /\ Tail(mq) \in Seq(Report)
      /\ Len(mq) \in Nat /\ Len(mq) = Len(Tail(mq)) + 1 /\ Len(Tail(mq)) \in Nat
  BY ONLY SMTT(30), <1>2, <1>3
<1>5. WholeInv'
  BY Zenon, <1>2, <1>3, <1>4 DEF WholeInv
<1>6. SumInv'
  <2>1. ASSUME NEW m \in Metric
        PROVE  /\ InSeq(mq', m) \in Nat /\ InSeq(wire', m) \in Nat
               /\ lost'[m] \in Nat /\ Carried(m)' \in Nat
               /\ InSeq(mq', m) + InSeq(wire', m) + lost'[m] + Carried(m)' = Stock(m)
    <3>1. InSeq(mq, m) = Value(Head(mq), m) + InSeq(mq', m)
      BY Zenon, <1>2, <1>3, InSeqTail
    <3>2. InSeq(mq', m) \in Nat /\ InSeq(wire, m) \in Nat /\ Value(Head(mq), m) \in Nat
      BY Zenon, <1>2, <1>3, <1>4, InSeqType, ValueType
    <3>3. Carried(m)' = Value(Head(mq), m) /\ Carried(m) = 0
      BY Zenon, <1>1, <1>2 DEF Carried
    <3>4. lost[m] \in Nat /\ lost'[m] = lost[m] /\ InSeq(wire', m) = InSeq(wire, m)
      BY ZenonT(30), <1>2, Terms
    <3>5. InSeq(mq', m) + InSeq(wire', m) + lost'[m] + Carried(m)'
            = InSeq(mq, m) + InSeq(wire, m) + lost[m] + Carried(m)
      BY ONLY SMTT(30), <3>1, <3>2, <3>3, <3>4
    <3> QED BY Zenon, <3>2, <3>3, <3>4, <3>5 DEF Stock
  <2> QED BY Zenon, <1>1, <1>2, <2>1, Moved
<1>7. PendingInv'
  <2>1. Outstanding' = Outstanding
    BY <1>1, <1>2, <1>4 DEF Outstanding
  <2> QED BY Zenon, <1>1, <1>2, <2>1, PendingKept DEF Flow
<1> QED BY Zenon, <1>1, <1>5, <1>6, <1>7 DEF Flow

\* The thread writes its report to the socket.
LEMMA ProdWriteFlow == ASSUME Base, Flow, ProdWrite PROVE Flow'
<1>1. /\ FilterInv' /\ UNCHANGED <<last, count, first>>
      /\ \A m : InHand(m)' = InHand(m)
      /\ AtPost' = AtPost /\ InMaking' = InMaking
      /\ prodPc = "write" /\ prodPc' = "post"
  BY Zenon, ProducerFacts DEF ProdWrite
<1>2. UNCHANGED <<mq, pending, other, elsewhere, prodMsg, counter, lost>> /\ wire' = Append(wire, prodMsg)
  BY Zenon DEF ProdWrite, queueVars
<1>3. mq \in Seq(Report) /\ wire \in Seq(Report) /\ prodMsg \in Report
  BY Zenon, <1>1 DEF Flow, WholeInv
<1>4. wire' \in Seq(Report)
  BY ONLY SMTT(30), <1>2, <1>3
<1>5. WholeInv'
  BY Zenon, <1>1, <1>2, <1>3, <1>4 DEF WholeInv
<1>6. SumInv'
  <2>1. ASSUME NEW m \in Metric
        PROVE  /\ InSeq(mq', m) \in Nat /\ InSeq(wire', m) \in Nat
               /\ lost'[m] \in Nat /\ Carried(m)' \in Nat
               /\ InSeq(mq', m) + InSeq(wire', m) + lost'[m] + Carried(m)' = Stock(m)
    <3>1. InSeq(wire', m) = InSeq(wire, m) + Value(prodMsg, m)
      BY Zenon, <1>2, <1>3, InSeqAppend
    <3>2. InSeq(mq, m) \in Nat /\ InSeq(wire, m) \in Nat /\ Value(prodMsg, m) \in Nat
      BY Zenon, <1>3, InSeqType, ValueType
    <3>3. Carried(m) = Value(prodMsg, m) /\ Carried(m)' = 0
      BY Zenon, <1>1 DEF Carried
    <3>4. lost[m] \in Nat /\ lost'[m] = lost[m] /\ InSeq(mq', m) = InSeq(mq, m)
      BY ZenonT(30), <1>2, Terms
    <3>5. /\ InSeq(mq', m) + InSeq(wire', m) + lost'[m] + Carried(m)'
               = InSeq(mq, m) + InSeq(wire, m) + lost[m] + Carried(m)
          /\ InSeq(wire', m) \in Nat /\ Carried(m)' \in Nat
      BY ONLY SMTT(30), <3>1, <3>2, <3>3, <3>4
    <3> QED BY Zenon, <3>2, <3>4, <3>5 DEF Stock
  <2> QED BY Zenon, <1>1, <1>2, <2>1, Moved
<1>7. PendingInv'
  <2>1. Outstanding' = Outstanding
    BY Zenon, <1>1, <1>2 DEF Outstanding
  <2> QED BY Zenon, <1>1, <1>2, <2>1, PendingKept DEF Flow
<1> QED BY Zenon, <1>1, <1>5, <1>6, <1>7 DEF Flow

\* The thread's post filter: one report fewer is pending.
LEMMA ProdPostFlow == ASSUME Base, Flow, ProdPost PROVE Flow'
<1>1. /\ FilterInv' /\ UNCHANGED <<last, count, first>>
      /\ \A m : InHand(m)' = InHand(m)
      /\ AtPost' = AtPost /\ InMaking' = InMaking /\ Reported' = Reported
      /\ prodPc = "post" /\ prodPc' = "get"
  BY Zenon, ProducerFacts DEF ProdPost
<1>2. UNCHANGED <<mq, wire, counter, lost, other, elsewhere>> /\ pending' = (pending + UIntMod - 1) % UIntMod
  BY Zenon DEF ProdPost, colVars
<1>3. WholeInv'
  BY Zenon, <1>1, <1>2 DEF Flow, WholeInv
<1>4. SumInv'
  <2>1. ASSUME NEW m \in Metric PROVE Carried(m)' = Carried(m)
    BY Zenon, <1>1 DEF Carried
  <2> QED BY Zenon, <1>1, <1>2, <2>1, Terms, Moved DEF Stock
<1>5. PendingInv'
  <2>1. PICK x \in Nat : /\ pending = Diff(Outstanding + x, AtPost + elsewhere)
                         /\ Outstanding + x + InMaking <= Cardinality(Reported)
                         /\ Outstanding + x < UIntMod
    BY Zenon, PendingPick
  <2>2. Outstanding' \in Nat /\ Outstanding = Outstanding' + 1
    BY <1>1, <1>2 DEF Outstanding, Flow, WholeInv
  <2>3. /\ AtPost \in {0, 1} /\ InMaking \in {0, 1} /\ elsewhere \in Nat /\ other \in Nat
        /\ elsewhere + other + InMaking <= Cardinality(Reported) /\ UIntMod \in Nat
        /\ Cardinality(Reported) \in Nat /\ Cardinality(Reported) < UIntMod
    BY ONLY SMTT(30), Quantities, Base, Flow
  <2>4. /\ Outstanding' + x \in Nat /\ Outstanding + x = (Outstanding' + x) + 1
        /\ (Outstanding' + x) + 1 < UIntMod /\ Outstanding' + x < UIntMod
        /\ AtPost + elsewhere \in Nat /\ AtPost + elsewhere <= UIntMod
        /\ Outstanding' + x + InMaking <= Cardinality(Reported)
    <3>1. Outstanding + x + InMaking <= Cardinality(Reported) /\ Outstanding + x < UIntMod
      BY Zenon, <2>1
    <3>2. InMaking \in Nat /\ AtPost \in Nat /\ AtPost <= 1
      BY ONLY SMTT(30), <2>3
    <3>3. \A o \in Nat, i \in Nat, c \in Nat, u \in Nat :
            o + 1 + x + i <= c /\ o + 1 + x < u
              => o + x \in Nat /\ o + 1 + x = (o + x) + 1 /\ (o + x) + 1 < u /\ o + x < u /\ o + x + i <= c
      BY ONLY SMTT(30), x \in Nat
    <3>4. AtPost + elsewhere \in Nat /\ AtPost + elsewhere <= UIntMod
      BY ONLY SMTT(30), <2>3, <3>2
    <3> QED BY Zenon, <2>2, <2>3, <3>1, <3>2, <3>3, <3>4
  <2>5. (Diff((Outstanding' + x) + 1, AtPost + elsewhere) + UIntMod - 1) % UIntMod
          = Diff(Outstanding' + x, AtPost + elsewhere)
    BY Zenon, <2>4, DiffCounts
  <2>6. pending' = Diff(Outstanding' + x, AtPost' + elsewhere')
    BY Zenon, <1>1, <1>2, <2>1, <2>4, <2>5
  <2> QED BY Zenon, <1>1, <1>2, <2>3, <2>4, <2>6, PendingNext
<1> QED BY Zenon, <1>1, <1>3, <1>4, <1>5 DEF Flow

\* The write fails: the report goes back on the queue, or is lost.
LEMMA ProdFailsFlow == ASSUME Base, Flow, ProdFails PROVE Flow'
<1>1. /\ FilterInv' /\ UNCHANGED <<last, count, first>>
      /\ \A m : InHand(m)' = InHand(m)
      /\ AtPost' = AtPost /\ InMaking' = InMaking /\ Reported' = Reported
      /\ prodPc = "write" /\ prodPc' = "none"
  BY Zenon, ProducerFacts DEF ProdFails
<1>2. /\ UNCHANGED <<pending, other, elsewhere, wire, counter>>
      /\ \/ mq' = Append(mq, prodMsg) /\ lost' = lost
         \/ mq' = mq /\ lost' = [k \in Metric |-> lost[k] + Value(prodMsg, k)]
  BY Zenon DEF ProdFails, Loses, colVars
<1>3. mq \in Seq(Report) /\ wire \in Seq(Report) /\ prodMsg \in Report
  BY Zenon, <1>1 DEF Flow, WholeInv
<1>4. mq' \in Seq(Report)
  <2>1. Append(mq, prodMsg) \in Seq(Report)
    BY ONLY SMTT(30), <1>3
  <2> QED BY Zenon, <1>2, <1>3, <2>1
<1>5. WholeInv'
  BY Zenon, <1>1, <1>2, <1>3, <1>4 DEF WholeInv
<1>6. SumInv'
  <2>1. ASSUME NEW m \in Metric
        PROVE  /\ InSeq(mq', m) \in Nat /\ InSeq(wire', m) \in Nat
               /\ lost'[m] \in Nat /\ Carried(m)' \in Nat
               /\ InSeq(mq', m) + InSeq(wire', m) + lost'[m] + Carried(m)' = Stock(m)
    <3>1. /\ InSeq(mq, m) \in Nat /\ InSeq(wire, m) \in Nat /\ Value(prodMsg, m) \in Nat
          /\ InSeq(wire', m) = InSeq(wire, m)
      BY ZenonT(30), <1>2, <1>3, InSeqType, ValueType
    <3>2. Carried(m) = Value(prodMsg, m) /\ Carried(m)' = 0
      BY Zenon, <1>1 DEF Carried
    <3>3. lost[m] \in Nat
      BY Zenon, Terms
    <3>4. \/ InSeq(mq', m) = InSeq(mq, m) + Value(prodMsg, m) /\ lost'[m] = lost[m]
          \/ InSeq(mq', m) = InSeq(mq, m) /\ lost'[m] = lost[m] + Value(prodMsg, m)
      BY ZenonT(30), <1>2, <1>3, InSeqAppend
    <3>5. /\ InSeq(mq', m) + InSeq(wire', m) + lost'[m] + Carried(m)'
               = InSeq(mq, m) + InSeq(wire, m) + lost[m] + Carried(m)
          /\ InSeq(mq', m) \in Nat /\ lost'[m] \in Nat /\ Carried(m)' \in Nat
      BY ONLY SMTT(30), <3>1, <3>2, <3>3, <3>4
    <3> QED BY Zenon, <3>1, <3>5 DEF Stock
  <2> QED BY Zenon, <1>1, <1>2, <2>1, Moved
<1>7. PendingInv'
  <2>1. CASE mq' = Append(mq, prodMsg)
    <3>1. Outstanding' = Outstanding
      BY <1>1, <1>3, <2>1 DEF Outstanding
    <3> QED BY Zenon, <1>1, <1>2, <3>1, PendingKept DEF Flow
  <2>2. CASE mq' = mq
    <3>1. PICK x \in Nat : /\ pending = Diff(Outstanding + x, AtPost + elsewhere)
                           /\ Outstanding + x + InMaking <= Cardinality(Reported)
      BY Zenon, PendingPick
    <3>2. Outstanding' \in Nat /\ Outstanding = Outstanding' + 1
      BY <1>1, <1>3, <2>2 DEF Outstanding
    <3>3. x + 1 \in Nat /\ Outstanding' + (x + 1) = Outstanding + x
      BY ONLY SMTT(30), <3>2, x \in Nat
    <3>4. elsewhere + other + InMaking <= Cardinality(Reported)
      BY Zenon DEF Flow, PendingInv, ElsewhereInv
    <3> QED BY Zenon, <1>1, <1>2, <3>1, <3>3, <3>4, PendingNext
  <2> QED BY Zenon, <1>2, <2>1, <2>2
<1> QED BY Zenon, <1>1, <1>5, <1>6, <1>7 DEF Flow

\* The thread of the other branch writes a report, or loses one.
LEMMA OtherFlow == ASSUME Base, Flow, OtherPost PROVE Flow'
<1>1. /\ UNCHANGED <<last, reportVars, filterVars, mq, prodVars, colVars, count, lost, first>>
      /\ other' = other - 1 /\ other > 0
      /\ \/ pending' = (pending + UIntMod - 1) % UIntMod /\ elsewhere' = elsewhere + 1
         \/ pending' = pending /\ elsewhere' = elsewhere
  BY Zenon DEF OtherPost
<1>2. UNCHANGED <<pc, pos, val, prodPc, prodMsg, wire, counter>>
  BY Zenon, <1>1 DEF reportVars, prodVars, colVars
<1>3. FilterInv' /\ (\A m : InHand(m)' = InHand(m)) /\ AtPost' = AtPost /\ InMaking' = InMaking
  BY ZenonT(30), <1>1, <1>2, FilterKept, ForNow, ForNext DEF Flow
<1>4. WholeInv'
  BY Zenon, <1>1, <1>2, WholeKept DEF Flow
<1>5. SumInv'
  <2>1. \A m : Carried(m)' = Carried(m)
    BY Zenon, <1>2 DEF Carried
  <2>2. \A m \in Metric : Underway(m)' = Underway(m)
    BY Zenon, <1>1, <1>2, <1>3, <2>1, UnderwayNext, Terms
  <2> QED BY Zenon, <1>1, <1>2, <2>2, SumKept DEF Flow
<1>6. PendingInv'
  <2>1. PICK x \in Nat : /\ pending = Diff(Outstanding + x, AtPost + elsewhere)
                         /\ Outstanding + x + InMaking <= Cardinality(Reported)
                         /\ Outstanding + x < UIntMod
    BY Zenon, PendingPick
  <2>2. Reported' = Reported /\ Outstanding' = Outstanding
    BY Zenon, <1>1, <1>2 DEF Reported, Outstanding
  <2>3. /\ Outstanding \in Nat /\ AtPost \in {0, 1} /\ InMaking \in {0, 1}
        /\ elsewhere \in Nat /\ other \in Nat
        /\ elsewhere + other + InMaking <= Cardinality(Reported) /\ UIntMod \in Nat
        /\ Cardinality(Reported) \in Nat /\ Cardinality(Reported) < UIntMod
    BY ONLY SMTT(30), Quantities, Base, Flow
  <2>4. elsewhere' + other' + InMaking <= Cardinality(Reported)
    BY ONLY SMTT(30), <1>1, <2>3
  <2>5. pending' = Diff(Outstanding + x, AtPost + elsewhere')
    <3>1. /\ Outstanding + x \in Nat /\ AtPost + elsewhere \in Nat
          /\ AtPost + (elsewhere + 1) = (AtPost + elsewhere) + 1
          /\ AtPost + elsewhere <= UIntMod /\ (AtPost + elsewhere) + 1 <= UIntMod
      BY ONLY SMTT(30), <1>1, <2>3, x \in Nat
    <3>2. (Diff(Outstanding + x, AtPost + elsewhere) + UIntMod - 1) % UIntMod
            = Diff(Outstanding + x, (AtPost + elsewhere) + 1)
      BY Zenon, <2>1, <3>1, DiffCounts
    <3> QED BY Zenon, <1>1, <2>1, <3>1, <3>2
  <2> QED BY Zenon, <1>3, <2>1, <2>2, <2>4, <2>5, PendingNext
<1> QED BY Zenon, <1>3, <1>4, <1>5, <1>6 DEF Flow

\* The collector adds with the overflow of 32 bits.
LEMMA AddWraps ==
  ASSUME NEW f \in 0..(UIntMod - 1), NEW c \in Nat, NEW n \in Nat, c + n < UIntMod
  PROVE  Add(Wrap(f + c), n) = Wrap(f + (c + n))
<1>1. UIntMod \in Nat \ {0}
  BY Zenon, Bounds
<1>2. CASE f + c < UIntMod
  BY <1>1, <1>2 DEF Add, Wrap
<1>3. CASE ~(f + c < UIntMod)
  BY <1>1, <1>3 DEF Add, Wrap
<1> QED BY Zenon, <1>2, <1>3

\* The collector adds the first report on the wire.
LEMMA CollectFlow == ASSUME Base, Flow, Collect PROVE Flow'
<1>1. /\ UNCHANGED <<last, reportVars, filterVars, queueVars, prodVars, histVars>>
      /\ wire # <<>> /\ wire' = Tail(wire)
  BY Zenon DEF Collect
<1>2. UNCHANGED <<pc, pos, val, mq, pending, other, prodPc, prodMsg, count, lost, first, elsewhere>>
  BY Zenon, <1>1 DEF reportVars, queueVars, prodVars, histVars
<1>3. FilterInv' /\ (\A m : InHand(m)' = InHand(m)) /\ AtPost' = AtPost /\ InMaking' = InMaking
  BY ZenonT(30), <1>1, <1>2, FilterKept, ForNow, ForNext DEF Flow
<1>4. mq \in Seq(Report) /\ wire \in Seq(Report)
  BY Zenon DEF Flow, WholeInv
<1>5. Head(wire) \in Report /\ Tail(wire) \in Seq(Report)
  BY ONLY SMTT(30), <1>1, <1>4
<1>6. WholeInv'
  BY Zenon, <1>1, <1>2, <1>5 DEF Flow, WholeInv
<1>7. PICK m \in Metric, n \in 1..MaxCount : Head(wire) = <<m, n>>
  BY ONLY SMTT(30), <1>5 DEF Report
<1>8. counter' = [counter EXCEPT ![m] = Add(counter[m], n)] /\ counter \in [Metric -> 0..(UIntMod - 1)]
  <2>1. Head(wire) # Torn /\ Head(wire)[1] = m /\ Head(wire)[2] = n
    BY <1>5, <1>7, MetricsAssumption
  <2> QED BY Zenon, <2>1, TypeParts DEF Collect, Base, ColType
<1>9. SumInv'
  <2>1. PICK c \in [Metric -> Nat] : \A k \in Metric : SumAt(c, k)
    BY Zenon DEF Flow, SumInv
  <2> DEFINE d == [c EXCEPT ![m] = c[m] + n]
  <2>2. n \in Nat /\ d \in [Metric -> Nat]
    BY ONLY SMTT(30), <1>7, <2>1, Bounds
  <2>3. \A k \in Metric : d[k] = IF k = m THEN c[m] + n ELSE c[k]
    BY Zenon, <2>1
  <2> HIDE DEF d
  <2>4. ASSUME NEW k \in Metric PROVE SumAt(d, k)'
    <3>1. /\ last[k] \in Nat /\ InHand(k) \in Nat /\ InSeq(mq, k) \in Nat /\ InSeq(wire, k) \in Nat
          /\ lost[k] \in Nat /\ Carried(k) \in Nat /\ count[k] \in Nat
          /\ Underway(k) = last[k] + InHand(k) + InSeq(mq, k) + InSeq(wire, k) + lost[k] + Carried(k)
      BY Zenon, Terms
    <3>2. Carried(k)' = Carried(k)
      BY Zenon, <1>2 DEF Carried
    <3>3. Underway(k)' = last[k] + InHand(k) + InSeq(mq, k) + InSeq(wire', k) + lost[k] + Carried(k)
      BY Zenon, <1>1, <1>2, <1>3, <3>2, UnderwayNext
    <3>4. Value(Head(wire), k) = IF k = m THEN n ELSE 0
      <4>1. <<m, n>> \in Report
        BY Zenon, <1>5, <1>7
      <4>2. Value(<<m, n>>, k) = IF k = m THEN n ELSE 0
        BY ONLY SMTT(30), <4>1, ValueOf
      <4> QED BY Zenon, <1>7, <4>2
    <3>5. InSeq(wire, k) = Value(Head(wire), k) + InSeq(wire', k) /\ InSeq(wire', k) \in Nat
      BY ZenonT(30), <1>1, <1>4, <1>5, InSeqTail, InSeqType
    <3>6. /\ counter[k] = Wrap(first[k] + c[k]) /\ c[k] + Underway(k) = count[k] /\ c[k] \in Nat
          /\ first[k] \in 0..(UIntMod - 1) /\ count[k] <= MaxCount
      BY <2>1, TypeParts DEF SumAt, Base, EventInv
    <3>7. CASE k = m
      <4>1. d[k] = c[k] + n /\ Value(Head(wire), k) = n
        BY ZenonT(30), <2>3, <3>4, <3>7
      <4>2. d[k] + Underway(k)' = count[k]
        BY ONLY SMTT(30), <2>2, <3>1, <3>3, <3>5, <3>6, <4>1
      <4>3. c[k] + n < UIntMod
        <5>1. Underway(k)' \in Nat
          BY ONLY SMTT(30), <3>1, <3>3, <3>5
        <5> QED BY ONLY SMTT(30), <2>2, <3>6, <4>1, <4>2, <5>1, Bounds, count[k] \in Nat, <3>1
      <4>4. counter'[k] = Add(counter[k], n)
        BY Zenon, <1>8, <3>7
      <4>5. counter'[k] = Wrap(first[k] + d[k])
        BY ZenonT(30), <2>2, <3>6, <4>1, <4>3, <4>4, AddWraps
      <4> QED BY Zenon, <1>2, <4>2, <4>5 DEF SumAt
    <3>8. CASE k # m
      <4>1. d[k] = c[k] /\ Value(Head(wire), k) = 0
        BY ZenonT(30), <2>3, <3>4, <3>8
      <4>2. d[k] + Underway(k)' = count[k]
        BY ONLY SMTT(30), <3>1, <3>3, <3>5, <3>6, <4>1
      <4>3. counter'[k] = counter[k]
        BY Zenon, <1>8, <3>8
      <4> QED BY ZenonT(30), <1>2, <3>6, <4>1, <4>2, <4>3 DEF SumAt
    <3> QED BY Zenon, <3>7, <3>8
  <2> QED BY Zenon, <2>2, <2>4 DEF SumInv
<1>10. PendingInv'
  <2>1. Outstanding' = Outstanding
    BY Zenon, <1>2 DEF Outstanding
  <2> QED BY Zenon, <1>1, <1>2, <1>3, <2>1, PendingKept DEF Flow
<1> QED BY Zenon, <1>3, <1>6, <1>9, <1>10 DEF Flow

-----------------------------------------------------------------------------
(* The invariant.                                                          *)

\* Nothing is under way at the start.
LEMMA FlowInit == ASSUME Init PROVE Flow
<1>1. /\ pc = [r \in Reporter |-> IF r = "main" THEN "filter" ELSE "sleep"]
      /\ mq = <<>> /\ wire = <<>> /\ pending = 0 /\ prodPc = "none" /\ bad = FALSE
      /\ first = counter /\ last = [m \in Metric |-> 0] /\ count = last /\ lost = last
  BY Zenon DEF Init
<1>2. \A r \in Reporter : pc[r] \in {"filter", "sleep"}
  BY Zenon, <1>1
<1>3. FilterInv
  BY Zenon, <1>1, <1>2 DEF FilterInv, FilterAt, InFilter, Reporter
<1>4. WholeInv
  BY <1>1 DEF WholeInv
<1>5. (\A m : InHand(m) = 0) /\ AtPost = 0 /\ InMaking = 0
  <2>1. \A r \in Reporter : pc[r] \notin Taking \cup {"post"}
    BY Zenon, <1>2 DEF Taking
  <2>2. OnlyBy("main", pc, pos, val)
    <3>1. "main" \in Reporter /\ "reporter" \in Reporter /\ "main" # "reporter"
      BY Zenon DEF Reporter
    <3> QED BY Zenon, <2>1, <3>1, OneHand
  <2>3. "main" \in Reporter
    BY Zenon DEF Reporter
  <2> QED BY Zenon, <2>1, <2>2, <2>3, ForNow DEF OnlyBy
<1>6. SumInv
  <2> DEFINE c == [m \in Metric |-> 0]
  <2>1. c \in [Metric -> Nat]
    BY Zenon
  <2>2. ASSUME NEW m \in Metric PROVE SumAt(c, m)
    <3>1. last[m] = 0 /\ count[m] = 0 /\ lost[m] = 0 /\ c[m] = 0 /\ InHand(m) = 0
      BY Zenon, <1>1, <1>5
    <3>2. InSeq(mq, m) = 0 /\ InSeq(wire, m) = 0
      BY Zenon, <1>1, InSeqEmpty
    <3>3. Underway(m) = last[m] + InHand(m) + InSeq(mq, m) + InSeq(wire, m) + lost[m] + 0
      BY Zenon, <1>1 DEF Underway
    <3>4. counter[m] = first[m] /\ first[m] \in 0..(UIntMod - 1)
      BY Bounds DEF Init
    <3>5. counter[m] = Wrap(first[m] + c[m])
      BY <3>1, <3>4, Bounds DEF Wrap
    <3> QED BY <3>1, <3>2, <3>3, <3>5 DEF SumAt
  <2> QED BY Zenon, <2>1, <2>2 DEF SumInv
<1>7. PendingInv
  <2>1. Outstanding = 0
    BY <1>1 DEF Outstanding
  <2>2. Cardinality(Reported) \in Nat
    BY Zenon, ReportedCount
  <2>3. other = 0 /\ elsewhere = 0 /\ UIntMod \in Nat
    BY Zenon, Bounds DEF Init
  <2>4. /\ pending = Diff(Outstanding + 0, AtPost + elsewhere)
        /\ Outstanding + 0 + InMaking <= Cardinality(Reported)
        /\ elsewhere + other + InMaking <= Cardinality(Reported)
    BY ONLY SMTT(30), <1>1, <1>5, <2>1, <2>2, <2>3 DEF Diff
  <2>5. 0 \in Nat
    BY Zenon
  <2> QED BY Zenon, <2>4, <2>5 DEF PendingInv, PendingFor, ElsewhereInv
<1> QED BY Zenon, <1>3, <1>4, <1>6, <1>7 DEF Flow

\* Every step, as long as the threads have not met in the filter.
LEMMA FlowStep == ASSUME Base, Base', Flow, [Next]_vars, ~overlap' PROVE Flow'
<1>1. CASE UNCHANGED vars
  <2>1. /\ UNCHANGED <<reportVars, filterVars, mq, wire, prodPc, prodMsg, counter, first, count, last, lost>>
        /\ UNCHANGED <<pc, pos, val, pending, other, elsewhere>>
    BY Zenon, <1>1 DEF vars, reportVars, queueVars, prodVars, colVars, histVars
  <2>2. (\A m : InHand(m)' = InHand(m)) /\ AtPost' = AtPost /\ InMaking' = InMaking
    BY Zenon, <2>1, ForNow, ForNext
  <2>3. SumInv'
    <3>1. \A m : Carried(m)' = Carried(m)
      BY Zenon, <2>1 DEF Carried
    <3>2. \A m \in Metric : Underway(m)' = Underway(m)
      BY Zenon, <2>1, <2>2, <3>1, UnderwayNext, Terms
    <3> QED BY Zenon, <2>1, <3>2, SumKept DEF Flow
  <2>4. PendingInv'
    <3>1. Outstanding' = Outstanding
      BY Zenon, <2>1 DEF Outstanding
    <3> QED BY Zenon, <2>1, <2>2, <3>1, PendingKept DEF Flow
  <2> QED BY Zenon, <2>1, <2>3, <2>4, FilterKept, WholeKept DEF Flow
<1>2. CASE Collect
  BY Zenon, <1>2, CollectFlow
<1>3. CASE ProdStep
  BY Zenon, <1>3, OpenFlow, ProdGetFlow, ProdWriteFlow, ProdPostFlow, ProdFailsFlow DEF ProdStep
<1>4. ASSUME NEW r \in Reporter, FilterStep(r) PROVE Flow'
  BY Zenon, <1>4, PassFlow, PutFlow, PostFlow DEF FilterStep
<1>5. ASSUME NEW r \in Reporter, Exchange(r) PROVE Flow'
  BY Zenon, <1>5, ExchangeFlow
<1>6. CASE QuietGoes
  BY Zenon, <1>6, QuietFlow
<1>7. ASSUME NEW m \in Metric, Count(m) PROVE Flow'
  BY Zenon, <1>7, CountFlow
<1>8. CASE OtherPost
  BY Zenon, <1>8, OtherFlow
<1> QED BY ZenonT(30), <1>1, <1>2, <1>3, <1>4, <1>5, <1>6, <1>7, <1>8, NextKinds

\* Once the two threads have met in the filter, they have.
LEMMA OverlapStays == ASSUME [Next]_vars, overlap \in BOOLEAN, overlap PROVE overlap'
<1>1. CASE Next
  <2>1. overlap' = overlap \/ \E r \in Reporter : Exchange(r)
    BY Zenon, <1>1 DEF Next, Processed, Dropped, Count, Wake, FilterLoopEnds, WaitEnds, Collect, ReportDone,
       SendString, GetString, GetTorn, PutReport, PostReport, Open, ProdGet, ProdWrite, ProdPost, ProdFails,
       OtherPost, ProducerGoes, histVars
  <2>2. ASSUME NEW r \in Reporter, Exchange(r) PROVE overlap'
    BY Zenon, <2>2 DEF Exchange
  <2> QED BY Zenon, <2>1, <2>2
<1>2. CASE UNCHANGED vars
  BY Zenon, <1>2 DEF vars, histVars
<1> QED BY Zenon, <1>1, <1>2

\* The inductive invariant holds in every state.
THEOREM MetricsInvariance == Spec => []MetricsInv
<1>1. Init => MetricsInv
  BY Zenon, BaseInit, FlowInit DEF MetricsInv
<1>2. MetricsInv /\ [Next]_vars => MetricsInv'
  <2> SUFFICES ASSUME MetricsInv, [Next]_vars PROVE MetricsInv'
    BY Zenon
  <2>1. Base /\ Base' /\ overlap \in BOOLEAN
    <3>1. Base /\ Base'
      BY Zenon, BaseStep DEF MetricsInv
    <3> QED BY Zenon, <3>1 DEF Base, TypeOK
  <2>2. ASSUME ~overlap' PROVE Flow'
    BY Zenon, <2>1, <2>2, OverlapStays, FlowStep DEF MetricsInv
  <2> QED BY Zenon, <2>1, <2>2 DEF MetricsInv
<1> QED BY <1>1, <1>2, PTL DEF Spec

\* No event is counted twice and none disappears between a counter of the
\* process and the sums of wsbmetric.py (metric_reporter.hpp, pub.cpp,
\* wsbmetric.py), for any number of destinations and any queue.
THEOREM MetricsConserved == Spec => []CountsConserved
<1>1. MetricsInv => CountsConserved
  <2> SUFFICES ASSUME MetricsInv PROVE CountsConserved
    BY Zenon
  <2>1. Base /\ TypeOK /\ EventInv
    BY Zenon DEF MetricsInv, Base
  <2>2. ASSUME ~overlap, NEW m \in Metric
        PROVE  (counter[m] + Underway(m)) % UIntMod = (first[m] + count[m]) % UIntMod
    <3>1. PICK c \in [Metric -> Nat] : \A k \in Metric : SumAt(c, k)
      BY Zenon, <2>2 DEF MetricsInv, Flow, SumInv
    <3>2. counter[m] = Wrap(first[m] + c[m]) /\ c[m] + Underway(m) = count[m] /\ c[m] \in Nat
      BY Zenon, <3>1 DEF SumAt
    <3>3. /\ last[m] \in Nat /\ InHand(m) \in Nat /\ InSeq(mq, m) \in Nat /\ InSeq(wire, m) \in Nat
          /\ lost[m] \in Nat /\ Carried(m) \in Nat
          /\ Underway(m) = last[m] + InHand(m) + InSeq(mq, m) + InSeq(wire, m) + lost[m] + Carried(m)
      BY ZenonT(30), <2>1, <2>2, Terms DEF MetricsInv
    <3>4. Underway(m) \in Nat
      BY ONLY SMTT(30), <3>3
    <3>5. first[m] \in 0..(UIntMod - 1) /\ count[m] \in 0..MaxCount
      BY Zenon, <2>1 DEF EventInv
    <3> DEFINE f == first[m]
               a == c[m]
               u == Underway(m)
               n == count[m]
    <3>6. /\ f \in Nat /\ f < UIntMod /\ a \in Nat /\ u \in Nat /\ n = a + u /\ n < UIntMod
          /\ UIntMod \in Nat \ {0}
      BY <3>2, <3>4, <3>5, Bounds
    <3>7. counter[m] = Wrap(f + a)
      BY Zenon, <3>2
    <3> HIDE DEF f, a, u, n
    <3>8. (f + n) % UIntMod = Wrap(f + n)
      <4>1. f + n \in Nat /\ f + n < 2 * UIntMod
        BY ONLY SMTT(30), <3>6
      <4> QED BY Zenon, <4>1, WrapsOnce
    <3>9. (Wrap(f + a) + u) % UIntMod = Wrap(Wrap(f + a) + u)
      <4>1. Wrap(f + a) + u \in Nat /\ Wrap(f + a) + u < 2 * UIntMod
        BY ONLY SMTT(30), <3>6 DEF Wrap
      <4> QED BY Zenon, <4>1, WrapsOnce
    <3>10. Wrap(Wrap(f + a) + u) = Wrap(f + n)
      BY ONLY SMTT(30), <3>6 DEF Wrap
    <3> QED BY Zenon, <3>7, <3>8, <3>9, <3>10 DEF f, u, n
  <2> QED BY Zenon, <2>1, <2>2 DEF CountsConserved
<1> QED BY <1>1, MetricsInvariance, PTL

\* When the last wait of main() finds the counter at 0, every report that was
\* queued has been written, but for as many as the other branches have written
\* (pub.cpp, connector.hpp): for any number of destinations, any queue, and
\* writes that fail.
THEOREM LastReportsWritten == Spec => []FinalReportWritten
<1>1. MetricsInv => FinalReportWritten
  <2> SUFFICES ASSUME MetricsInv, pc["main"] = "wait", pending = 0, ~overlap, ~InFilter("reporter")
               PROVE  Len(mq) + (IF prodPc = "write" THEN 1 ELSE 0) <= elsewhere
    BY Zenon DEF FinalReportWritten
  <2>1. Base /\ Flow
    BY Zenon DEF MetricsInv
  <2>2. AtPost = 0
    BY Zenon DEF AtPost, InFilter, Reporter
  <2>3. PICK x \in Nat : /\ pending = Diff(Outstanding + x, AtPost + elsewhere)
                         /\ Outstanding + x < UIntMod
    BY Zenon, <2>1, PendingPick
  <2>4. Len(mq) \in Nat
    BY <2>1 DEF Flow, WholeInv
  <2>5. /\ Outstanding \in Nat /\ elsewhere \in Nat /\ other \in Nat /\ UIntMod \in Nat
        /\ elsewhere + other + InMaking <= Cardinality(Reported) /\ InMaking \in {0, 1}
        /\ Cardinality(Reported) \in Nat /\ Cardinality(Reported) < UIntMod
    BY ONLY SMTT(30), <2>1, Quantities
  <2>6. Outstanding <= elsewhere
    BY ONLY SMTT(30), <2>2, <2>3, <2>5, pending = 0, x \in Nat DEF Diff
  <2>7. Len(mq) + (IF prodPc = "write" THEN 1 ELSE 0) <= Outstanding
    BY ONLY SMTT(30), <2>4 DEF Outstanding
  <2> QED BY ONLY SMTT(30), <2>4, <2>5, <2>6, <2>7
<1> QED BY <1>1, MetricsInvariance, PTL
=============================================================================
