-------------------------- MODULE ReferencesProofs --------------------------
(***************************************************************************)
(* Proofs about References, for any finite set of threads: an inductive    *)
(* invariant of each part, and what follows from it.                       *)
(***************************************************************************)
EXTENDS References, FiniteSetTheorems, TLAPS

\* The time the provers may take at a step that names none of them.
USE SMTT(30), ZenonT(30)

-----------------------------------------------------------------------------
(* The counts of shared_ptr and weak_ptr.                                  *)

\* The references, one by one: the first to the f[t]-th of each thread t.
Refs(f) == {x \in Threads \X (1..MaxRefs) : x[2] <= f[x[1]]}

\* The references are finitely many, and there are none exactly if every
\* thread has none.
LEMMA RefsFinite ==
  ASSUME NEW f \in [Threads -> 0..MaxRefs]
  PROVE  /\ IsFiniteSet(Refs(f)) /\ Cardinality(Refs(f)) \in Nat
         /\ Refs(f) = {} <=> \A t \in Threads : f[t] = 0
         /\ Refs(f) = {} <=> Cardinality(Refs(f)) = 0
<1>1. MaxRefs \in Nat /\ IsFiniteSet(Threads)
  BY Zenon, ReferencesAssumption
<1>2. IsFiniteSet(1..MaxRefs)
  BY <1>1, FS_Interval
<1>3. IsFiniteSet(Threads \X (1..MaxRefs))
  BY ONLY SMTT(30), <1>1, <1>2, FS_Product
<1>4. Refs(f) \subseteq Threads \X (1..MaxRefs)
  BY Zenon DEF Refs
<1>5. IsFiniteSet(Refs(f))
  BY ONLY SMTT(30), <1>3, <1>4, FS_Subset
<1>6. Cardinality(Refs(f)) \in Nat /\ (Refs(f) = {} <=> Cardinality(Refs(f)) = 0)
  BY ONLY SMTT(30), <1>5, FS_CardinalityType, FS_EmptySet
<1>7. ASSUME Refs(f) = {}, NEW t \in Threads PROVE f[t] = 0
  <2>1. SUFFICES ASSUME f[t] # 0 PROVE FALSE
    BY Zenon
  <2>2. f[t] \in 0..MaxRefs
    BY Zenon
  <2>3. <<t, 1>> \in Threads \X (1..MaxRefs) /\ 1 <= f[t]
    BY <1>1, <2>1, <2>2
  <2>4. <<t, 1>> \in Refs(f)
    BY Zenon, <2>3 DEF Refs
  <2> QED BY Zenon, <1>7, <2>4
<1>8. ASSUME \A t \in Threads : f[t] = 0 PROVE Refs(f) = {}
  BY <1>8 DEF Refs
<1> QED BY Zenon, <1>5, <1>6, <1>7, <1>8

\* A thread gets a reference.
LEMMA RefAdded ==
  ASSUME NEW f \in [Threads -> 0..MaxRefs], NEW t \in Threads, f[t] < MaxRefs,
         NEW g, g = [f EXCEPT ![t] = @ + 1]
  PROVE  /\ g \in [Threads -> 0..MaxRefs]
         /\ Cardinality(Refs(g)) = Cardinality(Refs(f)) + 1
<1>1. MaxRefs \in Nat /\ f[t] \in Nat
  BY ReferencesAssumption
<1>2. g \in [Threads -> 0..MaxRefs] /\ \A u \in Threads : g[u] = IF u = t THEN f[t] + 1 ELSE f[u]
  BY <1>1
<1>3. PICK x : x = <<t, f[t] + 1>>
  BY Zenon
<1>4. x \notin Refs(f)
  BY <1>1, <1>3 DEF Refs
<1>5. ASSUME NEW y \in Threads \X (1..MaxRefs)
      PROVE  y[2] <= g[y[1]] <=> y[2] <= f[y[1]] \/ y = x
  <2>1. PICK u \in Threads, i \in 1..MaxRefs : y = <<u, i>>
    OBVIOUS
  <2>2. y[1] = u /\ y[2] = i /\ i \in Nat /\ f[u] \in Nat
    BY <1>1, <2>1
  <2>3. y = x <=> u = t /\ i = f[t] + 1
    BY Zenon, <1>3, <2>1
  <2> QED BY <1>1, <1>2, <2>2, <2>3
<1>6. x \in Threads \X (1..MaxRefs)
  BY <1>1, <1>3
<1>7. Refs(g) = Refs(f) \cup {x}
  BY Zenon, <1>5, <1>6 DEF Refs
<1>8. IsFiniteSet(Refs(f))
  BY Zenon, RefsFinite
<1>9. Cardinality(Refs(f) \cup {x}) = Cardinality(Refs(f)) + 1
  BY ONLY SMTT(30), <1>4, <1>8, FS_AddElement
<1> QED BY Zenon, <1>2, <1>7, <1>9

\* A thread gives one up.
LEMMA RefRemoved ==
  ASSUME NEW f \in [Threads -> 0..MaxRefs], NEW t \in Threads, f[t] > 0,
         NEW g, g = [f EXCEPT ![t] = @ - 1]
  PROVE  /\ g \in [Threads -> 0..MaxRefs]
         /\ Cardinality(Refs(g)) = Cardinality(Refs(f)) - 1
<1>1. MaxRefs \in Nat /\ f[t] \in Nat /\ f[t] <= MaxRefs
  BY ReferencesAssumption
<1>2. g \in [Threads -> 0..MaxRefs] /\ g[t] = f[t] - 1 /\ g[t] < MaxRefs
  BY <1>1
<1>3. f = [g EXCEPT ![t] = @ + 1]
  <2>1. \A u \in Threads : f[u] = [g EXCEPT ![t] = @ + 1][u]
    BY <1>1, <1>2
  <2> QED BY Zenon, <1>2, <2>1
<1>4. Cardinality(Refs(f)) = Cardinality(Refs(g)) + 1
  BY Zenon, <1>2, <1>3, RefAdded
<1>5. Cardinality(Refs(f)) \in Nat /\ Cardinality(Refs(g)) \in Nat
  BY Zenon, <1>2, RefsFinite
<1> QED BY <1>2, <1>4, <1>5

\* Some thread has a shared reference.
Somebody == \E t \in Threads : shared[t] > 0

\* The thread that gave up the last shared reference, until it has given up
\* the weak reference of the shared ones.
Ending(t) == pc[t] \in {"destroy", "releaseWeak"}

Grouped == Somebody \/ \E t \in Threads : Ending(t)

\* Each count is one less than the references it stands for.
NumbersInv ==
  /\ shared_owners = Cardinality(Refs(shared)) - 1
  /\ weak_owners = Cardinality(Refs(weak)) - IF Grouped THEN 0 ELSE 1

\* One thread ends the object, when nobody shares it, and one the counts, when
\* nobody refers to them.
EndInv ==
  /\ \A t \in Threads : Ending(t) => ~Somebody
  /\ \A t, u \in Threads : Ending(t) /\ Ending(u) => t = u
  /\ \A t \in Threads : pc[t] = "free" => ~Grouped /\ \A u \in Threads : weak[u] = 0
  /\ \A t, u \in Threads : pc[t] = "free" /\ pc[u] = "free" => t = u
  /\ object <=> Somebody \/ \E t \in Threads : pc[t] = "destroy"
  /\ control <=> Grouped \/ \E t \in Threads : weak[t] > 0 \/ pc[t] = "free"

\* lock() is for a thread with a weak reference, and swaps no count of -1.
LockInv ==
  /\ object_owners \in [Threads -> Int]
  /\ \A t \in Threads : pc[t] \in {"read", "swap"} => weak[t] > 0 /\ shared[t] < MaxRefs
  /\ \A t \in Threads : pc[t] = "swap" => object_owners[t] # -1

CountInv == Cnt!TypeOK /\ NumbersInv /\ EndInv /\ LockInv

\* What the counts say of the references.
LEMMA CountFacts ==
  ASSUME CountInv
  PROVE  /\ Cardinality(Refs(shared)) \in Nat /\ Cardinality(Refs(weak)) \in Nat
         /\ Somebody <=> Cardinality(Refs(shared)) # 0
         /\ (\E t \in Threads : weak[t] > 0) <=> Cardinality(Refs(weak)) # 0
         /\ shared \in [Threads -> 0..MaxRefs] /\ weak \in [Threads -> 0..MaxRefs]
         /\ MaxRefs \in Nat /\ shared_owners \in Int /\ weak_owners \in Int
         /\ \A t \in Threads : shared[t] \in Nat /\ weak[t] \in Nat
<1>1. /\ shared \in [Threads -> 0..MaxRefs] /\ weak \in [Threads -> 0..MaxRefs]
      /\ shared_owners \in Int /\ weak_owners \in Int /\ MaxRefs \in Nat
  BY Zenon, ReferencesAssumption DEF CountInv, Cnt!TypeOK
<1>2. \A t \in Threads : shared[t] \in Nat /\ weak[t] \in Nat
  BY <1>1
<1>3. Somebody <=> Refs(shared) # {}
  BY <1>1, <1>2, RefsFinite DEF Somebody
<1>4. (\E t \in Threads : weak[t] > 0) <=> Refs(weak) # {}
  BY <1>1, <1>2, RefsFinite
<1>5. /\ Cardinality(Refs(shared)) \in Nat /\ Cardinality(Refs(weak)) \in Nat
      /\ Refs(shared) = {} <=> Cardinality(Refs(shared)) = 0
      /\ Refs(weak) = {} <=> Cardinality(Refs(weak)) = 0
  BY Zenon, <1>1, RefsFinite
<1> QED BY Zenon, <1>1, <1>2, <1>3, <1>4, <1>5

\* At the start one thread has one shared reference.
LEMMA CountInit == Cnt!Init => CountInv
<1> SUFFICES ASSUME Cnt!Init PROVE CountInv
  BY Zenon
<1>1. MaxRefs \in Nat /\ MaxRefs > 0
  BY ReferencesAssumption
<1>2. PICK t \in Threads : shared = [u \in Threads |-> IF u = t THEN 1 ELSE 0]
  BY Zenon DEF Cnt!Init
<1>3. Cnt!TypeOK
  <2>1. shared \in [Threads -> 0..MaxRefs] /\ weak \in [Threads -> 0..MaxRefs]
    BY <1>1, <1>2 DEF Cnt!Init
  <2>2. pc \in [Threads -> {"run", "destroy", "releaseWeak", "free", "read", "swap"}]
    BY Zenon DEF Cnt!Init
  <2>3. shared_owners \in Int /\ weak_owners \in Int /\ {object, control} \subseteq BOOLEAN
    BY DEF Cnt!Init
  <2> QED BY Zenon, <2>1, <2>2, <2>3 DEF Cnt!TypeOK
<1>4. shared[t] = 1 /\ \A u \in Threads : pc[u] = "run" /\ weak[u] = 0
  BY Zenon, <1>2 DEF Cnt!Init
<1>5. Somebody /\ Grouped
  BY <1>4 DEF Somebody, Grouped
<1>6. NumbersInv
  <2>1. PICK f : f = [u \in Threads |-> 0]
    BY Zenon
  <2>2. f \in [Threads -> 0..MaxRefs] /\ f[t] < MaxRefs /\ weak = f
    BY <1>1, <2>1 DEF Cnt!Init
  <2>3. shared = [f EXCEPT ![t] = @ + 1]
    BY <1>2, <2>1
  <2>4. Refs(f) = {} /\ Cardinality(Refs(f)) = 0
    BY Zenon, <2>1, <2>2, RefsFinite
  <2>5. Cardinality(Refs(shared)) = Cardinality(Refs(f)) + 1
    BY Zenon, <2>2, <2>3, RefAdded
  <2> QED BY <1>5, <2>2, <2>4, <2>5 DEF NumbersInv, Cnt!Init
<1>7. EndInv
  BY Zenon, <1>4, <1>5 DEF EndInv, Ending, Cnt!Init
<1>8. LockInv
  BY <1>4 DEF LockInv, Cnt!Init
<1> QED BY Zenon, <1>3, <1>6, <1>7, <1>8 DEF CountInv

\* A thread gets a shared reference while there is one: a copy, its own or of
\* another thread, or what lock() obtains.
LEMMA SharedGrows ==
  ASSUME CountInv, NEW t \in Threads, shared[t] < MaxRefs, Somebody,
         shared_owners' = shared_owners + 1, shared' = [shared EXCEPT ![t] = @ + 1],
         pc' = [pc EXCEPT ![t] = "run"], pc[t] \in {"run", "swap"},
         UNCHANGED <<weak_owners, object, control, weak, object_owners>>
  PROVE  CountInv'
<1>0. /\ \A u \in Threads : shared[u] \in Nat
      /\ shared \in [Threads -> 0..MaxRefs] /\ shared_owners \in Int
      /\ Cardinality(Refs(shared)) \in Nat
  BY Zenon, CountFacts
<1>1. shared' \in [Threads -> 0..MaxRefs]
      /\ Cardinality(Refs(shared')) = Cardinality(Refs(shared)) + 1
  BY Zenon, <1>0, RefAdded
<1>2. /\ \A u \in Threads : pc'[u] = IF u = t THEN "run" ELSE pc[u]
      /\ \A u \in Threads : shared'[u] = IF u = t THEN shared[t] + 1 ELSE shared[u]
  BY Zenon, <1>0 DEF CountInv, Cnt!TypeOK
<1>3. Somebody' /\ Grouped' /\ Grouped
  BY <1>0, <1>2 DEF Somebody, Grouped
<1>4. Cnt!TypeOK'
  BY <1>0, <1>1 DEF CountInv, Cnt!TypeOK
<1>5. NumbersInv'
  BY <1>0, <1>1, <1>3 DEF CountInv, NumbersInv
<1>6. EndInv'
  BY <1>2, <1>3 DEF CountInv, EndInv, Ending
<1>7. LockInv'
  BY <1>2 DEF CountInv, LockInv
<1> QED BY Zenon, <1>4, <1>5, <1>6, <1>7 DEF CountInv

\* __add_weak.
LEMMA WeakGrows == ASSUME CountInv, NEW t \in Threads, Cnt!add_weak(t) PROVE CountInv'
<1>0. /\ \A u \in Threads : shared[u] \in Nat /\ weak[u] \in Nat
      /\ weak \in [Threads -> 0..MaxRefs] /\ weak_owners \in Int
      /\ Cardinality(Refs(weak)) \in Nat
  BY Zenon, CountFacts
<1>1. weak' \in [Threads -> 0..MaxRefs] /\ Cardinality(Refs(weak')) = Cardinality(Refs(weak)) + 1
  BY Zenon, <1>0, RefAdded DEF Cnt!add_weak
<1>2. \A u \in Threads : weak'[u] = IF u = t THEN weak[t] + 1 ELSE weak[u]
  BY Zenon, <1>0 DEF Cnt!add_weak
<1>3. (Somebody' <=> Somebody) /\ (Grouped' <=> Grouped) /\ pc' = pc /\ (Somebody \/ weak[t] > 0)
  BY <1>0 DEF Somebody, Grouped, Ending, Cnt!add_weak
<1>4. Cnt!TypeOK'
  BY <1>0, <1>1 DEF CountInv, Cnt!TypeOK, Cnt!add_weak
<1>5. NumbersInv'
  BY <1>0, <1>1, <1>3 DEF CountInv, NumbersInv, Cnt!add_weak
<1>6. EndInv'
  <2>1. \A u \in Threads : pc[u] # "free"
    BY <1>0, <1>3 DEF CountInv, EndInv, Grouped
  <2>2. control /\ object' = object /\ control' = control
    BY Zenon, <1>3 DEF CountInv, EndInv, Grouped, Cnt!add_weak
  <2> QED BY <1>0, <1>2, <1>3, <2>1, <2>2 DEF CountInv, EndInv, Ending
<1>7. LockInv'
  BY Zenon, <1>0, <1>2, <1>3 DEF CountInv, LockInv, Cnt!add_weak
<1> QED BY Zenon, <1>4, <1>5, <1>6, <1>7 DEF CountInv

\* __release_shared: the thread that gives up the last reference ends the
\* object.
LEMMA ReleaseSharedStep ==
  ASSUME CountInv, NEW t \in Threads, Cnt!release_shared(t) PROVE CountInv'
<1>0. /\ \A u \in Threads : shared[u] \in Nat /\ weak[u] \in Nat
      /\ shared \in [Threads -> 0..MaxRefs] /\ shared_owners \in Int
      /\ Cardinality(Refs(shared)) \in Nat /\ shared[t] > 0 /\ pc[t] = "run"
  BY Zenon, CountFacts DEF Cnt!release_shared
<1>1. shared' \in [Threads -> 0..MaxRefs]
      /\ Cardinality(Refs(shared')) = Cardinality(Refs(shared)) - 1
  BY Zenon, <1>0, RefRemoved DEF Cnt!release_shared
<1>2. /\ \A u \in Threads :
           pc'[u] = IF u = t THEN (IF shared_owners = 0 THEN "destroy" ELSE "run") ELSE pc[u]
      /\ \A u \in Threads : shared'[u] = IF u = t THEN shared[t] - 1 ELSE shared[u]
      /\ pc' \in [Threads -> {"run", "destroy", "releaseWeak", "free", "read", "swap"}]
  BY Zenon, <1>0 DEF CountInv, Cnt!TypeOK, Cnt!release_shared, Cnt!Goes
<1>3. Somebody /\ Grouped
  BY Zenon, <1>0 DEF Somebody, Grouped
<1>4. \A u \in Threads : ~Ending(u) /\ pc[u] # "free"
  BY Zenon, <1>3 DEF CountInv, EndInv
<1>5. shared_owners = Cardinality(Refs(shared)) - 1
  BY Zenon DEF CountInv, NumbersInv
<1>6. Somebody' <=> shared_owners # 0
  <2>1. \A u \in Threads : shared'[u] \in Nat
    BY <1>0, <1>2
  <2>2. /\ Refs(shared') = {} <=> \A u \in Threads : shared'[u] = 0
        /\ Refs(shared') = {} <=> Cardinality(Refs(shared')) = 0
    BY Zenon, <1>1, RefsFinite
  <2>3. Cardinality(Refs(shared')) = shared_owners
    BY Zenon, <1>0, <1>1, <1>5
  <2> QED BY <2>1, <2>2, <2>3 DEF Somebody
<1>7. Grouped'
  BY Zenon, <1>2, <1>6 DEF Grouped, Ending
<1>8. object /\ control /\ object' = object /\ control' = control
  BY Zenon, <1>3 DEF CountInv, EndInv, Cnt!release_shared
<1>9. Cnt!TypeOK'
  BY <1>0, <1>1, <1>2 DEF CountInv, Cnt!TypeOK, Cnt!release_shared
<1>10. NumbersInv'
  BY Zenon, <1>0, <1>1, <1>3, <1>7 DEF CountInv, NumbersInv, Cnt!release_shared
<1>11. EndInv'
  BY Zenon, <1>2, <1>4, <1>6, <1>7, <1>8 DEF EndInv, Ending
<1>12. LockInv'
  BY Zenon, <1>0, <1>2 DEF CountInv, LockInv, Cnt!release_shared
<1> QED BY Zenon, <1>9, <1>10, <1>11, <1>12 DEF CountInv

\* Its end is that thread's, and nobody can see it meanwhile.
LEMMA OnZeroSharedStep ==
  ASSUME CountInv, NEW t \in Threads, Cnt!on_zero_shared(t) PROVE CountInv'
<1>1. /\ \A u \in Threads : pc'[u] = IF u = t THEN "releaseWeak" ELSE pc[u]
      /\ pc' \in [Threads -> {"run", "destroy", "releaseWeak", "free", "read", "swap"}]
  BY Zenon DEF CountInv, Cnt!TypeOK, Cnt!on_zero_shared, Cnt!Goes
<1>2. Ending(t) /\ Ending(t)' /\ \A u \in Threads : Ending(u)' <=> Ending(u)
  BY Zenon, <1>1 DEF Ending, Cnt!on_zero_shared
<1>3. (Somebody' <=> Somebody) /\ Grouped /\ Grouped' /\ ~Somebody
  BY Zenon, <1>2 DEF CountInv, EndInv, Somebody, Grouped, Cnt!on_zero_shared
<1>4. Cnt!TypeOK'
  BY Zenon, <1>1 DEF CountInv, Cnt!TypeOK, Cnt!on_zero_shared
<1>5. NumbersInv'
  BY Zenon, <1>3 DEF CountInv, NumbersInv, Cnt!on_zero_shared
<1>6. EndInv'
  <2>1. \A u \in Threads : pc'[u] # "destroy" /\ pc[u] # "free" /\ pc'[u] # "free"
    BY Zenon, <1>1, <1>2, <1>3 DEF CountInv, EndInv, Ending
  <2> QED BY Zenon, <1>2, <1>3, <2>1 DEF CountInv, EndInv, Cnt!on_zero_shared
<1>7. LockInv'
  BY Zenon, <1>1 DEF CountInv, LockInv, Cnt!on_zero_shared
<1> QED BY Zenon, <1>4, <1>5, <1>6, <1>7 DEF CountInv

\* __release_weak, of a weak_ptr or of the shared references together: the
\* thread that gives up the last reference ends the counts.
LEMMA ReleaseWeakStep ==
  ASSUME CountInv, NEW t \in Threads, Cnt!release_weak(t) PROVE CountInv'
<1>0. /\ \A u \in Threads : shared[u] \in Nat /\ weak[u] \in Nat
      /\ weak \in [Threads -> 0..MaxRefs] /\ weak_owners \in Int
      /\ Cardinality(Refs(weak)) \in Nat
      /\ (\E u \in Threads : weak[u] > 0) <=> Cardinality(Refs(weak)) # 0
  BY Zenon, CountFacts
<1>1. /\ \A u \in Threads :
           pc'[u] = IF u = t THEN (IF weak_owners = 0 THEN "free" ELSE "run") ELSE pc[u]
      /\ pc' \in [Threads -> {"run", "destroy", "releaseWeak", "free", "read", "swap"}]
      /\ weak_owners' = weak_owners - 1
      /\ UNCHANGED <<shared_owners, object, control, shared, object_owners>>
  BY Zenon DEF CountInv, Cnt!TypeOK, Cnt!release_weak, Cnt!Goes
<1>2. Somebody' <=> Somebody
  BY Zenon, <1>1 DEF Somebody
<1>3. weak_owners = Cardinality(Refs(weak)) - IF Grouped THEN 0 ELSE 1
  BY Zenon DEF CountInv, NumbersInv
<1>4. CASE pc[t] = "releaseWeak" /\ weak' = weak
  <2>1. Grouped /\ ~Somebody /\ Ending(t)
    BY Zenon, <1>4 DEF CountInv, EndInv, Grouped, Ending
  <2>2. \A u \in Threads : ~Ending(u)'
    BY Zenon, <1>1, <2>1 DEF CountInv, EndInv, Ending
  <2>3. ~Grouped' /\ control /\ ~object
    BY Zenon, <1>2, <1>4, <2>1, <2>2 DEF CountInv, EndInv, Grouped, Ending
  <2>4. \A u \in Threads : pc[u] # "free" /\ pc[u] # "destroy" /\ pc'[u] # "destroy"
    BY Zenon, <1>1, <1>4, <2>1 DEF CountInv, EndInv, Ending
  <2>5. Cnt!TypeOK'
    BY <1>0, <1>1, <1>4 DEF CountInv, Cnt!TypeOK
  <2>6. NumbersInv'
    BY <1>0, <1>1, <1>3, <1>4, <2>1, <2>3 DEF CountInv, NumbersInv
  <2>7. weak_owners = 0 <=> \A u \in Threads : weak[u] = 0
    BY <1>0, <1>3, <2>1
  <2>8. EndInv'
    BY <1>0, <1>1, <1>2, <1>4, <2>1, <2>2, <2>3, <2>4, <2>7 DEF EndInv
  <2>9. LockInv'
    BY Zenon, <1>1, <1>4 DEF CountInv, LockInv
  <2> QED BY Zenon, <2>5, <2>6, <2>8, <2>9 DEF CountInv
<1>5. CASE pc[t] = "run" /\ weak[t] > 0 /\ weak' = [weak EXCEPT ![t] = @ - 1]
  <2>1. weak' \in [Threads -> 0..MaxRefs] /\ Cardinality(Refs(weak')) = Cardinality(Refs(weak)) - 1
    BY Zenon, <1>0, <1>5, RefRemoved
  <2>2. \A u \in Threads : weak'[u] = (IF u = t THEN weak[t] - 1 ELSE weak[u]) /\ weak'[u] \in Nat
    BY <1>0, <1>5
  <2>3. \A u \in Threads : (Ending(u)' <=> Ending(u)) /\ (pc'[u] = "destroy" <=> pc[u] = "destroy")
    BY Zenon, <1>1, <1>5 DEF Ending
  <2>4. (Grouped' <=> Grouped) /\ control /\ \A u \in Threads : pc[u] # "free"
    BY <1>0, <1>2, <1>5, <2>3 DEF CountInv, EndInv, Grouped
  <2>5. Cnt!TypeOK'
    BY <1>0, <1>1, <2>1 DEF CountInv, Cnt!TypeOK
  <2>6. NumbersInv'
    BY <1>0, <1>1, <1>3, <2>1, <2>4 DEF CountInv, NumbersInv
  <2>7. weak_owners = 0 <=> ~Grouped /\ \A u \in Threads : weak'[u] = 0
    <3>1. /\ Refs(weak') = {} <=> \A u \in Threads : weak'[u] = 0
          /\ Refs(weak') = {} <=> Cardinality(Refs(weak')) = 0
      BY Zenon, <2>1, RefsFinite
    <3>2. (\A u \in Threads : weak'[u] = 0) <=> Cardinality(Refs(weak)) = 1
      BY <1>0, <2>1, <3>1
    <3>3. Cardinality(Refs(weak)) # 0
      BY Zenon, <1>0, <1>5
    <3> QED BY <1>0, <1>3, <3>2, <3>3
  <2>8. EndInv'
    <3>1. (\E u \in Threads : weak'[u] > 0) \/ \A u \in Threads : weak'[u] = 0
      BY <2>2
    <3> QED BY Zenon, <1>1, <1>2, <2>2, <2>3, <2>4, <2>7, <3>1 DEF CountInv, EndInv
  <2>9. LockInv'
    BY Zenon, <1>1, <2>2 DEF CountInv, LockInv
  <2> QED BY Zenon, <2>5, <2>6, <2>8, <2>9 DEF CountInv
<1> QED BY Zenon, <1>4, <1>5 DEF Cnt!release_weak

\* The end of the counts is that thread's.
LEMMA OnZeroWeakStep ==
  ASSUME CountInv, NEW t \in Threads, Cnt!on_zero_shared_weak(t) PROVE CountInv'
<1>1. /\ \A u \in Threads : pc'[u] = IF u = t THEN "run" ELSE pc[u]
      /\ pc' \in [Threads -> {"run", "destroy", "releaseWeak", "free", "read", "swap"}]
  BY Zenon DEF CountInv, Cnt!TypeOK, Cnt!on_zero_shared_weak, Cnt!Goes
<1>2. /\ \A u \in Threads : (Ending(u)' <=> Ending(u)) /\ (pc'[u] = "destroy" <=> pc[u] = "destroy")
      /\ pc[t] = "free"
  BY Zenon, <1>1 DEF Ending, Cnt!on_zero_shared_weak
<1>3. (Somebody' <=> Somebody) /\ (Grouped' <=> Grouped) /\ ~Grouped
      /\ \A u \in Threads : weak[u] = 0
  BY Zenon, <1>2 DEF CountInv, EndInv, Somebody, Grouped, Cnt!on_zero_shared_weak
<1>4. Cnt!TypeOK'
  BY Zenon, <1>1 DEF CountInv, Cnt!TypeOK, Cnt!on_zero_shared_weak
<1>5. NumbersInv'
  BY Zenon, <1>3 DEF CountInv, NumbersInv, Cnt!on_zero_shared_weak
<1>6. EndInv'
  <2>1. \A u \in Threads : pc'[u] # "free"
    BY <1>1, <1>2 DEF CountInv, EndInv
  <2>2. object' = object /\ weak' = weak /\ control' = FALSE
    BY Zenon DEF Cnt!on_zero_shared_weak
  <2> QED BY <1>2, <1>3, <2>1, <2>2 DEF CountInv, EndInv
<1>7. LockInv'
  BY Zenon, <1>1 DEF CountInv, LockInv, Cnt!on_zero_shared_weak
<1> QED BY Zenon, <1>4, <1>5, <1>6, <1>7 DEF CountInv

\* A thread reads the count for lock(), or reads it again.
LEMMA ReadStep ==
  ASSUME CountInv, NEW t \in Threads, pc[t] \in {"run", "read", "swap"},
         NEW l \in {"run", "read", "swap"}, Cnt!Goes(t, l),
         l # "run" => weak[t] > 0 /\ shared[t] < MaxRefs,
         object_owners' \in [Threads -> Int],
         \A u \in Threads \ {t} : object_owners'[u] = object_owners[u],
         l = "swap" => object_owners'[t] # -1,
         UNCHANGED <<shared_owners, weak_owners, object, control, shared, weak>>
  PROVE  CountInv'
<1>1. /\ \A u \in Threads : pc'[u] = IF u = t THEN l ELSE pc[u]
      /\ pc' \in [Threads -> {"run", "destroy", "releaseWeak", "free", "read", "swap"}]
  BY Zenon DEF CountInv, Cnt!TypeOK, Cnt!Goes
<1>2. \A u \in Threads : /\ Ending(u)' <=> Ending(u)
                         /\ pc'[u] = "destroy" <=> pc[u] = "destroy"
                         /\ pc'[u] = "free" <=> pc[u] = "free"
  BY Zenon, <1>1 DEF Ending
<1>3. (Somebody' <=> Somebody) /\ (Grouped' <=> Grouped)
  BY Zenon, <1>2 DEF Somebody, Grouped
<1>4. Cnt!TypeOK'
  BY Zenon, <1>1 DEF CountInv, Cnt!TypeOK
<1>5. NumbersInv'
  BY Zenon, <1>3 DEF CountInv, NumbersInv
<1>6. EndInv'
  BY <1>2, <1>3 DEF CountInv, EndInv
<1>7. LockInv'
  BY Zenon, <1>1 DEF CountInv, LockInv
<1> QED BY Zenon, <1>4, <1>5, <1>6, <1>7 DEF CountInv

\* The compare and swap of lock() succeeds only while somebody shares the
\* object, also if the count was changed and changed back since it was read.
LEMMA SwapStep ==
  ASSUME CountInv, NEW t \in Threads, Cnt!compare_and_swap(t) PROVE CountInv'
<1>0. pc[t] = "swap" /\ weak[t] > 0 /\ shared[t] < MaxRefs /\ object_owners[t] # -1
  BY Zenon DEF Cnt!compare_and_swap, CountInv, LockInv
<1>1. CASE shared_owners = object_owners[t]
  <2>1. Somebody
    BY <1>0, <1>1, CountFacts DEF CountInv, NumbersInv
  <2>2. shared_owners' = shared_owners + 1 /\ shared' = [shared EXCEPT ![t] = @ + 1]
    BY Zenon, <1>1 DEF Cnt!compare_and_swap
  <2>3. /\ pc' = [pc EXCEPT ![t] = "run"]
        /\ UNCHANGED <<weak_owners, object, control, weak, object_owners>>
    BY Zenon, <1>1 DEF Cnt!compare_and_swap, Cnt!Goes
  <2> QED BY Zenon, <1>0, <2>1, <2>2, <2>3, SharedGrows
<1>2. CASE shared_owners # object_owners[t]
  <2>1. Cnt!Goes(t, "read") /\ object_owners' = object_owners
        /\ UNCHANGED <<shared_owners, weak_owners, object, control, shared, weak>>
    BY Zenon, <1>2 DEF Cnt!compare_and_swap
  <2>2. object_owners \in [Threads -> Int]
    BY Zenon DEF CountInv, LockInv
  <2> QED BY Zenon, <1>0, <2>1, <2>2, ReadStep
<1> QED BY Zenon, <1>1, <1>2

\* lock() reads the count before it tries to add to it.
LEMMA ReadOwnersStep ==
  ASSUME CountInv, NEW t \in Threads, Cnt!lock(t) PROVE CountInv'
<1>1. pc[t] \in {"run", "read"} /\ weak[t] > 0 /\ shared[t] < MaxRefs
  BY Zenon DEF Cnt!lock, CountInv, LockInv
<1>2. shared_owners \in Int /\ object_owners \in [Threads -> Int]
  BY Zenon, CountFacts DEF CountInv, LockInv
<1>3. /\ object_owners' = [object_owners EXCEPT ![t] = shared_owners]
      /\ UNCHANGED <<shared_owners, weak_owners, object, control, shared, weak>>
  BY Zenon DEF Cnt!lock
<1>4. /\ object_owners' \in [Threads -> Int] /\ object_owners'[t] = shared_owners
      /\ \A u \in Threads \ {t} : object_owners'[u] = object_owners[u]
  BY Zenon, <1>2, <1>3
<1>5. PICK l \in {"run", "swap"} : Cnt!Goes(t, l) /\ (l = "swap" => shared_owners # -1)
  BY Zenon DEF Cnt!lock
<1> QED BY Zenon, <1>1, <1>3, <1>4, <1>5, ReadStep

\* Every step keeps the invariant.
LEMMA CountKept == ASSUME CountInv, [Cnt!Next]_(Cnt!vars) PROVE CountInv'
<1>1. CASE UNCHANGED Cnt!vars
  BY Zenon, <1>1 DEF Cnt!vars, CountInv, Cnt!TypeOK, NumbersInv, EndInv, LockInv, Grouped, Somebody, Ending
<1>2. ASSUME NEW t \in Threads, Cnt!add_shared(t) PROVE CountInv'
  <2>1. Somebody /\ pc[t] = "run" /\ pc' = [pc EXCEPT ![t] = "run"]
    BY Zenon, <1>2 DEF Cnt!add_shared, Somebody, CountInv, Cnt!TypeOK
  <2> QED BY Zenon, <1>2, <2>1, SharedGrows DEF Cnt!add_shared
<1>3. ASSUME NEW t \in Threads, NEW u \in Threads, Cnt!Give(t, u) PROVE CountInv'
  <2>1. Somebody /\ pc[u] = "run" /\ pc' = [pc EXCEPT ![u] = "run"]
    BY Zenon, <1>3 DEF Cnt!Give, Somebody, CountInv, Cnt!TypeOK
  <2> QED BY Zenon, <1>3, <2>1, SharedGrows DEF Cnt!Give
<1>4. CASE Cnt!Next
  BY <1>2, <1>3, <1>4, WeakGrows, ReleaseSharedStep, OnZeroSharedStep, ReleaseWeakStep,
     OnZeroWeakStep, ReadOwnersStep, SwapStep DEF Cnt!Next
<1> QED BY Zenon, <1>1, <1>4

\* The invariant says that object and counts live as long as they should.
LEMMA CountLives == CountInv => Cnt!TypeOK /\ Cnt!ObjectLives /\ Cnt!ControlLives
<1> SUFFICES ASSUME CountInv PROVE Cnt!TypeOK /\ Cnt!ObjectLives /\ Cnt!ControlLives
  BY Zenon
<1>1. \A t \in Threads : shared[t] \in Nat /\ weak[t] \in Nat
  BY Zenon, CountFacts
<1>2. Cnt!ObjectLives
  BY <1>1 DEF CountInv, EndInv, Somebody, Cnt!ObjectLives
<1>3. Cnt!ControlLives
  BY <1>1 DEF CountInv, EndInv, LockInv, Cnt!TypeOK, Grouped, Somebody, Ending, Cnt!ControlLives
<1> QED BY Zenon, <1>2, <1>3 DEF CountInv

-----------------------------------------------------------------------------
(* Promises and futures.                                                   *)

\* Who refers to the shared state: futures, threads that list it for their
\* end, and the promise.
Holders == {c \in Consumers : pc[c] \in {"has", "wait", "woken"}}
Listing == {t \in Producers : exits[t] = 1}
Owners == Cardinality(Holders) + Cardinality(Listing) + IF promise THEN 1 ELSE 0

FutType ==
  /\ constructed \in BOOLEAN /\ ready \in BOOLEAN /\ attached \in BOOLEAN
  /\ freed \in BOOLEAN /\ promise \in BOOLEAN
  /\ exception \in Producers \cup {"null", "broken"} /\ shared_owners \in Int
  /\ pc \in [Fut!Parties -> {"run", "notify", "refused", "exit", "exitNotify", "end",
                             "none", "has", "wait", "woken", "value", "threw"}]
  /\ exits \in [Producers -> 0..1]

\* The count is one less than the owners, and the state is deleted with the
\* last of them.
OwnersInv == shared_owners + 1 = Owners /\ (freed <=> Owners = 0)

\* A thread lists the state from its setter to its end, and uses no promise
\* that is gone.
ProducerInv ==
  \A t \in Producers :
    /\ pc[t] \in {"run", "notify", "refused", "exit", "exitNotify", "end"}
    /\ exits[t] = 1 => pc[t] \in {"exit", "exitNotify"}
    /\ pc[t] = "exitNotify" => exits[t] = 1
    /\ pc[t] \in {"run", "notify"} => promise

\* A result comes once, from a setter or from the end of the promise, and
\* before it is ready a thread has yet to make it so.
ResultInv ==
  /\ ~(constructed /\ exception # "null")
  /\ ready => Fut!has_value
  /\ \A t \in Producers : exits[t] = 1 => Fut!has_value
  /\ Fut!has_value /\ ~ready => \E t \in Producers : exits[t] = 1 /\ pc[t] = "exit"
  /\ ~promise /\ ~Fut!has_value => Holders = {}

\* A consumer has the result that is there, or waits and will be notified.
ConsumerInv ==
  \A c \in Consumers :
    /\ pc[c] \in {"none", "has", "wait", "woken", "value", "threw", "end"}
    /\ pc[c] = "value" => ready /\ constructed
    /\ pc[c] = "threw" => ready /\ exception # "null"
    /\ pc[c] = "wait" /\ ready => \E t \in Producers : pc[t] \in {"notify", "exitNotify"}

FutInv == FutType /\ OwnersInv /\ ProducerInv /\ ResultInv /\ ConsumerInv

\* The owners are finitely many.
LEMMA OwnersFinite ==
  /\ IsFiniteSet(Holders) /\ Cardinality(Holders) \in Nat
  /\ Holders = {} <=> Cardinality(Holders) = 0
  /\ IsFiniteSet(Listing) /\ Cardinality(Listing) \in Nat
  /\ Listing = {} <=> Cardinality(Listing) = 0
<1>1. IsFiniteSet(Consumers) /\ IsFiniteSet(Producers)
  BY Zenon, ReferencesAssumption
<1>2. Holders \subseteq Consumers /\ Listing \subseteq Producers
  BY Zenon DEF Holders, Listing
<1>3. IsFiniteSet(Holders) /\ IsFiniteSet(Listing)
  BY ONLY SMTT(30), <1>1, <1>2, FS_Subset
<1> QED BY ONLY SMTT(30), <1>3, FS_CardinalityType, FS_EmptySet

\* The same after a step.
LEMMA OwnersFiniteNext ==
  /\ IsFiniteSet(Holders') /\ Cardinality(Holders') \in Nat
  /\ Holders' = {} <=> Cardinality(Holders') = 0
  /\ IsFiniteSet(Listing') /\ Cardinality(Listing') \in Nat
  /\ Listing' = {} <=> Cardinality(Listing') = 0
<1>1. IsFiniteSet(Consumers) /\ IsFiniteSet(Producers)
  BY Zenon, ReferencesAssumption
<1>2. Holders' \subseteq Consumers /\ Listing' \subseteq Producers
  BY Zenon DEF Holders, Listing
<1>3. IsFiniteSet(Holders') /\ IsFiniteSet(Listing')
  BY ONLY SMTT(30), <1>1, <1>2, FS_Subset
<1> QED BY ONLY SMTT(30), <1>3, FS_CardinalityType, FS_EmptySet

\* Nobody is an owner exactly if there is none of each kind.
LEMMA NoOwners == Owners \in Nat /\ (Owners = 0 <=> Holders = {} /\ Listing = {} /\ ~promise)
<1>1. PICK h \in Nat : h = Cardinality(Holders)
  BY Zenon, OwnersFinite
<1>2. PICK l \in Nat : l = Cardinality(Listing)
  BY Zenon, OwnersFinite
<1>3. (Holders = {} <=> h = 0) /\ (Listing = {} <=> l = 0)
  BY Zenon, <1>1, <1>2, OwnersFinite
<1>4. Owners = h + l + IF promise THEN 1 ELSE 0
  BY Zenon, <1>1, <1>2 DEF Owners
<1> QED BY <1>3, <1>4

\* The steps that change who the owners are not.
LEMMA OwnersStay ==
  ASSUME OwnersInv, Holders' = Holders, Listing' = Listing,
         UNCHANGED <<promise, shared_owners, freed>>
  PROVE  OwnersInv'
BY Zenon DEF OwnersInv, Owners

\* There is one more: __add_shared comes with it, while there is another.
LEMMA OwnersMore ==
  ASSUME OwnersInv, Owners # 0, shared_owners' = shared_owners + 1, freed' = freed,
         Owners' = Owners + 1, shared_owners \in Int
  PROVE  OwnersInv'
<1>1. Owners \in Nat
  BY Zenon, NoOwners
<1> QED BY <1>1 DEF OwnersInv

\* There is one less: __release_shared comes with it.
LEMMA OwnersLess ==
  ASSUME OwnersInv, Fut!release_shared, Owners = Owners' + 1, shared_owners \in Int,
         Owners' \in Nat
  PROVE  OwnersInv'
<1>1. Owners \in Nat
  BY Zenon, NoOwners
<1>2. shared_owners' + 1 = Owners' /\ (shared_owners = 0 <=> Owners' = 0)
  <2>1. shared_owners + 1 = Owners /\ shared_owners' = shared_owners - 1
    BY Zenon DEF OwnersInv, Fut!release_shared
  <2>2. PICK n \in Nat : n = Owners'
    BY Zenon
  <2>3. PICK i \in Int : i = shared_owners
    BY Zenon
  <2>4. i + 1 = n + 1
    BY Zenon, <2>1, <2>2, <2>3
  <2>5. i = n
    BY ONLY SMTT(30), <2>4, n \in Nat, i \in Int
  <2>6. shared_owners' = n - 1
    BY Zenon, <2>1, <2>3, <2>5
  <2>7. (n - 1) + 1 = n
    OBVIOUS
  <2>8. shared_owners' + 1 = Owners'
    BY ONLY Zenon, <2>2, <2>6, <2>7
  <2>9. shared_owners = 0 <=> Owners' = 0
    BY ONLY SMTT(30), <2>2, <2>3, <2>5
  <2> QED BY Zenon, <2>8, <2>9
<1>3. freed' = (shared_owners = 0)
  BY Zenon DEF Fut!release_shared
<1>4. freed' <=> Owners' = 0
  BY ONLY Zenon, <1>2, <1>3
<1> QED BY Zenon, <1>2, <1>4 DEF OwnersInv

\* A future, or a thread's list, is one owner.
LEMMA AddOwner ==
  ASSUME NEW S, IsFiniteSet(S), NEW x, x \notin S
  PROVE  Cardinality(S \cup {x}) = Cardinality(S) + 1 /\ Cardinality(S) \in Nat
BY Zenon, FS_AddElement, FS_CardinalityType

\* A future comes.
LEMMA HolderComes ==
  ASSUME NEW c \in Consumers, c \notin Holders, Holders' = Holders \cup {c}, Listing' = Listing,
         promise' = promise
  PROVE  Owners' = Owners + 1
<1>1. Cardinality(Holders') = Cardinality(Holders) + 1 /\ Cardinality(Holders) \in Nat
  BY Zenon, AddOwner, OwnersFinite
<1>2. Cardinality(Listing) \in Nat
  BY Zenon, OwnersFinite
<1> QED BY <1>1, <1>2 DEF Owners

\* A future goes.
LEMMA HolderGoes ==
  ASSUME NEW c \in Holders, Holders' = Holders \ {c}, Listing' = Listing, promise' = promise
  PROVE  Owners = Owners' + 1 /\ Owners' \in Nat
<1>1. Holders = Holders' \cup {c} /\ c \notin Holders' /\ IsFiniteSet(Holders')
  BY Zenon, OwnersFiniteNext
<1>2. PICK S : S = Holders'
  BY Zenon
<1>3. Cardinality(Holders) = Cardinality(S) + 1 /\ Cardinality(S) \in Nat
  BY Zenon, <1>1, <1>2, AddOwner
<1>4. Cardinality(Listing) \in Nat
  BY Zenon, OwnersFinite
<1> QED BY <1>2, <1>3, <1>4 DEF Owners

\* A thread lists the state.
LEMMA ListerComes ==
  ASSUME NEW t \in Producers, t \notin Listing, Listing' = Listing \cup {t}, Holders' = Holders,
         promise' = promise
  PROVE  Owners' = Owners + 1
<1>1. Cardinality(Listing') = Cardinality(Listing) + 1 /\ Cardinality(Listing) \in Nat
  BY Zenon, AddOwner, OwnersFinite
<1>2. Cardinality(Holders) \in Nat
  BY Zenon, OwnersFinite
<1> QED BY <1>1, <1>2 DEF Owners

\* A thread that listed it ends.
LEMMA ListerGoes ==
  ASSUME NEW t \in Listing, Listing' = Listing \ {t}, Holders' = Holders, promise' = promise
  PROVE  Owners = Owners' + 1 /\ Owners' \in Nat
<1>1. Listing = Listing' \cup {t} /\ t \notin Listing' /\ IsFiniteSet(Listing')
  BY Zenon, OwnersFiniteNext
<1>2. PICK S : S = Listing'
  BY Zenon
<1>3. Cardinality(Listing) = Cardinality(S) + 1 /\ Cardinality(S) \in Nat
  BY Zenon, <1>1, <1>2, AddOwner
<1>4. Cardinality(Holders) \in Nat
  BY Zenon, OwnersFinite
<1> QED BY <1>2, <1>3, <1>4 DEF Owners

\* Where a thread can be.
Places == {"run", "notify", "refused", "exit", "exitNotify", "end",
           "none", "has", "wait", "woken", "value", "threw"}

\* Threads after a step of one of them, with and without notify_all.
LEMMA GoesTo ==
  ASSUME FutType, NEW t \in Fut!Parties, NEW l \in Places, Fut!Goes(t, l)
  PROVE  /\ pc' \in [Fut!Parties -> Places]
         /\ \A u \in Fut!Parties : pc'[u] = IF u = t THEN l ELSE pc[u]
BY Zenon DEF FutType, Fut!Goes, Places

\* The same with notify_all.
LEMMA NotifyTo ==
  ASSUME FutType, NEW t \in Fut!Parties, NEW l \in Places, pc[t] # "wait",
         pc' = Fut!NotifyAll([pc EXCEPT ![t] = l])
  PROVE  /\ pc' \in [Fut!Parties -> Places]
         /\ \A u \in Fut!Parties :
              pc'[u] = IF u = t THEN l ELSE IF pc[u] = "wait" THEN "woken" ELSE pc[u]
BY Zenon DEF FutType, Fut!NotifyAll, Places

\* Producers and consumers are different threads.
LEMMA Roles ==
  /\ Fut!Parties = Producers \cup Consumers
  /\ \A t \in Producers : t \notin Consumers /\ t # "null" /\ t # "broken"
BY Zenon, ReferencesAssumption DEF Fut!Parties

\* The invariant at the start.
LEMMA FutInit == Fut!Init => FutInv
<1> SUFFICES ASSUME Fut!Init PROVE FutInv
  BY Zenon
<1>1. FutType
  <2>1. pc \in [Fut!Parties -> Places] /\ exits \in [Producers -> 0..1] /\ shared_owners \in Int
    BY DEF Fut!Init, Places
  <2>2. /\ constructed \in BOOLEAN /\ ready \in BOOLEAN /\ attached \in BOOLEAN
        /\ freed \in BOOLEAN /\ promise \in BOOLEAN
        /\ exception \in Producers \cup {"null", "broken"}
    BY Zenon DEF Fut!Init
  <2> QED BY Zenon, <2>1, <2>2 DEF FutType, Places
<1>2. /\ \A t \in Producers : pc[t] = "run" /\ exits[t] = 0
      /\ \A c \in Consumers : pc[c] = "none"
  BY Zenon, Roles DEF Fut!Init
<1>3. Holders = {} /\ Listing = {} /\ promise
  BY <1>2 DEF Holders, Listing, Fut!Init
<1>4. Owners = 1
  BY <1>3, OwnersFinite DEF Owners
<1>5. OwnersInv
  BY <1>4 DEF OwnersInv, Fut!Init
<1>6. ProducerInv /\ ResultInv /\ ConsumerInv
  BY <1>2, <1>3 DEF ProducerInv, ResultInv, ConsumerInv, Fut!Init, Fut!has_value
<1> QED BY Zenon, <1>1, <1>5, <1>6 DEF FutInv

\* A producer that is refused, or does not use the promise.
LEMMA QuietStep ==
  ASSUME FutInv, NEW t \in Producers, Fut!Refused(t) \/ Fut!Leaves(t) PROVE FutInv'
<1>0. PICK l \in {"refused", "exit"} : Fut!Goes(t, l) /\ pc[t] \in {"run", "refused"}
  BY Zenon DEF Fut!Refused, Fut!Leaves
<1>1. UNCHANGED <<constructed, ready, exception, attached, shared_owners, freed, promise, exits>>
  BY Zenon DEF Fut!Refused, Fut!Leaves, Fut!Others
<1>2. /\ pc' \in [Fut!Parties -> Places]
      /\ \A u \in Fut!Parties : pc'[u] = IF u = t THEN l ELSE pc[u]
  BY <1>0, Roles, GoesTo DEF FutInv, Places
<1>3. Holders' = Holders /\ Listing' = Listing
  BY Zenon, <1>1, <1>2, Roles DEF Holders, Listing
<1>4. FutType'
  BY Zenon, <1>1, <1>2 DEF FutInv, FutType, Places
<1>5. OwnersInv'
  BY Zenon, <1>1, <1>3, OwnersStay DEF FutInv
<1>6. ProducerInv'
  BY Zenon, <1>0, <1>1, <1>2, Roles DEF FutInv, ProducerInv, FutType
<1>7. ResultInv'
  BY <1>0, <1>1, <1>2, <1>3, Roles DEF FutInv, ResultInv, ProducerInv, Fut!has_value
<1>8. ConsumerInv'
  BY Zenon, <1>0, <1>1, <1>2, Roles DEF FutInv, ConsumerInv
<1> QED BY Zenon, <1>4, <1>5, <1>6, <1>7, <1>8 DEF FutInv

\* set_value and set_exception.
LEMMA SetStep ==
  ASSUME FutInv, NEW t \in Producers, Fut!set_value(t) \/ Fut!set_exception(t) PROVE FutInv'
<1>1. /\ UNCHANGED <<attached, shared_owners, freed, promise, exits>>
      /\ promise /\ pc[t] = "run" /\ ~Fut!has_value /\ ready' = TRUE
      /\ exception' \in Producers \cup {"null", "broken"} /\ constructed' \in BOOLEAN
      /\ (constructed' /\ exception' = "null") \/ (~constructed' /\ exception' # "null")
  <2>1. CASE Fut!set_value(t)
    BY Zenon, <2>1 DEF Fut!set_value, Fut!Others, Fut!has_value, FutInv, FutType
  <2>2. CASE Fut!set_exception(t)
    BY Zenon, <2>2, Roles DEF Fut!set_exception, Fut!Others, Fut!has_value, FutInv, FutType
  <2> QED BY Zenon, <2>1, <2>2
<1>2. PICK l \in {"exit", "notify"} :
        /\ pc' \in [Fut!Parties -> Places]
        /\ \A u \in Fut!Parties : u # t => pc'[u] = pc[u] \/ (pc[u] = "wait" /\ pc'[u] = "woken")
        /\ l = "exit" => \A u \in Fut!Parties : pc'[u] # "wait"
        /\ pc'[t] = l
  <2>0. t \in Fut!Parties /\ pc[t] = "run" /\ FutType
    BY Zenon, <1>1, Roles DEF FutInv
  <2>1. CASE Fut!set_value(t)
    <3>1. pc' = Fut!NotifyAll([pc EXCEPT ![t] = "exit"]) /\ "exit" \in Places
      BY Zenon, <2>1 DEF Fut!set_value, Places
    <3> QED BY Zenon, <2>0, <3>1, NotifyTo
  <2>2. CASE Fut!set_exception(t)
    <3>1. Fut!Goes(t, "notify") /\ "notify" \in Places
      BY Zenon, <2>2 DEF Fut!set_exception, Places
    <3> QED BY Zenon, <2>0, <3>1, GoesTo
  <2> QED BY Zenon, <2>1, <2>2
<1>3. Holders' = Holders /\ Listing' = Listing
  BY Zenon, <1>1, <1>2, Roles DEF Holders, Listing
<1>4. FutType'
  BY Zenon, <1>1, <1>2 DEF FutInv, FutType, Places
<1>5. OwnersInv'
  BY Zenon, <1>1, <1>3, OwnersStay DEF FutInv
<1>6. ProducerInv'
  BY Zenon, <1>1, <1>2, Roles DEF FutInv, ProducerInv, FutType
<1>7. ResultInv'
  BY Zenon, <1>1 DEF ResultInv, Fut!has_value
<1>8. ConsumerInv'
  <2>1. ~ready
    BY Zenon, <1>1 DEF FutInv, ResultInv
  <2> QED BY Zenon, <1>1, <1>2, <2>1, Roles DEF FutInv, ConsumerInv
<1> QED BY <1>4, <1>5, <1>6, <1>7, <1>8 DEF FutInv

\* The notification of set_exception.
LEMMA FutNotifyStep == ASSUME FutInv, NEW t \in Producers, Fut!Notify(t) PROVE FutInv'
<1>1. /\ UNCHANGED <<constructed, ready, exception, attached, shared_owners, freed, promise, exits>>
      /\ pc[t] = "notify" /\ pc' = Fut!NotifyAll([pc EXCEPT ![t] = "exit"])
  BY Zenon DEF Fut!Notify, Fut!Others
<1>2. /\ pc' \in [Fut!Parties -> Places]
      /\ \A u \in Fut!Parties :
           pc'[u] = IF u = t THEN "exit" ELSE IF pc[u] = "wait" THEN "woken" ELSE pc[u]
  BY ZenonT(30), <1>1, Roles, NotifyTo DEF FutInv, Places
<1>3. Holders' = Holders /\ Listing' = Listing
  BY Zenon, <1>1, <1>2, Roles DEF Holders, Listing
<1>4. FutType'
  BY Zenon, <1>1, <1>2 DEF FutInv, FutType, Places
<1>5. OwnersInv'
  BY Zenon, <1>1, <1>3, OwnersStay DEF FutInv
<1>6. ProducerInv'
  BY Zenon, <1>1, <1>2, Roles DEF FutInv, ProducerInv, FutType
<1>7. ResultInv'
  BY Zenon, <1>1, <1>2, <1>3, Roles DEF FutInv, ResultInv, ProducerInv, Fut!has_value
<1>8. ConsumerInv'
  BY ZenonT(30), <1>1, <1>2, Roles DEF FutInv, ConsumerInv
<1> QED BY Zenon, <1>4, <1>5, <1>6, <1>7, <1>8 DEF FutInv

\* The setters that leave it to the end of their thread.
LEMMA SetAtExitStep ==
  ASSUME FutInv, NEW t \in Producers,
         Fut!set_value_at_thread_exit(t) \/ Fut!set_exception_at_thread_exit(t)
  PROVE  FutInv'
<1>1. /\ UNCHANGED <<ready, attached, freed, promise>>
      /\ promise /\ pc[t] = "run" /\ ~Fut!has_value
      /\ exception' \in Producers \cup {"null", "broken"} /\ constructed' \in BOOLEAN
      /\ (constructed' /\ exception' = "null") \/ (~constructed' /\ exception' # "null")
  <2>1. CASE Fut!set_value_at_thread_exit(t)
    BY Zenon, <2>1 DEF Fut!set_value_at_thread_exit, Fut!has_value, FutInv, FutType
  <2>2. CASE Fut!set_exception_at_thread_exit(t)
    BY Zenon, <2>2, Roles DEF Fut!set_exception_at_thread_exit, Fut!has_value, FutInv, FutType
  <2> QED BY Zenon, <2>1, <2>2
<1>2. Fut!make_ready_at_thread_exit(t) /\ Fut!Goes(t, "exit")
  BY Zenon DEF Fut!set_value_at_thread_exit, Fut!set_exception_at_thread_exit
<1>3. /\ exits[t] = 0 /\ exits' \in [Producers -> 0..1] /\ shared_owners' = shared_owners + 1
      /\ \A u \in Producers : exits'[u] = IF u = t THEN 1 ELSE exits[u]
  <2>1. exits[t] = 0 /\ exits \in [Producers -> 0..1]
    BY <1>1 DEF FutInv, FutType, ProducerInv
  <2>2. exits' = [exits EXCEPT ![t] = @ + 1] /\ shared_owners' = shared_owners + 1
    BY Zenon, <1>2 DEF Fut!make_ready_at_thread_exit
  <2> QED BY <2>1, <2>2
<1>4. /\ pc' \in [Fut!Parties -> Places]
      /\ \A u \in Fut!Parties : pc'[u] = IF u = t THEN "exit" ELSE pc[u]
  BY <1>2, Roles, GoesTo DEF FutInv, Places
<1>5. Holders' = Holders /\ Listing' = Listing \cup {t} /\ t \notin Listing
  BY <1>1, <1>3, <1>4, Roles DEF Holders, Listing
<1>6. shared_owners \in Int
  BY Zenon DEF FutInv, FutType
<1>7. FutType'
  <2>1. shared_owners' \in Int
    BY <1>3, <1>6
  <2> QED BY Zenon, <1>1, <1>3, <1>4, <2>1 DEF FutInv, FutType, Places
<1>8. OwnersInv'
  <2>1. Owners' = Owners + 1
    BY Zenon, <1>1, <1>5, ListerComes
  <2>2. Owners # 0
    BY Zenon, <1>1, NoOwners
  <2> QED BY <1>1, <1>3, <1>6, <2>1, <2>2, OwnersMore DEF FutInv
<1>9. ProducerInv'
  BY <1>1, <1>3, <1>4, Roles DEF FutInv, ProducerInv
<1>10. ResultInv'
  <2>1. Fut!has_value' /\ ready' = FALSE /\ promise'
    BY Zenon, <1>1 DEF FutInv, FutType, ResultInv, Fut!has_value
  <2>2. exits'[t] = 1 /\ pc'[t] = "exit"
    BY Zenon, <1>3, <1>4, Roles
  <2> QED BY Zenon, <1>1, <2>1, <2>2 DEF ResultInv
<1>11. ConsumerInv'
  <2>1. ~ready
    BY Zenon, <1>1 DEF FutInv, ResultInv
  <2> QED BY Zenon, <1>1, <1>4, <2>1, Roles DEF FutInv, ConsumerInv
<1> QED BY Zenon, <1>7, <1>8, <1>9, <1>10, <1>11 DEF FutInv

\* The end of a thread makes ready what it lists.
LEMMA ThreadExitStep == ASSUME FutInv, NEW t \in Producers, Fut!ThreadExit(t) PROVE FutInv'
<1>1. /\ UNCHANGED <<constructed, exception, attached, shared_owners, freed, promise, exits>>
      /\ pc[t] = "exit" /\ exits[t] \in 0..1
  BY Zenon DEF Fut!ThreadExit, Fut!Others, FutInv, FutType
<1>2. PICK l \in {"end", "exitNotify"} :
        /\ Fut!Goes(t, l) /\ (l = "end" => exits[t] = 0 /\ ready' = ready)
        /\ (l = "exitNotify" => exits[t] = 1 /\ ready' = TRUE)
  BY <1>1 DEF Fut!ThreadExit
<1>3. /\ pc' \in [Fut!Parties -> Places]
      /\ \A u \in Fut!Parties : pc'[u] = IF u = t THEN l ELSE pc[u]
  <2>1. t \in Fut!Parties /\ l \in Places /\ FutType
    BY Zenon, Roles DEF FutInv, Places
  <2> QED BY Zenon, <1>2, <2>1, GoesTo
<1>4. Holders' = Holders /\ Listing' = Listing
  BY Zenon, <1>1, <1>3, Roles DEF Holders, Listing
<1>5. FutType'
  BY Zenon, <1>1, <1>2, <1>3 DEF FutInv, FutType, Places
<1>6. OwnersInv'
  BY Zenon, <1>1, <1>4, OwnersStay DEF FutInv
<1>7. ProducerInv'
  BY <1>1, <1>2, <1>3, Roles DEF FutInv, ProducerInv
<1>8. ResultInv'
  BY <1>1, <1>2, <1>3, <1>4, Roles DEF FutInv, ResultInv, Fut!has_value
<1>9. ConsumerInv'
  BY <1>1, <1>2, <1>3, Roles DEF FutInv, ConsumerInv
<1> QED BY Zenon, <1>5, <1>6, <1>7, <1>8, <1>9 DEF FutInv

\* Then it notifies, and gives up its reference.
LEMMA ExitNotifyStep == ASSUME FutInv, NEW t \in Producers, Fut!ExitNotify(t) PROVE FutInv'
<1>1. /\ UNCHANGED <<constructed, ready, exception, attached, promise>>
      /\ pc[t] = "exitNotify" /\ pc' = Fut!NotifyAll([pc EXCEPT ![t] = "end"])
      /\ Fut!release_shared /\ exits' = [exits EXCEPT ![t] = @ - 1]
  BY Zenon DEF Fut!ExitNotify
<1>2. /\ pc' \in [Fut!Parties -> Places]
      /\ \A u \in Fut!Parties :
           pc'[u] = IF u = t THEN "end" ELSE IF pc[u] = "wait" THEN "woken" ELSE pc[u]
  BY ZenonT(30), <1>1, Roles, NotifyTo DEF FutInv, Places
<1>3. /\ exits[t] = 1 /\ exits' \in [Producers -> 0..1]
      /\ \A u \in Producers : exits'[u] = IF u = t THEN 0 ELSE exits[u]
  <2>1. exits[t] = 1 /\ exits \in [Producers -> 0..1]
    BY Zenon, <1>1 DEF FutInv, FutType, ProducerInv
  <2> QED BY <1>1, <2>1
<1>4. Holders' = Holders /\ t \in Listing /\ Listing' = Listing \ {t}
  <2>1. Holders' = Holders
    BY Zenon, <1>1, <1>2, Roles DEF Holders
  <2>2. t \in Listing /\ Listing' = Listing \ {t}
    BY <1>3 DEF Listing
  <2> QED BY Zenon, <2>1, <2>2
<1>5. shared_owners \in Int
  BY Zenon DEF FutInv, FutType
<1>6. FutType'
  <2>1. shared_owners' \in Int /\ freed' \in BOOLEAN
    BY <1>1, <1>5 DEF Fut!release_shared
  <2> QED BY Zenon, <1>1, <1>2, <1>3, <2>1 DEF FutInv, FutType, Places
<1>7. OwnersInv'
  <2>1. Owners = Owners' + 1 /\ Owners' \in Nat
    BY Zenon, <1>1, <1>4, ListerGoes
  <2> QED BY Zenon, <1>1, <1>5, <2>1, OwnersLess DEF FutInv
<1>8. ProducerInv'
  <2>1. \A u \in Producers : pc'[u] = IF u = t THEN "end" ELSE pc[u]
    BY Zenon, <1>2, Roles DEF FutInv, ProducerInv
  <2>2. \A u \in Producers \ {t} : pc'[u] = pc[u] /\ exits'[u] = exits[u]
    BY Zenon, <1>3, <2>1
  <2>3. pc'[t] = "end" /\ exits'[t] = 0 /\ promise' = promise
    BY Zenon, <1>1, <1>3, <2>1
  <2> QED BY ONLY SMTT(30), FutInv, <2>2, <2>3 DEF FutInv, ProducerInv
<1>9. ResultInv'
  BY Zenon, <1>1, <1>2, <1>3, <1>4, Roles DEF FutInv, ResultInv, Fut!has_value
<1>10. ConsumerInv'
  BY ZenonT(30), <1>1, <1>2, Roles DEF FutInv, ConsumerInv
<1> QED BY Zenon, <1>6, <1>7, <1>8, <1>9, <1>10 DEF FutInv

\* The end of the promise: without a result the futures that are left get
\* broken_promise.
LEMMA DestroyStep == ASSUME FutInv, Fut!Destroy PROVE FutInv'
<1>1. /\ UNCHANGED <<constructed, attached, exits>> /\ promise /\ promise' = FALSE
      /\ Fut!Unused /\ Fut!release_shared
  BY Zenon DEF Fut!Destroy
<1>2. shared_owners \in Int /\ FutType
  BY Zenon DEF FutInv, FutType
<1>3. \/ /\ ~Fut!has_value /\ exception' = "broken" /\ ready' = TRUE /\ pc' = Fut!NotifyAll(pc)
      \/ /\ Fut!has_value \/ shared_owners = 0
         /\ UNCHANGED <<exception, ready, pc>>
  <2>1. shared_owners + 1 = Owners /\ Owners \in Nat /\ Owners # 0
    BY Zenon, <1>1, NoOwners DEF FutInv, OwnersInv
  <2>2. shared_owners + 1 > 1 \/ shared_owners = 0
    BY <1>2, <2>1
  <2> QED BY Zenon, <2>2 DEF Fut!Destroy
<1>4. /\ pc' \in [Fut!Parties -> Places]
      /\ \A u \in Fut!Parties : pc'[u] = pc[u] \/ (pc[u] = "wait" /\ pc'[u] = "woken")
  <2>1. CASE pc' = Fut!NotifyAll(pc)
    BY Zenon, <1>2, <2>1 DEF FutType, Fut!NotifyAll, Places
  <2>2. CASE pc' = pc
    BY Zenon, <1>2, <2>2 DEF FutType, Places
  <2> QED BY Zenon, <1>3, <2>1, <2>2
<1>5. Holders' = Holders /\ Listing' = Listing
  BY Zenon, <1>1, <1>4, Roles DEF Holders, Listing
<1>6. Owners = Owners' + 1 /\ Owners' \in Nat
  <2>1. Cardinality(Holders) \in Nat /\ Cardinality(Listing) \in Nat
    BY Zenon, OwnersFinite
  <2> QED BY <1>1, <1>5, <2>1 DEF Owners
<1>7. FutType'
  <2>1. shared_owners' \in Int /\ freed' \in BOOLEAN
    BY <1>1, <1>2 DEF Fut!release_shared
  <2>2. exception' \in Producers \cup {"null", "broken"} /\ ready' \in BOOLEAN
    BY Zenon, <1>2, <1>3 DEF FutType
  <2> QED BY Zenon, <1>1, <1>2, <1>4, <2>1, <2>2 DEF FutType, Places
<1>8. OwnersInv'
  BY Zenon, <1>1, <1>2, <1>6, OwnersLess DEF FutInv
<1>9. \A t \in Producers : pc'[t] = pc[t] /\ pc[t] \notin {"run", "notify"}
  BY Zenon, <1>1, <1>4, Roles DEF FutInv, ProducerInv, Fut!Unused
<1>10. ProducerInv'
  BY Zenon, <1>1, <1>9 DEF FutInv, ProducerInv
<1>11. shared_owners = 0 => Holders = {}
  <2>1. ASSUME shared_owners = 0 PROVE Owners' = 0
    <3>1. Owners = 1
      BY <1>2, <2>1 DEF FutInv, OwnersInv
    <3>2. PICK n \in Nat : n = Owners'
      BY Zenon, <1>6
    <3>3. n + 1 = 1
      BY Zenon, <1>6, <3>1, <3>2
    <3>4. n = 0
      BY ONLY SMTT(30), <3>3, n \in Nat
    <3> QED BY Zenon, <3>2, <3>4
  <2>2. ASSUME Owners' = 0 PROVE Cardinality(Holders) = 0
    <3>1. PICK h \in Nat : h = Cardinality(Holders)
      BY Zenon, OwnersFinite
    <3>2. PICK l \in Nat : l = Cardinality(Listing)
      BY Zenon, OwnersFinite
    <3>3. h + l + 0 = 0
      BY Zenon, <1>1, <1>5, <2>2, <3>1, <3>2 DEF Owners
    <3> QED BY <3>1, <3>3
  <2> QED BY Zenon, <2>1, <2>2, OwnersFinite
<1>12. ResultInv'
  <2>1. CASE ~Fut!has_value /\ exception' = "broken" /\ ready' = TRUE
    BY Zenon, <1>1, <2>1 DEF ResultInv, Fut!has_value
  <2>2. CASE (Fut!has_value \/ shared_owners = 0) /\ UNCHANGED <<exception, ready, pc>>
    BY Zenon, <1>1, <1>5, <1>11, <2>2 DEF FutInv, ResultInv, Fut!has_value
  <2> QED BY Zenon, <1>3, <2>1, <2>2
<1>13. ConsumerInv'
  <2>1. CASE ~Fut!has_value /\ exception' = "broken" /\ ready' = TRUE /\ pc' = Fut!NotifyAll(pc)
    <3>1. \A c \in Consumers : pc'[c] # "wait"
      BY Zenon, <2>1, Roles DEF Fut!NotifyAll
    <3>2. ~ready
      BY Zenon, <2>1 DEF FutInv, ResultInv
    <3> QED BY <1>1, <1>4, <2>1, <3>1, <3>2, Roles DEF FutInv, ConsumerInv
  <2>2. CASE UNCHANGED <<exception, ready, pc>>
    BY Zenon, <1>1, <2>2 DEF FutInv, ConsumerInv
  <2> QED BY Zenon, <1>3, <2>1, <2>2
<1> QED BY Zenon, <1>7, <1>8, <1>10, <1>12, <1>13 DEF FutInv

\* A future is obtained from the promise, or shared with another thread.
LEMMA FutureComesStep ==
  ASSUME FutInv, NEW c \in Consumers, pc[c] = "none", Fut!Goes(c, "has"),
         promise \/ Holders # {}, attached' \in BOOLEAN, shared_owners' = shared_owners + 1,
         UNCHANGED <<constructed, ready, exception, freed, promise, exits>>
  PROVE  FutInv'
<1>1. /\ pc' \in [Fut!Parties -> Places]
      /\ \A u \in Fut!Parties : pc'[u] = IF u = c THEN "has" ELSE pc[u]
  <2>1. c \in Fut!Parties /\ "has" \in Places /\ FutType
    BY Zenon, Roles DEF FutInv, Places
  <2> QED BY Zenon, <2>1, GoesTo
<1>2. c \notin Holders /\ Holders' = Holders \cup {c} /\ Listing' = Listing
  BY Zenon, <1>1, Roles DEF Holders, Listing
<1>3. shared_owners \in Int
  BY Zenon DEF FutInv, FutType
<1>4. FutType'
  <2>1. shared_owners' \in Int
    BY <1>3
  <2> QED BY Zenon, <1>1, <2>1 DEF FutInv, FutType, Places
<1>5. OwnersInv'
  <2>1. Owners' = Owners + 1
    BY Zenon, <1>2, HolderComes
  <2>2. Owners # 0
    BY Zenon, NoOwners
  <2> QED BY Zenon, <1>3, <2>1, <2>2, OwnersMore DEF FutInv
<1>6. \A t \in Producers : pc'[t] = pc[t]
  BY Zenon, <1>1, Roles
<1>7. ProducerInv'
  BY Zenon, <1>6 DEF FutInv, ProducerInv
<1>8. ResultInv'
  BY Zenon, <1>6 DEF FutInv, ResultInv, Fut!has_value
<1>9. ConsumerInv'
  BY Zenon, <1>1, <1>6, Roles DEF FutInv, ConsumerInv
<1> QED BY Zenon, <1>4, <1>5, <1>7, <1>8, <1>9 DEF FutInv

\* get() of a future returns or throws, or a future is dropped.
LEMMA FutureGoesStep ==
  ASSUME FutInv, NEW c \in Holders, NEW l \in {"value", "threw", "end"}, Fut!Goes(c, l),
         l = "value" => ready /\ exception = "null", l = "threw" => ready /\ exception # "null",
         Fut!release_shared,
         UNCHANGED <<constructed, ready, exception, attached, promise, exits>>
  PROVE  FutInv'
<1>0. c \in Consumers /\ pc[c] \in {"has", "wait", "woken"}
  BY Zenon DEF Holders
<1>1. /\ pc' \in [Fut!Parties -> Places]
      /\ \A u \in Fut!Parties : pc'[u] = IF u = c THEN l ELSE pc[u]
  <2>1. c \in Fut!Parties /\ l \in Places /\ FutType
    BY Zenon, <1>0, Roles DEF FutInv, Places
  <2> QED BY Zenon, <2>1, GoesTo
<1>2. Holders' = Holders \ {c} /\ Listing' = Listing
  BY Zenon, <1>0, <1>1, Roles DEF Holders, Listing
<1>3. shared_owners \in Int
  BY Zenon DEF FutInv, FutType
<1>4. FutType'
  <2>1. shared_owners' \in Int /\ freed' \in BOOLEAN
    BY <1>3 DEF Fut!release_shared
  <2> QED BY Zenon, <1>1, <2>1 DEF FutInv, FutType, Places
<1>5. OwnersInv'
  <2>1. Owners = Owners' + 1 /\ Owners' \in Nat
    BY Zenon, <1>2, HolderGoes
  <2> QED BY Zenon, <1>3, <2>1, OwnersLess DEF FutInv
<1>6. \A t \in Producers : pc'[t] = pc[t]
  BY Zenon, <1>0, <1>1, Roles
<1>7. ProducerInv'
  BY Zenon, <1>6 DEF FutInv, ProducerInv
<1>8. ResultInv'
  BY Zenon, <1>2, <1>6 DEF FutInv, ResultInv, Fut!has_value
<1>9. ConsumerInv'
  BY Zenon, <1>0, <1>1, <1>6, Roles DEF FutInv, ConsumerInv, ResultInv, Fut!has_value
<1> QED BY Zenon, <1>4, <1>5, <1>7, <1>8, <1>9 DEF FutInv

\* __sub_wait of a future whose result is not ready.
LEMMA FutureWaitsStep ==
  ASSUME FutInv, NEW c \in Holders, Fut!Goes(c, "wait"), ~ready,
         UNCHANGED <<constructed, ready, exception, attached, shared_owners, freed, promise, exits>>
  PROVE  FutInv'
<1>0. c \in Consumers /\ pc[c] \in {"has", "wait", "woken"}
  BY Zenon DEF Holders
<1>1. /\ pc' \in [Fut!Parties -> Places]
      /\ \A u \in Fut!Parties : pc'[u] = IF u = c THEN "wait" ELSE pc[u]
  <2>1. c \in Fut!Parties /\ "wait" \in Places /\ FutType
    BY Zenon, <1>0, Roles DEF FutInv, Places
  <2> QED BY Zenon, <2>1, GoesTo
<1>2. Holders' = Holders /\ Listing' = Listing
  BY Zenon, <1>0, <1>1, Roles DEF Holders, Listing
<1>3. FutType'
  BY Zenon, <1>1 DEF FutInv, FutType, Places
<1>4. OwnersInv'
  BY Zenon, <1>2, OwnersStay DEF FutInv
<1>5. \A t \in Producers : pc'[t] = pc[t]
  BY Zenon, <1>0, <1>1, Roles
<1>6. ProducerInv'
  BY Zenon, <1>5 DEF FutInv, ProducerInv
<1>7. ResultInv'
  BY Zenon, <1>2, <1>5 DEF FutInv, ResultInv, Fut!has_value
<1>8. ConsumerInv'
  BY Zenon, <1>0, <1>1, <1>5, Roles DEF FutInv, ConsumerInv
<1> QED BY Zenon, <1>3, <1>4, <1>6, <1>7, <1>8 DEF FutInv

\* Every step of the promise, its futures and the threads keeps the invariant.
LEMMA FutKept == ASSUME FutInv, [Fut!Next]_(Fut!vars) PROVE FutInv'
<1>1. ASSUME NEW t \in Producers,
             \/ Fut!Refused(t) \/ Fut!set_value(t) \/ Fut!set_exception(t) \/ Fut!Notify(t)
             \/ Fut!Leaves(t) \/ Fut!set_value_at_thread_exit(t)
             \/ Fut!set_exception_at_thread_exit(t) \/ Fut!ThreadExit(t) \/ Fut!ExitNotify(t)
      PROVE  FutInv'
  BY <1>1, QuietStep, SetStep, FutNotifyStep, SetAtExitStep, ThreadExitStep, ExitNotifyStep
<1>2. ASSUME NEW c \in Consumers, Fut!get_future(c) PROVE FutInv'
  <2>1. /\ pc[c] = "none" /\ Fut!Goes(c, "has") /\ promise /\ attached' = TRUE
        /\ shared_owners' = shared_owners + 1
        /\ UNCHANGED <<constructed, ready, exception, freed, promise, exits>>
    BY Zenon, <1>2 DEF Fut!get_future
  <2>2. attached' \in BOOLEAN
    BY Zenon, <2>1
  <2> QED BY Zenon, <2>1, <2>2, FutureComesStep
<1>3. ASSUME NEW c \in Consumers, NEW d \in Consumers, Fut!Share(c, d) PROVE FutInv'
  <2>1. /\ pc[d] = "none" /\ Fut!Goes(d, "has") /\ shared_owners' = shared_owners + 1
        /\ UNCHANGED <<constructed, ready, exception, attached, freed, promise, exits>>
        /\ c \in Holders
    BY Zenon, <1>3 DEF Fut!Share, Holders
  <2>2. attached' \in BOOLEAN /\ Holders # {}
    BY Zenon, <2>1 DEF FutInv, FutType
  <2> QED BY Zenon, <2>1, <2>2, FutureComesStep
<1>4. ASSUME NEW c \in Consumers, Fut!copy(c) PROVE FutInv'
  <2>1. c \in Holders /\ UNCHANGED <<constructed, ready, exception, attached, promise, exits>>
    BY Zenon, <1>4 DEF Fut!copy, Holders
  <2>2. CASE ~ready
    <3>1. Fut!Goes(c, "wait") /\ UNCHANGED <<shared_owners, freed>>
      BY Zenon, <1>4, <2>2 DEF Fut!copy
    <3> QED BY Zenon, <2>1, <2>2, <3>1, FutureWaitsStep
  <2>3. CASE ready /\ exception = "null"
    <3>1. Fut!Goes(c, "value") /\ Fut!release_shared
      BY Zenon, <1>4, <2>3 DEF Fut!copy
    <3> QED BY Zenon, <2>1, <2>3, <3>1, FutureGoesStep
  <2>4. CASE ready /\ exception # "null"
    <3>1. Fut!Goes(c, "threw") /\ Fut!release_shared
      BY Zenon, <1>4, <2>4 DEF Fut!copy
    <3> QED BY Zenon, <2>1, <2>4, <3>1, FutureGoesStep
  <2> QED BY Zenon, <2>2, <2>3, <2>4
<1>5. ASSUME NEW c \in Consumers, Fut!DropFuture(c) PROVE FutInv'
  <2>1. /\ c \in Holders /\ Fut!Goes(c, "end") /\ Fut!release_shared
        /\ UNCHANGED <<constructed, ready, exception, attached, promise, exits>>
    BY Zenon, <1>5 DEF Fut!DropFuture, Holders
  <2> QED BY Zenon, <2>1, FutureGoesStep
<1>6. CASE UNCHANGED Fut!vars
  <2>1. UNCHANGED <<constructed, ready, exception, attached, shared_owners, freed, promise, pc,
                    exits>>
    BY Zenon, <1>6 DEF Fut!vars
  <2>2. Holders' = Holders /\ Listing' = Listing
    BY Zenon, <2>1 DEF Holders, Listing
  <2>3. OwnersInv'
    BY Zenon, <2>1, <2>2, OwnersStay DEF FutInv
  <2>4. FutType' /\ ProducerInv'
    BY Zenon, <2>1 DEF FutInv, FutType, ProducerInv
  <2>5. ResultInv' /\ ConsumerInv'
    BY Zenon, <2>1, <2>2 DEF FutInv, ResultInv, ConsumerInv, Fut!has_value
  <2> QED BY Zenon, <2>3, <2>4, <2>5 DEF FutInv
<1> QED BY <1>1, <1>2, <1>3, <1>4, <1>5, <1>6, DestroyStep DEF Fut!Next

\* The owners are at most the threads and the promise.
LEMMA OwnersBounded ==
  ASSUME FutInv
  PROVE  shared_owners \in -1..Cardinality(Fut!Parties) + 1
<1>1. Holders \subseteq Consumers /\ Listing \subseteq Producers
  BY Zenon DEF Holders, Listing
<1>2. IsFiniteSet(Fut!Parties)
  BY Zenon, ReferencesAssumption, Roles, FS_Union
<1>3. Holders \cup Listing \subseteq Fut!Parties /\ Holders \cap Listing = {}
  BY Zenon, <1>1, Roles
<1>4. PICK h \in Nat : h = Cardinality(Holders)
  BY Zenon, OwnersFinite
<1>5. PICK l \in Nat : l = Cardinality(Listing)
  BY Zenon, OwnersFinite
<1>6. PICK n \in Nat : n = Cardinality(Fut!Parties)
  BY Zenon, <1>2, FS_CardinalityType
<1>7. h + l <= n
  <2>1. Cardinality(Holders \cup Listing) <= Cardinality(Fut!Parties)
    BY ONLY SMTT(30), <1>2, <1>3, FS_Subset
  <2>2. Cardinality(Holders \cup Listing) = h + l - Cardinality({})
    BY Zenon, <1>3, <1>4, <1>5, OwnersFinite, FS_Union
  <2>3. Cardinality({}) = 0
    BY Zenon, FS_EmptySet
  <2> QED BY <1>6, <2>1, <2>2, <2>3
<1>8. shared_owners + 1 = h + l + IF promise THEN 1 ELSE 0
  BY Zenon, <1>4, <1>5 DEF FutInv, OwnersInv, Owners
<1>9. PICK i \in Int : i = shared_owners
  BY Zenon DEF FutInv, FutType
<1>10. i + 1 = h + l + 1 \/ i + 1 = h + l
  BY <1>8, <1>9
<1>11. i \in -1..n + 1
  BY ONLY SMTT(30), <1>7, <1>10, i \in Int, h \in Nat, l \in Nat, n \in Nat
<1> QED BY Zenon, <1>6, <1>9, <1>11

\* What a user of a promise sees follows from the invariant.
LEMMA FutRight == FutInv => Fut!TypeOK /\ Fut!OneResult /\ Fut!StateLives /\ Fut!WaitEnds
<1> SUFFICES ASSUME FutInv PROVE Fut!TypeOK /\ Fut!OneResult /\ Fut!StateLives /\ Fut!WaitEnds
  BY Zenon
<1>1. Fut!TypeOK
  <2>1. shared_owners \in -1..Fut!Cardinality(Fut!Parties) + 1
    BY Zenon, OwnersBounded DEF Fut!Cardinality, Cardinality
  <2>2. {constructed, ready, attached, freed, promise} \subseteq BOOLEAN
    BY Zenon DEF FutInv, FutType
  <2>3. exits \in [Producers -> 0..1] /\ exception \in Producers \cup {"null", "broken"}
    BY Zenon DEF FutInv, FutType
  <2> QED BY Zenon, <2>1, <2>2, <2>3 DEF Fut!TypeOK, FutInv, FutType
<1>2. Fut!OneResult
  BY Zenon DEF FutInv, ResultInv, ConsumerInv, Fut!OneResult
<1>3. Fut!StateLives
  <2>1. freed <=> Holders = {} /\ Listing = {} /\ ~promise
    BY Zenon, NoOwners DEF FutInv, OwnersInv
  <2>2. Listing = {} <=> \A t \in Producers : exits[t] = 0
    <3>1. \A t \in Producers : exits[t] \in 0..1
      BY Zenon DEF FutInv, FutType
    <3>2. \A t \in Producers : exits[t] = 1 <=> exits[t] # 0
      BY <3>1
    <3> QED BY Zenon, <3>2 DEF Listing
  <2>3. ~promise => \A t \in Producers : pc[t] # "notify"
    BY Zenon DEF FutInv, ProducerInv
  <2>4. Holders = {} <=> \A c \in Consumers : pc[c] \notin {"has", "wait", "woken"}
    BY Zenon DEF Holders
  <2> QED BY Zenon, <2>1, <2>2, <2>3, <2>4 DEF Fut!StateLives
<1>4. Fut!WaitEnds
  <2> SUFFICES ASSUME NEW c \in Consumers, pc[c] = "wait", ~promise
               PROVE  \E t \in Producers : exits[t] > 0 \/ pc[t] = "notify"
    BY Zenon DEF Fut!WaitEnds
  <2>1. c \in Holders
    BY Zenon DEF Holders
  <2>2. Fut!has_value
    BY Zenon, <2>1 DEF FutInv, ResultInv
  <2>3. \E t \in Producers : exits[t] = 1 \/ pc[t] = "notify"
    BY Zenon, <2>2 DEF FutInv, ResultInv, ConsumerInv, ProducerInv
  <2>4. 1 > 0
    OBVIOUS
  <2> QED BY Zenon, <2>3, <2>4
<1> QED BY Zenon, <1>1, <1>2, <1>3, <1>4

-----------------------------------------------------------------------------
(* What holds in every behaviour.                                          *)

\* A process goes on with the part it began with, one step of it at a time.
LEMMA WhichStep ==
  ASSUME [RefsNext]_<<which, pc, refVars>>
  PROVE  /\ which' = which
         /\ which = "SharedCount" => [Cnt!Next]_(Cnt!vars)
         /\ which = "Future" => [Fut!Next]_(Fut!vars)
<1>1. CASE RefsNext
  BY Zenon, <1>1 DEF RefsNext
<1>2. CASE UNCHANGED <<which, pc, refVars>>
  BY Zenon, <1>2 DEF refVars, countVars, futVars, Cnt!vars, Fut!vars
<1> QED BY Zenon, <1>1, <1>2

\* An object lives exactly as long as its shared references, and the counts as
\* long as any reference, however the threads' references come and go.
THEOREM LivesAsReferred == RefsSpec => []ReferencesCounted
<1> DEFINE I == which = "SharedCount" => CountInv
<1>1. RefsInit => I
  BY Zenon, CountInit DEF RefsInit
<1>2. I /\ [RefsNext]_<<which, pc, refVars>> => I'
  BY Zenon, WhichStep, CountKept
<1>3. I => ReferencesCounted
  BY Zenon, CountLives DEF ReferencesCounted
<1> QED BY <1>1, <1>2, <1>3, PTL DEF RefsSpec

\* A promise is satisfied once, its state is there for all who use it and for
\* nobody else, and nobody waits for a result that no thread will make ready.
THEOREM SatisfiedOnce == RefsSpec => []ResultArrives
<1> DEFINE I == which = "Future" => FutInv
<1>1. RefsInit => I
  BY Zenon, FutInit DEF RefsInit
<1>2. I /\ [RefsNext]_<<which, pc, refVars>> => I'
  BY Zenon, WhichStep, FutKept
<1>3. I => ResultArrives
  BY Zenon, FutRight DEF ResultArrives
<1> QED BY <1>1, <1>2, <1>3, PTL DEF RefsSpec
=============================================================================
