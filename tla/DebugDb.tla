------------------------------ MODULE DebugDb -------------------------------
(***************************************************************************)
(* The registry of containers and iterators behind the debug mode of       *)
(* libcxx (debug.cpp): two hash tables with chains, and for every          *)
(* container the list of its iterators.  Every operation runs under one    *)
(* mutex and is one step, also __insert_c, whose caller constructs the     *)
(* node, with the link it has, after the mutex is released: two threads    *)
(* that do so at once are not modelled.  Addresses are numbers, hashed by  *)
(* remainder.                                                              *)
(***************************************************************************)
EXTENDS Integers, Sequences, FiniteSets, SequencesExt

CONSTANTS Containers, Iterators,   \* addresses
          Nobody                   \* the null pointer, not a container

VARIABLES ctab, csz,      \* __cbeg_ .. __cend_: a sequence of chains; __csz_
          itab, isz,      \* the same for the iterators
          beg, cap,       \* of every container: its iterators, the room for them
          owner,          \* __c_ of every iterator
          truth           \* the container each live iterator goes into

vars == <<ctab, csz, itab, isz, beg, cap, owner, truth>>

Live == DOMAIN truth

TypeOK ==
  /\ ctab \in Seq(Seq(Containers)) /\ itab \in Seq(Seq(Iterators))
  /\ csz \in Nat /\ isz \in Nat
  /\ DOMAIN beg \subseteq Containers /\ DOMAIN cap = DOMAIN beg
  /\ \A c \in DOMAIN beg : beg[c] \in Seq(Iterators) /\ Len(beg[c]) <= cap[c]
  /\ owner \in [Live -> Containers \cup {Nobody}]
  /\ truth \in [Live -> Containers \cup {Nobody}]

next_prime(n) ==
  CHOOSE p \in n..(2 * n + 2) :
    /\ p > 1 /\ \A d \in 2..(p - 1) : p % d # 0
    /\ \A q \in n..(p - 1) : q < 2 \/ \E d \in 2..(q - 1) : q % d = 0

Push(tab, x) == [tab EXCEPT ![1 + (x % Len(tab))] = <<x>> \o @]

\* The nodes in the order of the chains, each put in front of its new chain.
Rehash(tab, nc) == FoldLeft(Push, [k \in 1..nc |-> <<>>], FlattenSeq(tab))

Insert(tab, sz, x) ==
  Push(IF sz + 1 > Len(tab) THEN Rehash(tab, next_prime(2 * Len(tab) + 1)) ELSE tab, x)

Chain(tab, x) == IF tab = <<>> THEN <<>> ELSE tab[1 + (x % Len(tab))]

Found(tab, x) == \E k \in DOMAIN Chain(tab, x) : Chain(tab, x)[k] = x

Unlinked(tab, x) == [tab EXCEPT ![1 + (x % Len(tab))] = Remove(@, x)]

\* __c_node::__add to the lists f: a full one gets twice the room.
Add(f, c, i) ==
  /\ beg' = [f EXCEPT ![c] = Append(@, i)]
  /\ cap' = [cap EXCEPT ![c] = IF Len(f[c]) < @ THEN @ ELSE IF @ = 0 THEN 1 ELSE 2 * @]

\* __c_node::__remove from the list of c.
Removed(f, c, i) == [f EXCEPT ![c] = Remove(@, i)]

Without(f, x) == [y \in DOMAIN f \ {x} |-> f[y]]

With(f, x, v) == [y \in DOMAIN f \cup {x} |-> IF y = x THEN v ELSE f[y]]

insert_c(c) ==
  /\ c \notin DOMAIN beg
  /\ ctab' = Insert(ctab, csz, c) /\ csz' = csz + 1
  /\ beg' = With(beg, c, <<>>) /\ cap' = With(cap, c, 0)
  /\ UNCHANGED <<itab, isz, owner, truth>>

\* The iterators of c go into no container any more.
Orphaned(c, f) == [i \in DOMAIN f |-> IF i \in Range(beg[c]) THEN Nobody ELSE f[i]]

Invalid(c) == [i \in Live |-> IF truth[i] = c THEN Nobody ELSE truth[i]]

erase_c(c) ==
  /\ c \in DOMAIN beg /\ Found(ctab, c)
  /\ ctab' = Unlinked(ctab, c) /\ csz' = csz - 1
  /\ owner' = Orphaned(c, owner) /\ truth' = Invalid(c)
  /\ beg' = Without(beg, c) /\ cap' = Without(cap, c)
  /\ UNCHANGED <<itab, isz>>

invalidate_all(c) ==
  /\ c \in DOMAIN beg /\ Found(ctab, c)
  /\ owner' = Orphaned(c, owner) /\ truth' = Invalid(c)
  /\ beg' = [beg EXCEPT ![c] = <<>>]
  /\ UNCHANGED <<ctab, csz, itab, isz, cap>>

insert_i(i) ==
  /\ i \notin Live
  /\ itab' = Insert(itab, isz, i) /\ isz' = isz + 1
  /\ owner' = With(owner, i, Nobody) /\ truth' = With(truth, i, Nobody)
  /\ UNCHANGED <<ctab, csz, beg, cap>>

insert_ic(i, c) ==
  /\ i \notin Live /\ c \in DOMAIN beg /\ Found(ctab, c)
  /\ itab' = Insert(itab, isz, i) /\ isz' = isz + 1
  /\ Add(beg, c, i) /\ owner' = With(owner, i, c) /\ truth' = With(truth, i, c)
  /\ UNCHANGED <<ctab, csz>>

erase_i(i) ==
  /\ i \in Live /\ Found(itab, i)
  /\ itab' = Unlinked(itab, i) /\ isz' = isz - 1
  /\ beg' = IF owner[i] = Nobody THEN beg ELSE Removed(beg, owner[i], i)
  /\ owner' = Without(owner, i) /\ truth' = Without(truth, i)
  /\ UNCHANGED <<ctab, csz, cap>>

\* i becomes a copy of i0, by construction (i is new) or by assignment.
iterator_copy(i, i0) ==
  /\ i0 \in Live /\ i # i0
  /\ LET c  == IF i \in Live THEN owner[i] ELSE Nobody
         c0 == owner[i0]
         cleared == IF c = Nobody THEN beg ELSE Removed(beg, c, i)
     IN  /\ IF i \in Live THEN UNCHANGED <<itab, isz>>
            ELSE itab' = Insert(itab, isz, i) /\ isz' = isz + 1
         /\ owner' = With(owner, i, c0)
         /\ IF c = c0 THEN UNCHANGED <<beg, cap>>
            ELSE IF c0 = Nobody THEN beg' = cleared /\ UNCHANGED cap
            ELSE Add(cleared, c0, i)
  /\ truth' = With(truth, i, truth[i0])
  /\ UNCHANGED <<ctab, csz>>

\* Mutant: only one of the two lists is pointed at its new container.
swap_half(c1, c2) ==
  /\ {c1, c2} \subseteq DOMAIN beg /\ c1 # c2 /\ Found(ctab, c1) /\ Found(ctab, c2)
  /\ beg' = [beg EXCEPT ![c1] = beg[c2], ![c2] = beg[c1]]
  /\ cap' = [cap EXCEPT ![c1] = cap[c2], ![c2] = cap[c1]]
  /\ owner' = [i \in Live |-> IF i \in Range(beg[c2]) THEN c1 ELSE owner[i]]
  /\ truth' = [i \in Live |-> IF truth[i] = c2 THEN c1
                              ELSE IF truth[i] = c1 THEN c2 ELSE truth[i]]
  /\ UNCHANGED <<ctab, csz, itab, isz>>

\* The containers exchange their elements, and so their iterators.
swap(c1, c2) ==
  /\ {c1, c2} \subseteq DOMAIN beg /\ c1 # c2 /\ Found(ctab, c1) /\ Found(ctab, c2)
  /\ beg' = [beg EXCEPT ![c1] = beg[c2], ![c2] = beg[c1]]
  /\ cap' = [cap EXCEPT ![c1] = cap[c2], ![c2] = cap[c1]]
  /\ owner' = [i \in Live |-> IF i \in Range(beg[c2]) THEN c1
                              ELSE IF i \in Range(beg[c1]) THEN c2 ELSE owner[i]]
  /\ truth' = [i \in Live |-> IF truth[i] = c2 THEN c1
                              ELSE IF truth[i] = c1 THEN c2 ELSE truth[i]]
  /\ UNCHANGED <<ctab, csz, itab, isz>>

Init ==
  /\ ctab = <<>> /\ itab = <<>> /\ csz = 0 /\ isz = 0
  /\ beg = <<>> /\ cap = <<>> /\ owner = <<>> /\ truth = <<>>

Next ==
  \/ \E c \in Containers : insert_c(c) \/ erase_c(c) \/ invalidate_all(c)
  \/ \E i \in Iterators : insert_i(i) \/ erase_i(i)
  \/ \E i \in Iterators, c \in Containers : insert_ic(i, c)
  \/ \E i, j \in Iterators : iterator_copy(i, j)
  \/ \E c, d \in Containers : swap(c, d)

-----------------------------------------------------------------------------
\* What __find_c_from_i and __comparable look up.
find_c_from_i(i) == IF Found(itab, i) THEN owner[i] ELSE Nobody

comparable(i, j) == find_c_from_i(i) # Nobody /\ find_c_from_i(i) = find_c_from_i(j)

\* The registry knows the container of every live iterator, whatever was
\* copied, swapped, invalidated or destroyed before: two iterators are called
\* comparable exactly if they go into the same container.
OwnersRight ==
  /\ \A i \in Live : find_c_from_i(i) = truth[i]
  /\ \A i, j \in Live : comparable(i, j) <=> truth[i] # Nobody /\ truth[i] = truth[j]

\* The two directions agree: a container lists exactly the iterators that
\* point back at it, each once, so no list holds a node that was freed.
ListsAgree ==
  \A c \in DOMAIN beg :
    /\ Range(beg[c]) = {i \in Live : owner[i] = c}
    /\ Cardinality(Range(beg[c])) = Len(beg[c])

\* Everything registered is found through its hash, in tables of every size
\* they grow through, and the counts that decide on growth are exact.
TablesWhole ==
  /\ \A c \in DOMAIN beg : Found(ctab, c)
  /\ \A i \in Live : Found(itab, i)
  /\ csz = Len(FlattenSeq(ctab)) /\ csz = Cardinality(DOMAIN beg)
  /\ isz = Len(FlattenSeq(itab)) /\ isz = Cardinality(Live)

=============================================================================
