------------------------------- MODULE IosBase ------------------------------
(***************************************************************************)
(* The arrays an ios_base of libcxx owns (ios.cpp): its callbacks and the  *)
(* words behind iword() and pword().  Each is a block of the heap with a   *)
(* size in use and a capacity; copyfmt, move and swap pass them between    *)
(* streams.                                                                *)
(***************************************************************************)
EXTENDS Integers

CONSTANTS Streams, Values,
          Addresses,      \* of blocks of memory
          MaxIndex,       \* largest index of a word
          MaxCalls        \* bound on the calls that change an array

ASSUME IosAssumption ==
  MaxIndex \in Nat /\ MaxCalls \in Nat /\ Addresses \subseteq Nat \ {0}

VARIABLES array,          \* of every stream and kind: block, size and cap
          alive,          \* streams that exist
          heap,           \* contents of the blocks that are allocated
          stored,         \* what the program put into each live stream
          calls

iosVars == <<array, alive, heap, stored, calls>>

Kinds == {"fn", "iarray", "parray"}    \* __fn_ goes with __index_

Empty == [block |-> 0, size |-> 0, cap |-> 0]

Junk == -1                \* memory that nobody has written

IosTypeOK ==
  /\ array \in [Streams -> [Kinds -> [block : Nat, size : Nat, cap : Nat]]]
  /\ \A x \in Streams, k \in Kinds : array[x][k].size <= array[x][k].cap
  /\ alive \subseteq Streams /\ calls \in 0..MaxCalls
  /\ \A b \in DOMAIN heap : \A i \in DOMAIN heap[b] : heap[b][i] \in Values \cup {0, Junk}

\* A call for which there is no memory is not made here.
Available(h) == \E b \in Addresses : b \notin DOMAIN h

NewBlock(h) == CHOOSE b \in Addresses : b \notin DOMAIN h

With(h, b, v) == [c \in DOMAIN h \cup {b} |-> IF c = b THEN v ELSE h[c]]

Free(h, b) == [c \in DOMAIN h \ {b} |-> h[c]]

Contents(h, a) == IF a.block = 0 THEN <<>> ELSE h[a.block]

Call == calls < MaxCalls /\ calls' = calls + 1

\* realloc(): the old contents, then junk, possibly elsewhere.
Realloc(h, a, newcap) ==
  LET old == Contents(h, a)
      rest == Free(h, a.block)
  IN  With(rest, NewBlock(rest),
           [i \in 0..(newcap - 1) |-> IF i \in DOMAIN old THEN old[i] ELSE Junk])

\* Mutant: zeroes are written from one word too early.
ZeroedEarly(words, a, newcap) ==
  [i \in DOMAIN words |-> IF i >= a.size - 1 /\ i < a.size + newcap - a.cap THEN 0 ELSE words[i]]

\* The loop after realloc() starts at the words in use, not at the old
\* capacity, and writes as many zeroes as there are new words.
Zeroed(words, a, newcap) ==
  [i \in DOMAIN words |-> IF i >= a.size /\ i < a.size + newcap - a.cap THEN 0 ELSE words[i]]

Capacity(a, req) == IF 2 * a.cap > req THEN 2 * a.cap ELSE req

\* iword(i) = v, or pword(i) = v.
Word(x, k, i, v) ==
  LET a == array[x][k]
      newcap == IF i + 1 > a.cap THEN Capacity(a, i + 1) ELSE a.cap
      grown == Realloc(heap, a, newcap)
      block == NewBlock(Free(heap, a.block))
      h == IF i + 1 > a.cap
           THEN [grown EXCEPT ![block] = Zeroed(@, a, newcap)] ELSE heap
      b == IF i + 1 > a.cap THEN block ELSE a.block
  IN  /\ x \in alive /\ Call /\ Available(heap)
      /\ heap' = [h EXCEPT ![b][i] = v]
      /\ array' = [array EXCEPT ![x][k] =
           [block |-> b, cap |-> newcap, size |-> IF i + 1 > a.size THEN i + 1 ELSE a.size]]
      /\ stored' = [stored EXCEPT ![x][k] = With(@, i, v)]
      /\ UNCHANGED alive

iword(x, i, v) == Word(x, "iarray", i, v)

pword(x, i, v) == Word(x, "parray", i, v)

\* A callback goes behind the others; the new room is not zeroed.
register_callback(x, f) ==
  LET a == array[x]["fn"]
      full == a.size + 1 > a.cap
      newcap == IF full THEN Capacity(a, a.size + 1) ELSE a.cap
      b == IF full THEN NewBlock(Free(heap, a.block)) ELSE a.block
      h == IF full THEN Realloc(heap, a, newcap) ELSE heap
  IN  /\ x \in alive /\ Call /\ Available(heap)
      /\ heap' = [h EXCEPT ![b][a.size] = f]
      /\ array' = [array EXCEPT ![x]["fn"] = [block |-> b, cap |-> newcap, size |-> a.size + 1]]
      /\ stored' = [stored EXCEPT ![x]["fn"] = With(@, a.size, f)]
      /\ UNCHANGED alive

Room(a, r) == a.cap >= r.size

\* The array a of kind k after copyfmt from r, with the heap: a new block of
\* exactly the size needed if the room is too small.
Copied(h, a, r) ==
  LET rest == IF Room(a, r) THEN h ELSE Free(h, a.block)
      b == IF Room(a, r) THEN a.block ELSE NewBlock(rest)
      old == IF Room(a, r) THEN Contents(h, a) ELSE [i \in 0..(r.size - 1) |-> Junk]
      words == [i \in DOMAIN old |-> IF i < r.size THEN Contents(h, r)[i] ELSE old[i]]
  IN  [heap |-> IF b = 0 THEN h ELSE With(rest, b, words),
       array |-> [block |-> b, size |-> r.size, cap |-> IF Room(a, r) THEN a.cap ELSE r.size]]

\* Everything is allocated before anything is changed; if that fails the call
\* throws and is as if it had not been made.
copyfmt(x, y) ==
  LET f == Copied(heap, array[x]["fn"], array[y]["fn"])
      i == Copied(f.heap, array[x]["iarray"], array[y]["iarray"])
      p == Copied(i.heap, array[x]["parray"], array[y]["parray"])
  IN  /\ {x, y} \subseteq alive /\ x # y /\ Call
      /\ Available(heap) /\ Available(f.heap) /\ Available(i.heap) /\ heap' = p.heap
      /\ array' = [array EXCEPT ![x] =
           [k \in Kinds |-> CASE k = "fn" -> f.array [] k = "iarray" -> i.array
                              [] k = "parray" -> p.array]]
      /\ stored' = [stored EXCEPT ![x] = stored[y]]
      /\ UNCHANGED alive

Nothing == [k \in Kinds |-> <<>>]

init(x) ==
  /\ x \notin alive /\ alive' = alive \cup {x}
  /\ array' = [array EXCEPT ![x] = [k \in Kinds |-> Empty]]
  /\ stored' = [stored EXCEPT ![x] = Nothing] /\ UNCHANGED <<heap, calls>>

\* *this is uninitialised, so it need not be alive and has nothing to free.
move(x, y) ==
  /\ x \notin alive /\ y \in alive /\ Call
  /\ alive' = alive \cup {x}
  /\ array' = [array EXCEPT ![x] = array[y], ![y] = [k \in Kinds |-> Empty]]
  /\ stored' = [stored EXCEPT ![x] = stored[y], ![y] = Nothing]
  /\ UNCHANGED heap

swap(x, y) ==
  /\ {x, y} \subseteq alive /\ x # y /\ Call
  /\ array' = [array EXCEPT ![x] = array[y], ![y] = array[x]]
  /\ stored' = [stored EXCEPT ![x] = stored[y], ![y] = stored[x]]
  /\ UNCHANGED <<alive, heap>>

\* ~ios_base(); the fields of a stream that is gone are not used again.
DestroyStream(x) ==
  /\ x \in alive /\ alive' = alive \ {x}
  /\ heap' = [b \in DOMAIN heap \ {array[x][k].block : k \in Kinds} |-> heap[b]]
  /\ array' = [array EXCEPT ![x] = [k \in Kinds |-> Empty]]
  /\ stored' = [stored EXCEPT ![x] = Nothing]
  /\ UNCHANGED calls

IosInit ==
  /\ array = [x \in Streams |-> [k \in Kinds |-> Empty]] /\ alive = {} /\ heap = <<>>
  /\ stored = [x \in Streams |-> Nothing] /\ calls = 0

IosNext ==
  \/ \E x \in Streams : init(x) \/ DestroyStream(x)
  \/ \E x \in Streams, v \in Values : register_callback(x, v)
  \/ \E x \in Streams, i \in 0..MaxIndex, v \in Values : iword(x, i, v) \/ pword(x, i, v)
  \/ \E x, y \in Streams : copyfmt(x, y) \/ move(x, y) \/ swap(x, y)

IosSpec == IosInit /\ [][IosNext]_iosVars

-----------------------------------------------------------------------------
\* A word or a callback that was put into a stream is there until it is
\* replaced, the stream ends or copyfmt replaces all: growing, copying,
\* moving and swapping keep it, and it lies within what is in use.
WordsKept ==
  \A x \in alive, k \in Kinds : \A i \in DOMAIN stored[x][k] :
    /\ i < array[x][k].size /\ array[x][k].block \in DOMAIN heap
    /\ heap[array[x][k].block][i] = stored[x][k][i]

\* Every block is owned by exactly one array of one live stream, so that no
\* destructor frees a block twice and none is lost.
BlocksOwned ==
  LET Owner(x, k, b) == b # 0 /\ array[x][k].block = b
  IN  /\ \A x \in alive, k \in Kinds : array[x][k].block # 0 => array[x][k].block \in DOMAIN heap
      /\ \A b \in DOMAIN heap : \E x \in alive, k \in Kinds :
           /\ Owner(x, k, b)
           /\ \A y \in alive, l \in Kinds : Owner(y, l, b) => y = x /\ l = k

\* ios_base: words and callbacks of a stream stay until they are replaced, and
\* every block of memory of a stream has one owner.
StoredKept == IosTypeOK /\ WordsKept /\ BlocksOwned

=============================================================================
