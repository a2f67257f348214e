----------------------------- MODULE SharedCount ----------------------------
(***************************************************************************)
(* The counts behind shared_ptr and weak_ptr (memory.cpp of libcxx), used  *)
(* by several threads at once.  Both counts are one less than the          *)
(* references they stand for; all shared references together hold one weak *)
(* reference.                                                              *)
(***************************************************************************)
EXTENDS Integers

CONSTANTS Threads,
          MaxRefs         \* references of one kind that a thread has

VARIABLES shared_owners, weak_owners,
          object,         \* the object exists
          control,        \* the block with the counts exists
          shared, weak,   \* references of each thread
          pc,             \* what each thread does
          object_owners   \* the local variable of lock()

vars == <<shared_owners, weak_owners, object, control, shared, weak, pc, object_owners>>

TypeOK ==
  /\ shared_owners \in Int /\ weak_owners \in Int
  /\ {object, control} \subseteq BOOLEAN
  /\ shared \in [Threads -> 0..MaxRefs] /\ weak \in [Threads -> 0..MaxRefs]
  /\ pc \in [Threads -> {"run", "destroy", "releaseWeak", "free", "read", "swap"}]

Goes(t, l) == pc' = [pc EXCEPT ![t] = l]

add_shared(t) ==
  /\ pc[t] = "run" /\ shared[t] > 0 /\ shared[t] < MaxRefs
  /\ shared_owners' = shared_owners + 1 /\ shared' = [shared EXCEPT ![t] = @ + 1]
  /\ UNCHANGED <<weak_owners, object, control, weak, pc, object_owners>>

\* A copy for another thread.
Give(t, u) ==
  /\ pc[t] = "run" /\ shared[t] > 0 /\ t # u /\ shared[u] < MaxRefs /\ pc[u] = "run"
  /\ shared_owners' = shared_owners + 1 /\ shared' = [shared EXCEPT ![u] = @ + 1]
  /\ UNCHANGED <<weak_owners, object, control, weak, pc, object_owners>>

add_weak(t) ==
  /\ pc[t] = "run" /\ shared[t] + weak[t] > 0 /\ weak[t] < MaxRefs
  /\ weak_owners' = weak_owners + 1 /\ weak' = [weak EXCEPT ![t] = @ + 1]
  /\ UNCHANGED <<shared_owners, object, control, shared, pc, object_owners>>

\* The thread that takes the count to -1 destroys the object, and then gives
\* up the weak reference of the shared ones.
release_shared(t) ==
  /\ pc[t] = "run" /\ shared[t] > 0
  /\ shared_owners' = shared_owners - 1 /\ shared' = [shared EXCEPT ![t] = @ - 1]
  /\ Goes(t, IF shared_owners = 0 THEN "destroy" ELSE "run")
  /\ UNCHANGED <<weak_owners, object, control, weak, object_owners>>

on_zero_shared(t) ==
  /\ pc[t] = "destroy" /\ object' = FALSE /\ Goes(t, "releaseWeak")
  /\ UNCHANGED <<shared_owners, weak_owners, control, shared, weak, object_owners>>

release_weak(t) ==
  /\ \/ pc[t] = "releaseWeak" /\ UNCHANGED weak
     \/ pc[t] = "run" /\ weak[t] > 0 /\ weak' = [weak EXCEPT ![t] = @ - 1]
  /\ weak_owners' = weak_owners - 1
  /\ Goes(t, IF weak_owners = 0 THEN "free" ELSE "run")
  /\ UNCHANGED <<shared_owners, object, control, shared, object_owners>>

on_zero_shared_weak(t) ==
  /\ pc[t] = "free" /\ control' = FALSE /\ Goes(t, "run")
  /\ UNCHANGED <<shared_owners, weak_owners, object, shared, weak, object_owners>>

\* lock() of a thread that has a weak reference: a read, then a compare and
\* swap as long as the count is not -1.
lock(t) ==
  /\ \/ pc[t] = "run" /\ weak[t] > 0 /\ shared[t] < MaxRefs
     \/ pc[t] = "read"
  /\ object_owners' = [object_owners EXCEPT ![t] = shared_owners]
  /\ Goes(t, IF shared_owners = -1 THEN "run" ELSE "swap")
  /\ UNCHANGED <<shared_owners, weak_owners, object, control, shared, weak>>

\* Mutant: the count that was read is not compared.
swap_blind(t) ==
  /\ pc[t] = "swap" /\ shared_owners' = shared_owners + 1
  /\ shared' = [shared EXCEPT ![t] = @ + 1] /\ Goes(t, "run")
  /\ UNCHANGED <<weak_owners, object, control, weak, object_owners>>

compare_and_swap(t) ==
  /\ pc[t] = "swap"
  /\ IF shared_owners = object_owners[t]
     THEN /\ shared_owners' = object_owners[t] + 1
          /\ shared' = [shared EXCEPT ![t] = @ + 1] /\ Goes(t, "run")
     ELSE Goes(t, "read") /\ UNCHANGED <<shared_owners, shared>>
  /\ UNCHANGED <<weak_owners, object, control, weak, object_owners>>

Init ==
  /\ shared_owners = 0 /\ weak_owners = 0 /\ object = TRUE /\ control = TRUE
  /\ \E t \in Threads : shared = [u \in Threads |-> IF u = t THEN 1 ELSE 0]
  /\ weak = [t \in Threads |-> 0] /\ pc = [t \in Threads |-> "run"]
  /\ object_owners = [t \in Threads |-> 0]

Next == \E t \in Threads :
  \/ add_shared(t) \/ add_weak(t) \/ release_shared(t) \/ on_zero_shared(t)
  \/ release_weak(t) \/ on_zero_shared_weak(t) \/ lock(t) \/ compare_and_swap(t)
  \/ \E u \in Threads : Give(t, u)

-----------------------------------------------------------------------------
\* While a thread has a shared reference the object exists, one obtained from
\* a weak reference included; without any the object is gone, or a thread is
\* on its way to destroy it.
ObjectLives ==
  /\ (\E t \in Threads : shared[t] > 0) => object
  /\ (\A t \in Threads : shared[t] = 0) =>
       (object <=> \E t \in Threads : pc[t] = "destroy")

\* The counts exist as long as anybody has a reference or is about to use
\* one of them, and not longer.
ControlLives ==
  control <=> \E t \in Threads : shared[t] + weak[t] > 0 \/ pc[t] # "run"

=============================================================================
