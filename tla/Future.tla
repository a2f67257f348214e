------------------------------- MODULE Future -------------------------------
(***************************************************************************)
(* A promise and its futures (future.cpp of libcxx, thread.cpp for results *)
(* that wait for the end of a thread): the state they share, the threads   *)
(* that may satisfy it, and the threads that wait.                         *)
(***************************************************************************)
EXTENDS Integers, FiniteSets, Sequences

CONSTANTS Producers,     \* threads that use the promise
          Consumers      \* threads with a future or shared_future

VARIABLES constructed, ready,  \* bits of __state_
          exception,     \* __exception_, or "null"
          attached,      \* the bit __future_attached
          shared_owners, \* one less than the references
          freed,         \* the shared state is deleted
          promise,       \* the promise exists
          pc,            \* what each thread does
          exits          \* async_states_: times each thread lists the state

vars == <<constructed, ready, exception, attached, shared_owners, freed, promise, pc, exits>>

Parties == Producers \union Consumers

TypeOK ==
  /\ {constructed, ready, attached, freed, promise} \subseteq BOOLEAN
  /\ exception \in Producers \union {"null", "broken"}
  /\ shared_owners \in -1..Cardinality(Parties) + 1
  /\ pc \in [Parties -> {"run", "notify", "refused", "exit", "exitNotify", "end",
                         "none", "has", "wait", "woken", "value", "threw"}]
  /\ exits \in [Producers -> 0..1]

Goes(t, l) == pc' = [pc EXCEPT ![t] = l]
Others == <<attached, shared_owners, freed, promise, exits>>

NotifyAll(p) == [u \in Parties |-> IF pc[u] = "wait" THEN "woken" ELSE p[u]]

-----------------------------------------------------------------------------
(* The promise.  Each setter holds __mut_ for its test and assignments.    *)

has_value == constructed \/ exception # "null"

\* promise_already_satisfied
Refused(t) ==
  /\ promise /\ pc[t] = "run" /\ has_value /\ Goes(t, "refused")
  /\ UNCHANGED <<constructed, ready, exception>> /\ UNCHANGED Others

\* set_value notifies before it unlocks, set_exception after.
set_value(t) ==
  /\ promise /\ pc[t] = "run" /\ ~has_value
  /\ constructed' = TRUE /\ ready' = TRUE /\ pc' = NotifyAll([pc EXCEPT ![t] = "exit"])
  /\ UNCHANGED exception /\ UNCHANGED Others

set_exception(t) ==
  /\ promise /\ pc[t] = "run" /\ ~has_value
  /\ exception' = t /\ ready' = TRUE /\ Goes(t, "notify")
  /\ UNCHANGED constructed /\ UNCHANGED Others

Notify(t) ==
  /\ pc[t] = "notify" /\ pc' = NotifyAll([pc EXCEPT ![t] = "exit"])
  /\ UNCHANGED <<constructed, ready, exception>> /\ UNCHANGED Others

\* Mutant: the list at_thread_exit does not count as an owner.
ListUncounted(t) ==
  /\ exits' = [exits EXCEPT ![t] = @ + 1] /\ UNCHANGED shared_owners

make_ready_at_thread_exit(t) ==
  /\ exits' = [exits EXCEPT ![t] = @ + 1] /\ shared_owners' = shared_owners + 1

set_value_at_thread_exit(t) ==
  /\ promise /\ pc[t] = "run" /\ ~has_value
  /\ constructed' = TRUE /\ make_ready_at_thread_exit(t) /\ Goes(t, "exit")
  /\ UNCHANGED <<ready, exception, attached, freed, promise>>

set_exception_at_thread_exit(t) ==
  /\ promise /\ pc[t] = "run" /\ ~has_value
  /\ exception' = t /\ make_ready_at_thread_exit(t) /\ Goes(t, "exit")
  /\ UNCHANGED <<constructed, ready, attached, freed, promise>>

\* A thread that does not use the promise, or was refused, goes on to its end.
Leaves(t) ==
  /\ t \in Producers /\ pc[t] \in {"run", "refused"} /\ Goes(t, "exit")
  /\ UNCHANGED <<constructed, ready, exception>> /\ UNCHANGED Others

release_shared ==
  /\ shared_owners' = shared_owners - 1
  /\ freed' = (shared_owners = 0)

\* ~__thread_struct_imp: __make_ready, its notification, and the release.
ThreadExit(t) ==
  /\ t \in Producers /\ pc[t] = "exit"
  /\ IF exits[t] = 0 THEN Goes(t, "end") /\ UNCHANGED ready
                     ELSE Goes(t, "exitNotify") /\ ready' = TRUE
  /\ UNCHANGED <<constructed, exception>> /\ UNCHANGED Others

ExitNotify(t) ==
  /\ pc[t] = "exitNotify" /\ pc' = NotifyAll([pc EXCEPT ![t] = "end"])
  /\ exits' = [exits EXCEPT ![t] = @ - 1] /\ release_shared
  /\ UNCHANGED <<constructed, ready, exception, attached, promise>>

\* The promise is destroyed once the threads are through with it.
Unused == \A t \in Producers : pc[t] \notin {"run", "notify"}

\* ~promise: broken_promise for futures that are left.
Destroy ==
  /\ promise /\ Unused /\ promise' = FALSE /\ release_shared
  /\ IF ~has_value /\ shared_owners + 1 > 1
     THEN exception' = "broken" /\ ready' = TRUE /\ pc' = NotifyAll(pc)
     ELSE UNCHANGED <<exception, ready, pc>>
  /\ UNCHANGED <<constructed, attached, exits>>

-----------------------------------------------------------------------------
(* The futures.                                                            *)

get_future(c) ==
  /\ promise /\ pc[c] = "none" /\ ~attached
  /\ attached' = TRUE /\ shared_owners' = shared_owners + 1 /\ Goes(c, "has")
  /\ UNCHANGED <<constructed, ready, exception, freed, promise, exits>>

\* shared_future::operator=
Share(c, d) ==
  /\ pc[c] = "has" /\ pc[d] = "none" /\ d \in Consumers
  /\ shared_owners' = shared_owners + 1 /\ Goes(d, "has")
  /\ UNCHANGED <<constructed, ready, exception, attached, freed, promise, exits>>

\* copy: __sub_wait, then the exception if there is one; the reference goes
\* when get returns or throws.
copy(c) ==
  /\ pc[c] \in {"has", "woken"}
  /\ IF ~ready THEN Goes(c, "wait") /\ UNCHANGED <<shared_owners, freed>>
     ELSE Goes(c, IF exception = "null" THEN "value" ELSE "threw") /\ release_shared
  /\ UNCHANGED <<constructed, ready, exception, attached, promise, exits>>

\* A future is destroyed without being asked.
DropFuture(c) ==
  /\ pc[c] = "has" /\ Goes(c, "end") /\ release_shared
  /\ UNCHANGED <<constructed, ready, exception, attached, promise, exits>>

Init ==
  /\ constructed = FALSE /\ ready = FALSE /\ exception = "null" /\ attached = FALSE
  /\ shared_owners = 0 /\ freed = FALSE /\ promise = TRUE
  /\ pc = [t \in Parties |-> IF t \in Producers THEN "run" ELSE "none"]
  /\ exits = [t \in Producers |-> 0]

Next ==
  \/ \E t \in Producers :
       \/ Refused(t) \/ set_value(t) \/ set_exception(t) \/ Notify(t) \/ Leaves(t)
       \/ set_value_at_thread_exit(t) \/ set_exception_at_thread_exit(t)
       \/ ThreadExit(t) \/ ExitNotify(t)
  \/ Destroy
  \/ \E c \in Consumers : \/ get_future(c) \/ copy(c) \/ DropFuture(c)
                          \/ \E d \in Consumers : Share(c, d)

-----------------------------------------------------------------------------
\* The shared state is deleted when nothing refers to it: no promise, no
\* future, and no thread that will make it ready at its end; and nobody who
\* still has to lock or notify it finds it deleted.
StateLives ==
  freed <=> /\ ~promise /\ \A t \in Producers : exits[t] = 0 /\ pc[t] # "notify"
            /\ \A c \in Consumers : pc[c] \notin {"has", "wait", "woken"}

\* A promise is satisfied once, and everybody who asks gets that result: a
\* value and an exception are never both there, whichever of the four setters
\* race, and nobody returns before the result is ready.
OneResult ==
  /\ ~(constructed /\ exception # "null")
  /\ \A c \in Consumers : /\ pc[c] = "value" => ready /\ constructed
                          /\ pc[c] = "threw" => ready /\ exception # "null"

\* Nobody waits for a result that will not come: while a thread waits, the
\* promise is there, or a thread has still to end or to notify.
WaitEnds ==
  (\E c \in Consumers : pc[c] = "wait") =>
    \/ promise
    \/ \E t \in Producers : exits[t] > 0 \/ pc[t] = "notify"

=============================================================================
