----------------------------- MODULE TimedMutex -----------------------------
(***************************************************************************)
(* timed_mutex and recursive_timed_mutex of libcxx: a count (or a flag)    *)
(* and an owner, guarded by a plain mutex __m_, and a condition variable.  *)
(* A section under __m_ does not block, so it is one step.                 *)
(***************************************************************************)
EXTENDS Integers

CONSTANTS Threads, NoThread,
          Limit           \* numeric_limits<size_t>::max()

VARIABLES kind,           \* "timed" or "recursive"
          count,          \* __count_; 1 for __locked_
          id,             \* __id_ (recursive only)
          pc, held        \* where each thread is, locks it believes it has

vars == <<kind, count, id, pc, held>>

TypeOK ==
  /\ kind \in {"timed", "recursive"}
  /\ count \in 0..Limit /\ id \in Threads \cup {NoThread}
  /\ pc \in [Threads -> {"run", "wait", "waitTimed", "woken", "wokenTimed", "notify"}]
  /\ held \in [Threads -> 0..Limit]

Recursive == kind = "recursive"

Own(t) == Recursive /\ id = t

\* timed_mutex is not locked again by the thread that has it.
Calls(t) == pc[t] = "run" /\ (Recursive \/ held[t] = 0)

Goes(t, l) == pc' = [pc EXCEPT ![t] = l]

Takes(t) ==
  /\ count' = count + 1 /\ id' = (IF Recursive THEN t ELSE id)
  /\ held' = [held EXCEPT ![t] = @ + 1] /\ Goes(t, "run")

\* No lock is taken, and the thread goes on at l.
Without(t, l) == Goes(t, l) /\ UNCHANGED <<count, id, held>>

\* At the limit lock() throws and the others return false.
Again(t) == IF count = Limit THEN Without(t, "run") ELSE Takes(t)

lock(t) ==
  /\ Calls(t) \/ pc[t] = "woken"
  /\ \/ Own(t) /\ Again(t)
     \/ ~ Own(t) /\ count = 0 /\ Takes(t)
     \/ ~ Own(t) /\ count # 0 /\ Without(t, "wait")
  /\ UNCHANGED kind

\* try_lock() fails without waiting: also when another thread is in __m_,
\* so a call may always change nothing.
try_lock(t) ==
  /\ Calls(t)
  /\ \/ (count = 0 \/ Own(t)) /\ Again(t)
     \/ Without(t, "run")
  /\ UNCHANGED kind

\* The wait ended, by a signal or by the time.
TimedEnds(t) == pc[t] \in {"waitTimed", "wokenTimed"}

\* Mutant: a thread whose time is over returns false at once.
try_lock_until_late(t) ==
  /\ \/ Calls(t) /\ Own(t) /\ Again(t)
     \/ (Calls(t) \/ pc[t] = "wokenTimed") /\ ~ Own(t) /\ count = 0 /\ Takes(t)
     \/ (Calls(t) \/ pc[t] = "wokenTimed") /\ ~ Own(t) /\ count # 0 /\ Without(t, "waitTimed")
     \/ TimedEnds(t) /\ Without(t, "run")
  /\ UNCHANGED kind

\* The lock is looked at once more when the time is over.
try_lock_until(t) ==
  /\ Calls(t) \/ TimedEnds(t)
  /\ \/ Own(t) /\ Again(t)
     \/ ~ Own(t) /\ count = 0 /\ Takes(t)
     \/ ~ Own(t) /\ count # 0 /\ Without(t, "run")
     \/ ~ Own(t) /\ count # 0 /\ pc[t] # "waitTimed" /\ Without(t, "waitTimed")
  /\ UNCHANGED kind

Woken(l) == IF l = "wait" THEN "woken" ELSE "wokenTimed"

Waiting == {t \in Threads : pc[t] \in {"wait", "waitTimed"}}

\* notify_one() of a thread t that goes on.
NotifyOne(t) ==
  IF Waiting = {} THEN Goes(t, "run")
  ELSE \E u \in Waiting : pc' = [pc EXCEPT ![u] = Woken(@), ![t] = "run"]

\* timed_mutex notifies under __m_, recursive_timed_mutex after it let go.
unlock(t) ==
  /\ pc[t] = "run" /\ held[t] > 0
  /\ count' = count - 1 /\ held' = [held EXCEPT ![t] = @ - 1]
  /\ IF count > 1 THEN UNCHANGED <<id, pc>>
     ELSE /\ id' = NoThread
          /\ IF Recursive THEN Goes(t, "notify") ELSE NotifyOne(t)
  /\ UNCHANGED kind

notify_one(t) == pc[t] = "notify" /\ NotifyOne(t) /\ UNCHANGED <<kind, count, id, held>>

Spurious(t) ==
  t \in Waiting /\ Goes(t, Woken(pc[t])) /\ UNCHANGED <<kind, count, id, held>>

Init ==
  /\ kind \in {"timed", "recursive"} /\ count = 0 /\ id = NoThread
  /\ pc = [t \in Threads |-> "run"] /\ held = [t \in Threads |-> 0]

Next == \E t \in Threads :
  \/ lock(t) \/ try_lock(t) \/ try_lock_until(t)
  \/ unlock(t) \/ notify_one(t) \/ Spurious(t)

Spec == Init /\ [][Next]_vars

-----------------------------------------------------------------------------
\* At most one thread has the mutex, and it has it as often as __count_ says:
\* what lock(), the timed variants, limits and wake-ups leave behind agrees.
OneOwner ==
  \A t \in Threads : held[t] > 0 =>
    held[t] = count /\ \A u \in Threads \ {t} : held[u] = 0

\* Nobody waits for a free mutex unless a thread was woken or is about to wake
\* one: a signal is not wasted on a thread whose time is over, and a thread
\* that goes to sleep has not missed one.
NoLostSignal ==
  count = 0 /\ Waiting # {} =>
    \E t \in Threads : pc[t] \in {"woken", "wokenTimed", "notify"}

\* What a timed mutex promises: one owner, and no waiting for a free mutex.
Excludes == TypeOK /\ OneOwner /\ NoLostSignal

=============================================================================
